-------------------------- MODULE ResourceConverter --------------------------
(***************************************************************************)
(* ResourceConverter turns a tree of plists and packed files into           *)
(* kern_resources.cpp, the tables AlcEnabler works with.  It writes C++      *)
(* definitions one after the other and refers to them by numbered names;     *)
(* equal patch bytes and files of the same path are written only once.       *)
(*                                                                          *)
(* Dictionaries and directories are visited in an order nobody fixes.  The   *)
(* output is a sequence of definitions; what a definition refers to is a     *)
(* table name, a number and a length.  The text around them is left out, and *)
(* so is what is copied from a plist to the table as it is and decides       *)
(* nothing (names, kext paths, platform, model, counts, kernel limits).      *)
(***************************************************************************)
EXTENDS Integers, Sequences, FiniteSets

CONSTANTS
  Trees,      \* the resource directories that may be converted
  Bytes,      \* what files and patches may hold
  HeaderIds   \* the kexts whose KextId kern_resources.hpp declares

Has(d, key) == key \in DOMAIN d

(* What the plists hold.  The lists of a codec or controller may be missing.  *)

FileEntry == [path : STRING, id : Nat]
PatchEntry == [name : STRING, find : Bytes, replace : Bytes]

IsDict(d) ==
  /\ Has(d, "revisions") => d.revisions \in Seq(Nat)
  /\ Has(d, "platforms") => d.platforms \in Seq(FileEntry)
  /\ Has(d, "layouts") => d.layouts \in Seq(FileEntry)
  /\ Has(d, "patches") => d.patches \in Seq(PatchEntry)

\* PCI and codec numbers have 16 bits.
Ids == {k \in Nat : k < 65536}

IsTree(t) ==
  /\ \A name \in DOMAIN t.vendors : t.vendors[name] \in Ids
  /\ \A dir \in DOMAIN t.codecs : IsDict(t.codecs[dir]) /\ t.codecs[dir].codec \in Ids
  /\ DOMAIN t.controllers = 1 .. Len(t.controllers) /\ Len(t.controllers) \in Nat
  /\ \A c \in DOMAIN t.controllers : IsDict(t.controllers[c]) /\ t.controllers[c].device \in Ids
  /\ \A path \in DOMAIN t.files : t.files[path] \in Bytes

ASSUME BytesAssumption == Bytes \subseteq Seq(0 .. 255)
ASSUME TreesAssumption == \A t \in Trees : IsTree(t)

\* Kexts.plist has the kexts of kern_resources.hpp, which names them without prefix.
ASSUME HeaderAssumption ==
  \A id \in HeaderIds :
    /\ id.prefix \in {"com.apple.driver", "com.apple.iokit"}
    /\ \A t \in Trees : \E name \in DOMAIN t.kexts : t.kexts[name].id = id

VARIABLES
  tree,             \* the resource directory
  pc,               \* which loop main is in
  todo,             \* what that loop has not visited yet
  vendor,           \* the vendor whose codecs are being generated
  cur, stage,       \* the codec or controller being generated, and its next list
  n, lines, refs,   \* how far in that list, its rows so far, and the lists written
  out,              \* the file so far, and what the generators remember
  kextNums,         \* the number of each kext, by its key in Kexts.plist
  kextSection, codecModSection, vendorSection, ctrlModSection   \* tables in the making

mainVars == <<pc, todo, vendor>>
dictVars == <<cur, stage, n, lines, refs>>
sections == <<kextSection, codecModSection, vendorSection, ctrlModSection>>
vars == <<tree, mainVars, dictVars, out, kextNums, sections>>

Kinds == {"file", "revisions", "platforms", "layouts", "patchBuf", "patches"}

UShort(k) == k % 65536

Nullptr == [table |-> "nullptr", index |-> 0, num |-> 0]

\* The file, the static counters, and the two static maps; a patch or file that
\* was not stored is not in their domain.
NoMap == [k \in {} |-> 0]
NoOutput == [cpp |-> <<>>, next |-> [k \in Kinds |-> 0], fileList |-> NoMap, patchBufMap |-> NoMap]

With(map, key, value) == [k \in DOMAIN map \cup {key} |-> IF k = key THEN value ELSE map[k]]

-----------------------------------------------------------------------------
(* What the generators write: from the output so far to the output after it.  *)

AppendFile(o, kind, index, body) ==
  [o EXCEPT !.cpp = Append(@, [kind |-> kind, index |-> index, body |-> body])]

\* An array under the next number of its kind.
Emit(o, kind, body) ==
  [AppendFile(o, kind, o.next[kind], body) EXCEPT !.next[kind] = @ + 1]

\* The number just used: the static counters are counted up before they are named.
Mut_NamesTheNext(o, kind, num) == [table |-> kind, index |-> o.next[kind], num |-> num]
LastRef(o, kind, num) == [table |-> kind, index |-> o.next[kind] - 1, num |-> num]

Mut_KnowsFilesByName(o, path) ==
  IF \/ \E p \in DOMAIN o.fileList : p[2] = path[2]
     \/ ~Has(tree.files, path) THEN o
  ELSE [Emit(o, "file", tree.files[path]) EXCEPT !.fileList = With(@, path, o.next["file"])]

Mut_CountsFileFirst(o, path) ==
  IF Has(o.fileList, path) \/ ~Has(tree.files, path) THEN o
  ELSE [Emit(o, "file", tree.files[path]) EXCEPT !.fileList = With(@, path, o.next["file"] + 1)]

GenerateFile(o, path) ==
  IF Has(o.fileList, path) \/ ~Has(tree.files, path) THEN o
  ELSE [Emit(o, "file", tree.files[path]) EXCEPT !.fileList = With(@, path, o.next["file"])]

\* What generateFile returns; a file that is not there is a null pointer.
FileRef(o, path) ==
  IF Has(o.fileList, path)
  THEN [table |-> "file", index |-> o.fileList[path], num |-> Len(tree.files[path])]
  ELSE Nullptr

Mut_NeverFindsBuffer(o, bytes) ==
  [Emit(o, "patchBuf", bytes) EXCEPT !.patchBufMap = With(@, bytes, o.next["patchBuf"])]

\* lookupPatchBufIndex and, when it finds nothing, storePatchBufIndex.
PatchBuffer(o, bytes) ==
  IF Has(o.patchBufMap, bytes) THEN o
  ELSE [Emit(o, "patchBuf", bytes) EXCEPT !.patchBufMap = With(@, bytes, o.next["patchBuf"])]

SameLength(p) == Len(p.find) = Len(p.replace)

BufferRef(o, bytes) == [table |-> "patchBuf", index |-> o.patchBufMap[bytes], num |-> Len(bytes)]

\* The kext is written as its number; "(null)" is what an unknown one becomes.
NoKext == -1
KextNum(name) == IF Has(kextNums, name) THEN kextNums[name] ELSE NoKext

-----------------------------------------------------------------------------
(* main and the loops it calls.                                               *)

NoRefs == [kind \in {"revisions", "platforms", "layouts", "patches"} |-> Nullptr]

Init ==
  /\ tree \in Trees
  /\ pc = "kexts" /\ todo = DOMAIN tree.kexts
  /\ vendor = "none"
  /\ cur = "none" /\ stage = "none" /\ n = 0 /\ lines = <<>> /\ refs = NoRefs
  /\ out = NoOutput
  /\ kextNums = NoMap
  /\ kextSection = <<>> /\ codecModSection = <<>> /\ vendorSection = <<>> /\ ctrlModSection = <<>>

Go(to, set) == pc' = to /\ todo' = set /\ UNCHANGED vendor
Visit(x) == x \in todo /\ todo' = todo \ {x} /\ UNCHANGED <<pc, vendor>>

\* generateKexts: a KextId without its usual prefix, and a row of kextList.
NormKextID(id) ==
  IF id.prefix \in {"com.apple.driver", "com.apple.iokit"} THEN id.name ELSE id.prefix \o id.name

GenerateKext(name) ==
  /\ pc = "kexts" /\ Visit(name)
  /\ kextSection' = Append(kextSection,
       [id |-> tree.kexts[name].id, constant |-> NormKextID(tree.kexts[name].id),
        reloadable |-> Has(tree.kexts[name], "reloadable"),
        detect |-> Has(tree.kexts[name], "detect")])
  /\ kextNums' = With(kextNums, name, Len(kextSection))
  /\ UNCHANGED <<tree, dictVars, out, codecModSection, vendorSection, ctrlModSection>>

KextsDone ==
  /\ pc = "kexts" /\ todo = {}
  /\ out' = AppendFile(out, "kextList", 0, kextSection)
  /\ Go("vendors", DOMAIN tree.vendors)
  /\ UNCHANGED <<tree, dictVars, kextNums, sections>>

\* generateVendors calls generateCodecs for each vendor, in the middle of its loop.
NextVendor(v) ==
  /\ pc = "vendors" /\ v \in todo
  /\ vendor' = v
  /\ codecModSection' = <<>>
  /\ pc' = "codecs" /\ todo' = DOMAIN tree.codecs
  /\ UNCHANGED <<tree, dictVars, out, kextNums, kextSection, vendorSection, ctrlModSection>>

SkipCodec(dir) ==
  /\ pc = "codecs" /\ stage = "none" /\ Visit(dir)
  /\ tree.codecs[dir].vendor # vendor
  /\ UNCHANGED <<tree, dictVars, out, kextNums, sections>>

StartDict(x) ==
  /\ stage = "none" /\ Visit(x)
  /\ cur' = x /\ stage' = "revisions" /\ n' = 0 /\ lines' = <<>> /\ refs' = NoRefs
  /\ UNCHANGED <<tree, out, kextNums, sections>>

StartCodec(dir) == pc = "codecs" /\ StartDict(dir) /\ tree.codecs[dir].vendor = vendor

\* An array keeps its order.
StartController(c) == pc = "controllers" /\ StartDict(c) /\ \A d \in todo : c <= d

Entry == IF pc = "codecs" THEN tree.codecs[cur] ELSE tree.controllers[cur]

GenerateRevisions ==
  /\ stage = "revisions"
  /\ IF Has(Entry, "revisions")
     THEN /\ out' = Emit(out, "revisions", Entry.revisions)
          /\ refs' = [refs EXCEPT !.revisions = LastRef(out', "revisions", Len(Entry.revisions))]
     ELSE UNCHANGED <<out, refs>>
  /\ stage' = IF pc = "codecs" THEN "platforms" ELSE "patches"
  /\ UNCHANGED <<tree, mainVars, cur, n, lines, kextNums, sections>>

EntryLeft == Has(Entry, stage) /\ n < Len(Entry[stage])

\* generatePlatforms, generateLayouts: files are written while the rows of their
\* list are put together.
GenerateFileRow ==
  /\ stage \in {"platforms", "layouts"} /\ EntryLeft
  /\ LET f == Entry[stage][n + 1]
     IN  /\ out' = GenerateFile(out, <<cur, f.path>>)
         /\ lines' = Append(lines, [file |-> FileRef(out', <<cur, f.path>>), id |-> f.id])
  /\ n' = n + 1
  /\ UNCHANGED <<tree, mainVars, cur, stage, refs, kextNums, sections>>

\* generatePatches: a patch whose halves differ in length leaves an #error and is
\* still counted.  Buffers are gathered and written right above their list, so
\* nothing comes between them.
GeneratePatchRow ==
  /\ stage = "patches" /\ EntryLeft
  /\ LET p == Entry.patches[n + 1]
     IN  IF SameLength(p)
         THEN /\ out' = PatchBuffer(PatchBuffer(out, p.find), p.replace)
              /\ lines' = Append(lines,
                   [kext |-> KextNum(p.name), find |-> BufferRef(out', p.find),
                    replace |-> BufferRef(out', p.replace), size |-> Len(p.find)])
         ELSE UNCHANGED <<out, lines>>
  /\ n' = n + 1
  /\ UNCHANGED <<tree, mainVars, cur, stage, refs, kextNums, sections>>

ListBody == IF stage = "patches" THEN [rows |-> lines, error |-> Len(lines) # n] ELSE lines

EndOfList ==
  /\ stage \in {"platforms", "layouts", "patches"} /\ ~EntryLeft
  /\ IF Has(Entry, stage)
     THEN /\ out' = Emit(out, stage, ListBody)
          /\ refs' = [refs EXCEPT ![stage] = LastRef(out', stage, Len(Entry[stage]))]
     ELSE UNCHANGED <<out, refs>>
  /\ stage' = IF stage = "platforms" THEN "layouts" ELSE IF stage = "layouts" THEN "patches" ELSE "row"
  /\ n' = 0 /\ lines' = <<>>
  /\ UNCHANGED <<tree, mainVars, cur, kextNums, sections>>

GenerateCodec ==
  /\ pc = "codecs" /\ stage = "row" /\ stage' = "none"
  /\ codecModSection' = Append(codecModSection,
       [codec |-> UShort(Entry.codec), revisions |-> refs.revisions, platforms |-> refs.platforms,
        layouts |-> refs.layouts, patches |-> refs.patches])
  /\ UNCHANGED <<tree, mainVars, cur, n, lines, refs, out, kextNums, kextSection, vendorSection, ctrlModSection>>

\* codecMod<vendor> is written, and generateVendors notes how many codecs it has.
\* The vendors left are those that have no row yet.
CodecsDone ==
  /\ pc = "codecs" /\ stage = "none" /\ todo = {}
  /\ out' = AppendFile(out, "codecMod", vendor, codecModSection)
  /\ vendorSection' = Append(vendorSection,
       [name |-> vendor, vendor |-> UShort(tree.vendors[vendor]), num |-> Len(codecModSection)])
  /\ Go("vendors", DOMAIN tree.vendors \ {vendorSection'[k].name : k \in DOMAIN vendorSection'})
  /\ UNCHANGED <<tree, dictVars, kextNums, kextSection, codecModSection, ctrlModSection>>

VendorsDone ==
  /\ pc = "vendors" /\ todo = {}
  /\ out' = AppendFile(out, "vendorMod", 0, vendorSection)
  /\ Go("controllers", DOMAIN tree.controllers)
  /\ UNCHANGED <<tree, dictVars, kextNums, sections>>

\* A vendor that is not listed has the number 0.
VendorID(name) == IF Has(tree.vendors, name) THEN tree.vendors[name] ELSE 0

GenerateController ==
  /\ pc = "controllers" /\ stage = "row" /\ stage' = "none"
  /\ ctrlModSection' = Append(ctrlModSection,
       [vendor |-> UShort(VendorID(Entry.vendor)), device |-> UShort(Entry.device),
        revisions |-> refs.revisions, patches |-> refs.patches])
  /\ UNCHANGED <<tree, mainVars, cur, n, lines, refs, out, kextNums, kextSection, codecModSection, vendorSection>>

ControllersDone ==
  /\ pc = "controllers" /\ stage = "none" /\ todo = {}
  /\ out' = AppendFile(out, "controllerMod", 0, ctrlModSection)
  /\ Go("done", {})
  /\ UNCHANGED <<tree, dictVars, kextNums, sections>>

Next ==
  \/ \E x \in todo : \/ GenerateKext(x) \/ NextVendor(x) \/ SkipCodec(x) \/ StartCodec(x)
                     \/ StartController(x)
  \/ GenerateRevisions \/ GenerateFileRow \/ GeneratePatchRow \/ EndOfList
  \/ GenerateCodec \/ GenerateController
  \/ KextsDone \/ CodecsDone \/ VendorsDone \/ ControllersDone

Spec == Init /\ [][Next]_vars

-----------------------------------------------------------------------------
(* Reading the file, as the compiler and then AlcEnabler do.                  *)

cpp == out.cpp

Elems(s) == {s[k] : k \in DOMAIN s}

Definitions(kind, index) ==
  {k \in DOMAIN cpp : cpp[k].kind = kind /\ cpp[k].index = index}

\* The bodies of arrays are sequences, but that of patches notes an #error.
Elements(def) == IF def.kind = "patches" THEN def.body.rows ELSE def.body

Lookup(ref) ==
  IF ref = Nullptr THEN <<>>
  ELSE Elements(cpp[CHOOSE k \in Definitions(ref.table, ref.index) : TRUE])

\* What one definition refers to.
Refs(def) ==
  CASE def.kind \in {"platforms", "layouts"} -> {def.body[i].file : i \in DOMAIN def.body}
    [] def.kind = "patches" -> UNION {{r.find, r.replace} : r \in Elems(def.body.rows)}
    [] def.kind = "codecMod" ->
         UNION {{r.revisions, r.platforms, r.layouts, r.patches} : r \in Elems(def.body)}
    [] def.kind = "controllerMod" -> UNION {{r.revisions, r.patches} : r \in Elems(def.body)}
    [] def.kind = "vendorMod" ->
         {[table |-> "codecMod", index |-> r.name, num |-> r.num] : r \in Elems(def.body)}
    [] OTHER -> {}

\* What stops the compiler: an #error, a patch of kextList[(null)], and two
\* KextId constants of one name.
Broken(def) ==
  \/ def.kind = "patches" /\ (def.body.error \/ \E r \in Elems(def.body.rows) : r.kext = NoKext)
  \/ def.kind = "kextList" /\ \E i, j \in DOMAIN def.body :
       i # j /\ def.body[i].constant = def.body[j].constant

Compiles == \A k \in DOMAIN cpp : ~Broken(cpp[k])

\* The tables as AlcEnabler reads them ...
ReadPatch(r) ==
  [kext |-> kextSection[r.kext + 1].id, find |-> Lookup(r.find), replace |-> Lookup(r.replace),
   size |-> r.size]

ReadPatches(ref) == LET ps == Lookup(ref) IN [i \in DOMAIN ps |-> ReadPatch(ps[i])]

ReadFiles(ref) ==
  LET fs == Lookup(ref) IN [i \in DOMAIN fs |-> [data |-> Lookup(fs[i].file), id |-> fs[i].id]]

ReadCodec(r) ==
  [codec |-> r.codec, revisions |-> Lookup(r.revisions), platforms |-> ReadFiles(r.platforms),
   layouts |-> ReadFiles(r.layouts), patches |-> ReadPatches(r.patches)]

ReadController(r) ==
  [vendor |-> r.vendor, device |-> r.device, revisions |-> Lookup(r.revisions),
   patches |-> ReadPatches(r.patches)]

\* ... and as the plists describe them.
Listed(dict, key) == IF Has(dict, key) THEN dict[key] ELSE <<>>

PatchesOf(dict) ==
  LET ps == Listed(dict, "patches")
  IN  [i \in DOMAIN ps |-> [kext |-> tree.kexts[ps[i].name].id, find |-> ps[i].find,
                            replace |-> ps[i].replace, size |-> Len(ps[i].find)]]

FilesOf(dir, key) ==
  LET fs == Listed(tree.codecs[dir], key)
  IN  [i \in DOMAIN fs |-> [data |-> Listed(tree.files, <<dir, fs[i].path>>), id |-> fs[i].id]]

CodecOf(dir) ==
  LET dict == tree.codecs[dir]
  IN  [codec |-> dict.codec, revisions |-> Listed(dict, "revisions"),
       platforms |-> FilesOf(dir, "platforms"), layouts |-> FilesOf(dir, "layouts"),
       patches |-> PatchesOf(dict)]

ControllerOf(entry) ==
  [vendor |-> VendorID(entry.vendor), device |-> entry.device,
   revisions |-> Listed(entry, "revisions"), patches |-> PatchesOf(entry)]

\* The plists the file is made of, and whether C++ can be made of them.
CodecsOf(v) == {dir \in DOMAIN tree.codecs : tree.codecs[dir].vendor = v}

Dicts ==
  {tree.codecs[dir] : dir \in UNION {CodecsOf(v) : v \in DOMAIN tree.vendors}}
    \cup Elems(tree.controllers)

WellMade ==
  /\ \A dict \in Dicts : \A p \in Elems(Listed(dict, "patches")) :
       SameLength(p) /\ Has(tree.kexts, p.name)
  /\ \A j, k \in DOMAIN tree.kexts :
       NormKextID(tree.kexts[j].id) = NormKextID(tree.kexts[k].id) => j = k

-----------------------------------------------------------------------------

(* Every variable has its type: whatever generateFile and generatePatches      *)
(* remember is the number of a definition already in the file.                 *)
TypeOK ==
  /\ tree \in Trees
  /\ pc \in {"kexts", "vendors", "codecs", "controllers", "done"}
  /\ stage \in {"none", "revisions", "platforms", "layouts", "patches", "row"}
  /\ Len(lines) <= n
  /\ out.next \in [Kinds -> Nat]
  /\ \A p \in DOMAIN out.fileList : out.fileList[p] \in 0 .. out.next["file"] - 1
  /\ DOMAIN out.patchBufMap \subseteq Bytes
  /\ \A b \in DOMAIN out.patchBufMap : out.patchBufMap[b] \in 0 .. out.next["patchBuf"] - 1
  /\ \A name \in DOMAIN kextNums : kextNums[name] \in 0 .. Len(kextSection) - 1

(* At every moment the file is C++ up to there: no name is defined twice, and   *)
(* whatever a definition of generateCodecs, generateControllers or             *)
(* generateVendors refers to stands above it, with as many elements as it says *)
(* (or with the #error that stops the compiler).                               *)
DeclaredBeforeUse ==
  \A k \in DOMAIN cpp :
    /\ Definitions(cpp[k].kind, cpp[k].index) = {k}
    /\ \A r \in Refs(cpp[k]) \ {Nullptr} :
         \E j \in Definitions(r.table, r.index) :
           j < k /\ (Len(Elements(cpp[j])) = r.num \/ Broken(cpp[j]))

FaithfulRows ==
  Compiles =>
    /\ {<<row.name, row.vendor>> : row \in Elems(vendorSection)} = {<<v, tree.vendors[v]>> : v \in DOMAIN tree.vendors}
    /\ \A v \in DOMAIN tree.vendors :
         LET mods == Lookup([table |-> "codecMod", index |-> v, num |-> 0])
         IN  /\ Len(mods) = Cardinality(CodecsOf(v))
             /\ {ReadCodec(r) : r \in Elems(mods)} = {CodecOf(dir) : dir \in CodecsOf(v)}
    /\ [i \in DOMAIN ctrlModSection |-> ReadController(ctrlModSection[i])]
         = [i \in DOMAIN tree.controllers |-> ControllerOf(tree.controllers[i])]
    /\ \A id \in HeaderIds : \E i \in DOMAIN kextSection :
         kextSection[i].constant = id.name /\ kextSection[i].id = id

(* A file that compiles says what the plists say: each listed vendor with its  *)
(* number, each codec of it once and with its own files and patches, each      *)
(* controller in its place, and each KextId constant of kern_resources.hpp at  *)
(* its kext.  It compiles unless the halves of a patch differ in length, a     *)
(* patch names no kext, or two kexts would share a constant.                   *)
TablesFaithful ==
  pc = "done" => FaithfulRows /\ (Compiles <=> WellMade)

(* Deduplication is complete: no bytes of a patch and no path of a file        *)
(* are written twice, over all codecs and controllers (Changelog.md 860,       *)
(* lookupPatchBufIndex and the file list of generateFile).                     *)
NothingTwice ==
  /\ \A j, k \in DOMAIN cpp :
       cpp[j].kind = "patchBuf" /\ cpp[k].kind = "patchBuf" /\ cpp[j].body = cpp[k].body => j = k
  /\ Cardinality({k \in DOMAIN cpp : cpp[k].kind = "file"}) = Cardinality(DOMAIN out.fileList)
=============================================================================
