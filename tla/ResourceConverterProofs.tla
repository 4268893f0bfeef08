----------------------- MODULE ResourceConverterProofs -----------------------
(***************************************************************************)
(* For every set of resource directories and every order in which they are   *)
(* visited: the file is C++ at every moment, nothing is written twice, and a  *)
(* finished file says what the plists say.                                   *)
(*                                                                          *)
(* The first three are about one output and what appending a definition does *)
(* to it: Sound says that no name is defined twice, that what is referred to  *)
(* stands above, and that the two maps of the generators are exact.  The      *)
(* generators keep Sound; the loops of main keep what they hold declared.     *)
(*                                                                          *)
(* The fourth needs Faith beside it: whatever a reference names reads as the  *)
(* part of the plists it was made from, the reference of a row that is not    *)
(* finished included.  A longer file reads the same; each step adds one thing *)
(* that reads right; and at the end Lookup finds what Faith says is there.    *)
(***************************************************************************)
EXTENDS ResourceConverter, FiniteSetTheorems, TLAPS

IsSeq(s) == s \in Seq({s[i] : i \in DOMAIN s})

Lists == {"platforms", "layouts", "patches"}
RefKinds == Lists \cup {"revisions"}
TableKinds == Kinds \cup {"kextList", "codecMod", "vendorMod", "controllerMod"}

\* A definition that r names stands above position k of the file c ...
Stands(c, k, r) ==
  \E j \in DOMAIN c : /\ j < k
                      /\ c[j].kind = r.table /\ c[j].index = r.index
                      /\ Len(Elements(c[j])) = r.num \/ Broken(c[j])

\* ... or somewhere in the file, or r is null.
Declared(c, r) == r = Nullptr \/ Stands(c, Len(c) + 1, r)

Fresh(c, kind, index) == \A k \in DOMAIN c : ~(c[k].kind = kind /\ c[k].index = index)

Unique(c) ==
  \A j, k \in DOMAIN c : c[j].kind = c[k].kind /\ c[j].index = c[k].index => j = k

RefsStand(c) ==
  \A k \in DOMAIN c : \A r \in Refs(c[k]) : r = Nullptr \/ Stands(c, k, r)

\* Numbered definitions have the numbers below the counter of their kind.
KindsOK(o) ==
  \A k \in DOMAIN o.cpp :
    /\ o.cpp[k].kind \in TableKinds
    /\ o.cpp[k].kind \in Kinds => o.cpp[k].index \in 0 .. o.next[o.cpp[k].kind] - 1

IsOutput(o) ==
  /\ DOMAIN o = {"cpp", "next", "fileList", "patchBufMap"}
  /\ IsSeq(o.cpp)
  /\ o.next \in [Kinds -> Nat]

FileDefs(c) == {k \in DOMAIN c : c[k].kind = "file"}

FileListOK(o) ==
  /\ IsFiniteSet(DOMAIN o.fileList)
  /\ Cardinality(FileDefs(o.cpp)) = Cardinality(DOMAIN o.fileList)
  /\ \A p \in DOMAIN o.fileList :
       /\ p \in DOMAIN tree.files
       /\ \E j \in DOMAIN o.cpp : o.cpp[j] = [kind |-> "file", index |-> o.fileList[p], body |-> tree.files[p]]

PatchBufMapOK(o) ==
  /\ DOMAIN o.patchBufMap \subseteq Bytes
  /\ \A b \in DOMAIN o.patchBufMap :
       \E j \in DOMAIN o.cpp : o.cpp[j] = [kind |-> "patchBuf", index |-> o.patchBufMap[b], body |-> b]
  /\ \A j \in DOMAIN o.cpp : o.cpp[j].kind = "patchBuf" =>
       o.cpp[j].body \in DOMAIN o.patchBufMap /\ o.cpp[j].index = o.patchBufMap[o.cpp[j].body]

Sound(o) ==
  /\ IsOutput(o)
  /\ KindsOK(o)
  /\ Unique(o.cpp)
  /\ RefsStand(o.cpp)
  /\ FileListOK(o)
  /\ PatchBufMapOK(o)

\* Where main stands, and what it has not visited.
Named == {vendorSection[k].name : k \in DOMAIN vendorSection}

MainOK ==
  /\ tree \in Trees
  /\ pc \in {"kexts", "vendors", "codecs", "controllers", "done"}
  /\ stage \in Lists \cup {"none", "revisions", "row"}
  /\ IsSeq(vendorSection)
  /\ pc = "kexts" => todo \subseteq DOMAIN tree.kexts /\ vendorSection = <<>>
  /\ pc = "vendors" => todo = DOMAIN tree.vendors \ Named
  /\ pc = "codecs" => /\ todo \subseteq DOMAIN tree.codecs
                      /\ vendor \in DOMAIN tree.vendors \ Named
  /\ pc = "controllers" => todo \subseteq DOMAIN tree.controllers
  /\ pc = "done" => todo = {}
  /\ stage # "none" =>
       \/ pc = "codecs" /\ cur \in DOMAIN tree.codecs
       \/ pc = "controllers" /\ cur \in DOMAIN tree.controllers /\ stage \notin {"platforms", "layouts"}

\* The list being generated.
ListOK ==
  /\ n \in Nat /\ IsSeq(lines) /\ Len(lines) <= n
  /\ stage \notin Lists => n = 0
  /\ n > 0 => Has(Entry, stage) /\ n <= Len(Entry[stage])
  /\ stage \in {"platforms", "layouts"} =>
       Len(lines) = n /\ \A i \in DOMAIN lines : Declared(cpp, lines[i].file)
  /\ stage = "patches" =>
       \A i \in DOMAIN lines : Declared(cpp, lines[i].find) /\ Declared(cpp, lines[i].replace)
  /\ DOMAIN refs = RefKinds /\ \A kind \in RefKinds : Declared(cpp, refs[kind])

\* The tables in the making.
SectionsOK ==
  /\ IsSeq(kextSection) /\ IsSeq(codecModSection) /\ IsSeq(ctrlModSection)
  /\ \A name \in DOMAIN kextNums : kextNums[name] \in 0 .. Len(kextSection) - 1
  /\ \A i \in DOMAIN codecModSection :
       \A kind \in RefKinds : Declared(cpp, codecModSection[i][kind])
  /\ \A i \in DOMAIN ctrlModSection :
       \A kind \in {"revisions", "patches"} : Declared(cpp, ctrlModSection[i][kind])
  /\ \A i \in DOMAIN vendorSection :
       Declared(cpp, [table |-> "codecMod", index |-> vendorSection[i].name, num |-> vendorSection[i].num])

\* Which of the tables without a number are in the file.
TablesOK ==
  /\ \A k \in DOMAIN cpp : /\ cpp[k].kind = "kextList" => pc # "kexts"
                           /\ cpp[k].kind = "codecMod" => cpp[k].index \in Named
                           /\ cpp[k].kind = "vendorMod" => pc \in {"controllers", "done"}
                           /\ cpp[k].kind = "controllerMod" => pc = "done"

IInv == MainOK /\ Sound(out) /\ ListOK /\ SectionsOK /\ TablesOK

-----------------------------------------------------------------------------
(* Appending to a sequence, whatever it holds.                                *)

(* Append adds one element after those that were there.                        *)
LEMMA AppendFacts ==
  ASSUME NEW s, IsSeq(s), NEW e
  PROVE  LET t == Append(s, e)
         IN  /\ IsSeq(t)
             /\ Len(s) \in Nat /\ DOMAIN s = 1 .. Len(s)
             /\ Len(t) = Len(s) + 1 /\ DOMAIN t = 1 .. Len(s) + 1
             /\ t[Len(s) + 1] = e
             /\ \A i \in DOMAIN s : t[i] = s[i]
<1> DEFINE S == {s[i] : i \in DOMAIN s} \cup {e}
           t == Append(s, e)
<1>1. s \in Seq({s[i] : i \in DOMAIN s})
  BY DEF IsSeq
<1>2. Len(s) \in Nat /\ DOMAIN s = 1 .. Len(s)
  BY <1>1
<1>3. s \in Seq(S)
  <2>1. \A i \in 1 .. Len(s) : s[i] \in S
    BY <1>2
  <2> QED  BY <1>1, <1>2, <2>1
<1>4. t \in Seq(S) /\ Len(t) = Len(s) + 1 /\ t[Len(s) + 1] = e
  BY <1>3
<1>5. \A i \in DOMAIN s : t[i] = s[i]
  BY <1>2, <1>3
<1>6. DOMAIN t = 1 .. Len(s) + 1
  BY <1>4
<1>7. t \in Seq({t[i] : i \in DOMAIN t})
  BY <1>2, <1>4, <1>6
<1> QED  BY <1>2, <1>4, <1>5, <1>6, <1>7 DEF IsSeq

(* The empty sequence, and what an element of a set of sequences is.           *)
LEMMA SeqFacts ==
  /\ IsSeq(<<>>) /\ Len(<<>>) = 0 /\ DOMAIN <<>> = {}
  /\ \A s : IsSeq(s) => Len(s) \in Nat /\ DOMAIN s = 1 .. Len(s)
<1>1. IsSeq(<<>>) /\ Len(<<>>) = 0 /\ DOMAIN <<>> = {}
  BY DEF IsSeq
<1>2. ASSUME NEW s, IsSeq(s) PROVE Len(s) \in Nat /\ DOMAIN s = 1 .. Len(s)
  <2>1. s \in Seq({s[i] : i \in DOMAIN s})
    BY <1>2 DEF IsSeq
  <2> QED  BY <2>1
<1> QED  BY <1>1, <1>2

-----------------------------------------------------------------------------
(* Appending a definition.                                                    *)

(* A definition under a new name, whose references stand above it, keeps the   *)
(* file C++; all that was declared stays declared, and now so is it.           *)
LEMMA AppendDef ==
  ASSUME NEW c, IsSeq(c), NEW d, Fresh(c, d.kind, d.index),
         Unique(c), RefsStand(c), \A r \in Refs(d) : Declared(c, r)
  PROVE  LET c2 == Append(c, d)
         IN  /\ Unique(c2) /\ RefsStand(c2)
             /\ \A r : Declared(c, r) => Declared(c2, r)
             /\ \A r : r.table = d.kind /\ r.index = d.index /\ (Len(Elements(d)) = r.num \/ Broken(d))
                  => Declared(c2, r)
<1> DEFINE c2 == Append(c, d)
           m == Len(c)
<1>1. /\ m \in Nat /\ DOMAIN c = 1 .. m /\ Len(c2) = m + 1 /\ DOMAIN c2 = 1 .. m + 1
      /\ c2[m + 1] = d /\ \A i \in DOMAIN c : c2[i] = c[i]
  BY AppendFacts
<1> HIDE DEF c2, m
<1>2. Unique(c2)
  <2> SUFFICES ASSUME NEW j \in DOMAIN c2, NEW k \in DOMAIN c2,
                      c2[j].kind = c2[k].kind, c2[j].index = c2[k].index
               PROVE  j = k
    BY DEF Unique
  <2>1. CASE j \in DOMAIN c /\ k \in DOMAIN c
    BY <1>1, <2>1 DEF Unique
  <2>2. CASE j = m + 1 \/ k = m + 1
    BY <1>1, <2>2 DEF Fresh
  <2> QED  BY <1>1, <2>1, <2>2
<1>3. ASSUME NEW k \in 1 .. m + 1, NEW r, Stands(c, k, r)  PROVE Stands(c2, k, r)
  <2>1. PICK j \in DOMAIN c : /\ j < k /\ c[j].kind = r.table /\ c[j].index = r.index
                              /\ Len(Elements(c[j])) = r.num \/ Broken(c[j])
    BY <1>3 DEF Stands
  <2>2. j \in DOMAIN c2 /\ c2[j] = c[j]
    BY <1>1
  <2> QED  BY <2>1, <2>2 DEF Stands
<1>4. ASSUME NEW k \in 1 .. m + 1, NEW r, Stands(c2, k, r)  PROVE Stands(c2, m + 2, r)
  <2>1. PICK j \in DOMAIN c2 : /\ j < k /\ c2[j].kind = r.table /\ c2[j].index = r.index
                               /\ Len(Elements(c2[j])) = r.num \/ Broken(c2[j])
    BY <1>4 DEF Stands
  <2>2. j < m + 2
    BY <1>1, <2>1
  <2> QED  BY <2>1, <2>2 DEF Stands
<1>5. RefsStand(c2)
  <2> SUFFICES ASSUME NEW k \in DOMAIN c2, NEW r \in Refs(c2[k]), r # Nullptr
               PROVE  Stands(c2, k, r)
    BY DEF RefsStand
  <2>1. CASE k \in DOMAIN c
    <3>1. c2[k] = c[k] /\ k \in 1 .. m + 1
      BY <1>1, <2>1
    <3>2. Stands(c, k, r)
      BY <2>1, <3>1 DEF RefsStand
    <3> QED  BY <1>3, <3>1, <3>2
  <2>2. CASE k = m + 1
    <3>1. Stands(c, m + 1, r)
      BY <1>1, <2>2 DEF Declared, m
    <3> QED  BY <1>1, <1>3, <2>2, <3>1
  <2> QED  BY <1>1, <2>1, <2>2
<1>6. ASSUME NEW r, Declared(c, r)  PROVE Declared(c2, r)
  <2>1. SUFFICES ASSUME r # Nullptr  PROVE Stands(c2, m + 2, r)
    BY <1>1 DEF Declared
  <2>2. Stands(c, m + 1, r)
    BY <1>6, <2>1 DEF Declared, m
  <2> QED  BY <1>1, <1>3, <1>4, <2>2
<1>7. ASSUME NEW r, r.table = d.kind, r.index = d.index, Len(Elements(d)) = r.num \/ Broken(d)
      PROVE  Declared(c2, r)
  <2>1. m + 1 \in DOMAIN c2 /\ m + 1 < m + 2 /\ c2[m + 1] = d
    BY <1>1
  <2>2. Stands(c2, m + 2, r)
    BY <1>7, <2>1 DEF Stands
  <2> QED  BY <1>1, <2>2 DEF Declared
<1> QED  BY <1>2, <1>5, <1>6, <1>7 DEF c2

-----------------------------------------------------------------------------
(* What the generators write.                                                 *)

\* The file of o2 begins with the file of o ...
Keeps(o, o2) ==
  DOMAIN o.cpp \subseteq DOMAIN o2.cpp /\ \A k \in DOMAIN o.cpp : o2.cpp[k] = o.cpp[k]

\* ... and goes on with arrays that have a number.
AddsArrays(o, o2) ==
  Keeps(o, o2) /\ \A k \in DOMAIN o2.cpp \ DOMAIN o.cpp : o2.cpp[k].kind \in Kinds

NoPatches(o, o2) == \A k \in DOMAIN o2.cpp \ DOMAIN o.cpp : o2.cpp[k].kind # "patches"

(* What was declared stays declared.                                           *)
LEMMA KeepsDeclared ==
  ASSUME NEW o, NEW o2, IsSeq(o.cpp), IsSeq(o2.cpp), Keeps(o, o2), NEW r, Declared(o.cpp, r)
  PROVE  Declared(o2.cpp, r)
<1>1. SUFFICES ASSUME r # Nullptr PROVE Stands(o2.cpp, Len(o2.cpp) + 1, r)
  BY DEF Declared
<1>2. PICK j \in DOMAIN o.cpp : /\ o.cpp[j].kind = r.table /\ o.cpp[j].index = r.index
                                /\ Len(Elements(o.cpp[j])) = r.num \/ Broken(o.cpp[j])
  BY <1>1 DEF Declared, Stands
<1>3. j \in DOMAIN o2.cpp /\ o2.cpp[j] = o.cpp[j] /\ j < Len(o2.cpp) + 1
  BY SeqFacts DEF Keeps
<1> QED  BY <1>2, <1>3 DEF Stands

(* An appended definition leaves the ones above it alone.                      *)
LEMMA AppendKeeps ==
  ASSUME NEW o, IsSeq(o.cpp), NEW d, NEW o2, o2.cpp = Append(o.cpp, d)
  PROVE  Keeps(o, o2) /\ (d.kind \in Kinds => AddsArrays(o, o2))
BY AppendFacts DEF Keeps, AddsArrays

(* Two generators in a row write arrays as one does.                           *)
LEMMA AddsTwice ==
  ASSUME NEW o, NEW o2, NEW o3, AddsArrays(o, o2), AddsArrays(o2, o3)
  PROVE  AddsArrays(o, o3)
BY DEF AddsArrays, Keeps

(* An output is itself, a definition at its end.                               *)
LEMMA AppendFileFacts ==
  ASSUME NEW o, IsOutput(o), NEW kind, NEW index, NEW body
  PROVE  LET a == AppendFile(o, kind, index, body)
         IN  /\ DOMAIN a = {"cpp", "next", "fileList", "patchBufMap"}
             /\ a.cpp = Append(o.cpp, [kind |-> kind, index |-> index, body |-> body])
             /\ a.next = o.next /\ a.fileList = o.fileList /\ a.patchBufMap = o.patchBufMap
BY DEF AppendFile, IsOutput

(* Emit appends an array under the number of its kind and counts that up.      *)
LEMMA EmitFacts ==
  ASSUME NEW o, IsOutput(o), NEW kind \in Kinds, NEW body
  PROVE  LET e == Emit(o, kind, body)
         IN  /\ DOMAIN e = {"cpp", "next", "fileList", "patchBufMap"}
             /\ e.cpp = Append(o.cpp, [kind |-> kind, index |-> o.next[kind], body |-> body])
             /\ e.next \in [Kinds -> Nat]
             /\ e.next[kind] = o.next[kind] + 1
             /\ \A k \in Kinds : k # kind => e.next[k] = o.next[k]
             /\ e.fileList = o.fileList /\ e.patchBufMap = o.patchBufMap
<1> DEFINE a == AppendFile(o, kind, o.next[kind], body)
<1>1. /\ DOMAIN a = {"cpp", "next", "fileList", "patchBufMap"}
      /\ a.cpp = Append(o.cpp, [kind |-> kind, index |-> o.next[kind], body |-> body])
      /\ a.next = o.next /\ a.fileList = o.fileList /\ a.patchBufMap = o.patchBufMap
  BY AppendFileFacts
<1>2. Emit(o, kind, body) = [a EXCEPT !.next[kind] = @ + 1]
  BY DEF Emit
<1> HIDE DEF a
<1>3. o.next \in [Kinds -> Nat]
  BY DEF IsOutput
<1> QED  BY <1>1, <1>2, <1>3

(* A definition whose number is that of its kind is new, and the numbers stay  *)
(* below the counter.                                                          *)
LEMMA EmitKinds ==
  ASSUME NEW o, IsOutput(o), KindsOK(o), NEW kind \in Kinds, NEW body,
         NEW e, e.cpp = Emit(o, kind, body).cpp, e.next = Emit(o, kind, body).next,
         DOMAIN e = {"cpp", "next", "fileList", "patchBufMap"}
  PROVE  /\ Fresh(o.cpp, kind, o.next[kind])
         /\ IsOutput(e) /\ KindsOK(e)
<1>1. /\ e.cpp = Append(o.cpp, [kind |-> kind, index |-> o.next[kind], body |-> body])
      /\ e.next \in [Kinds -> Nat] /\ e.next[kind] = o.next[kind] + 1
      /\ \A k \in Kinds : k # kind => e.next[k] = o.next[k]
  BY EmitFacts
<1>2. IsSeq(o.cpp) /\ o.next \in [Kinds -> Nat]
  BY DEF IsOutput
<1>3. Fresh(o.cpp, kind, o.next[kind])
  BY <1>2 DEF Fresh, KindsOK
<1>4. /\ IsSeq(e.cpp) /\ DOMAIN e.cpp = 1 .. Len(o.cpp) + 1 /\ DOMAIN o.cpp = 1 .. Len(o.cpp)
      /\ e.cpp[Len(o.cpp) + 1] = [kind |-> kind, index |-> o.next[kind], body |-> body]
      /\ \A k \in DOMAIN o.cpp : e.cpp[k] = o.cpp[k]
      /\ Len(o.cpp) \in Nat
  BY <1>1, <1>2, AppendFacts
<1>5. IsOutput(e)
  BY <1>1, <1>4 DEF IsOutput
<1>6. KindsOK(e)
  <2> SUFFICES ASSUME NEW k \in DOMAIN e.cpp
               PROVE  /\ e.cpp[k].kind \in TableKinds
                      /\ e.cpp[k].kind \in Kinds => e.cpp[k].index \in 0 .. e.next[e.cpp[k].kind] - 1
    BY DEF KindsOK
  <2>1. CASE k \in DOMAIN o.cpp
    <3>1. e.cpp[k] = o.cpp[k]
      BY <1>4, <2>1
    <3>2. \A j \in Kinds : o.next[j] <= e.next[j] /\ o.next[j] \in Nat /\ e.next[j] \in Nat
      BY <1>1, <1>2
    <3> QED  BY <2>1, <3>1, <3>2 DEF KindsOK
  <2>2. CASE k = Len(o.cpp) + 1
    <3>1. e.cpp[k].kind = kind /\ e.cpp[k].index = o.next[kind]
      BY <1>4, <2>2
    <3>2. kind \in TableKinds
      BY DEF TableKinds
    <3>3. o.next[kind] \in Nat /\ e.next[kind] = o.next[kind] + 1
      BY <1>1, <1>2
    <3> QED  BY ONLY <3>1, <3>2, <3>3
  <2> QED  BY <1>4, <2>1, <2>2
<1> QED  BY <1>3, <1>5, <1>6

(* A definition of another kind leaves each map exact.                         *)
LEMMA FileListKept ==
  ASSUME NEW o, IsOutput(o), FileListOK(o), NEW d, d.kind # "file",
         NEW e, e.cpp = Append(o.cpp, d), e.fileList = o.fileList
  PROVE  FileListOK(e)
<1>1. /\ DOMAIN e.cpp = 1 .. Len(o.cpp) + 1 /\ DOMAIN o.cpp = 1 .. Len(o.cpp) /\ Len(o.cpp) \in Nat
      /\ e.cpp[Len(o.cpp) + 1] = d
      /\ \A k \in DOMAIN o.cpp : e.cpp[k] = o.cpp[k]
  BY AppendFacts DEF IsOutput
<1>2. FileDefs(e.cpp) = FileDefs(o.cpp)
  BY <1>1 DEF FileDefs
<1>3. ASSUME NEW x, \E j \in DOMAIN o.cpp : o.cpp[j] = x  PROVE \E j \in DOMAIN e.cpp : e.cpp[j] = x
  BY <1>1, <1>3
<1> QED  BY <1>2, <1>3 DEF FileListOK

(* Nor do the numbers of patch bytes change when no bytes are written.         *)
LEMMA PatchBufMapKept ==
  ASSUME NEW o, IsOutput(o), PatchBufMapOK(o), NEW d, d.kind # "patchBuf",
         NEW e, e.cpp = Append(o.cpp, d), e.patchBufMap = o.patchBufMap
  PROVE  PatchBufMapOK(e)
<1>1. /\ DOMAIN e.cpp = 1 .. Len(o.cpp) + 1 /\ DOMAIN o.cpp = 1 .. Len(o.cpp) /\ Len(o.cpp) \in Nat
      /\ e.cpp[Len(o.cpp) + 1] = d
      /\ \A k \in DOMAIN o.cpp : e.cpp[k] = o.cpp[k]
  BY AppendFacts DEF IsOutput
<1>2. ASSUME NEW x, \E j \in DOMAIN o.cpp : o.cpp[j] = x  PROVE \E j \in DOMAIN e.cpp : e.cpp[j] = x
  BY <1>1, <1>2
<1>3. ASSUME NEW j \in DOMAIN e.cpp, e.cpp[j].kind = "patchBuf"
      PROVE  /\ e.cpp[j].body \in DOMAIN o.patchBufMap
             /\ e.cpp[j].index = o.patchBufMap[e.cpp[j].body]
  BY <1>1, <1>3 DEF PatchBufMapOK
<1> QED  BY <1>2, <1>3 DEF PatchBufMapOK

(* An array of any other kind, whose references are declared, keeps the output *)
(* sound, and LastRef is a reference to it.                                    *)
LEMMA EmitSound ==
  ASSUME NEW o, Sound(o), NEW kind \in Kinds \ {"file", "patchBuf"}, NEW body,
         \A index : \A r \in Refs([kind |-> kind, index |-> index, body |-> body]) : Declared(o.cpp, r)
  PROVE  LET e == Emit(o, kind, body)
         IN  /\ Sound(e) /\ AddsArrays(o, e)
             /\ \A num, index :
                  LET d == [kind |-> kind, index |-> index, body |-> body]
                  IN  Len(Elements(d)) = num \/ Broken(d) => Declared(e.cpp, LastRef(e, kind, num))
<1> DEFINE e == Emit(o, kind, body)
           d(index) == [kind |-> kind, index |-> index, body |-> body]
<1>1. /\ e.cpp = Append(o.cpp, d(o.next[kind])) /\ e.next[kind] = o.next[kind] + 1
      /\ DOMAIN e = {"cpp", "next", "fileList", "patchBufMap"}
      /\ e.fileList = o.fileList /\ e.patchBufMap = o.patchBufMap
      /\ o.next[kind] \in Nat
  BY EmitFacts DEF Sound, IsOutput
<1>2. /\ Fresh(o.cpp, kind, o.next[kind]) /\ IsOutput(e) /\ KindsOK(e)
  BY <1>1, EmitKinds DEF Sound
<1> HIDE DEF e
<1>3. /\ Unique(e.cpp) /\ RefsStand(e.cpp)
      /\ \A r : Declared(o.cpp, r) => Declared(e.cpp, r)
      /\ \A r : /\ r.table = kind /\ r.index = o.next[kind]
                /\ Len(Elements(d(o.next[kind]))) = r.num \/ Broken(d(o.next[kind]))
                => Declared(e.cpp, r)
  <2>1. d(o.next[kind]).kind = kind /\ d(o.next[kind]).index = o.next[kind]
    OBVIOUS
  <2>2. \A r \in Refs(d(o.next[kind])) : Declared(o.cpp, r)
    OBVIOUS
  <2> HIDE DEF d
  <2> QED  BY <1>1, <1>2, <2>1, <2>2, AppendDef DEF Sound, IsOutput
<1>4. FileListOK(e) /\ PatchBufMapOK(e)
  <2>1. d(o.next[kind]).kind \notin {"file", "patchBuf"}
    OBVIOUS
  <2> HIDE DEF d
  <2>2. FileListOK(e)
    BY <1>1, <2>1, FileListKept DEF Sound
  <2>3. PatchBufMapOK(e)
    BY <1>1, <2>1, PatchBufMapKept DEF Sound
  <2> QED  BY <2>2, <2>3
<1>5. ASSUME NEW num, NEW index, Len(Elements(d(index))) = num \/ Broken(d(index))
      PROVE  Declared(e.cpp, LastRef(e, kind, num))
  <2> DEFINE r == LastRef(e, kind, num)
  <2>1. r.table = kind /\ r.index = o.next[kind] /\ r.num = num
    BY <1>1 DEF LastRef
  <2>2. /\ Elements(d(index)) = Elements(d(o.next[kind]))
        /\ Broken(d(index)) <=> Broken(d(o.next[kind]))
    BY DEF Elements, Broken
  <2> QED  BY <1>3, <1>5, <2>1, <2>2
<1>6. Sound(e)
  BY <1>2, <1>3, <1>4 DEF Sound
<1>7. AddsArrays(o, e)
  <2>1. d(o.next[kind]).kind \in Kinds
    OBVIOUS
  <2> HIDE DEF d
  <2> QED  BY <1>1, <2>1, AppendKeeps DEF Sound, IsOutput
<1> QED  BY <1>5, <1>6, <1>7 DEF e

(* The same for a table without a number.                                      *)
LEMMA AppendFileSound ==
  ASSUME NEW o, Sound(o), NEW kind \in TableKinds \ Kinds, NEW index, NEW body,
         Fresh(o.cpp, kind, index),
         \A r \in Refs([kind |-> kind, index |-> index, body |-> body]) : Declared(o.cpp, r)
  PROVE  LET a == AppendFile(o, kind, index, body)
             d == [kind |-> kind, index |-> index, body |-> body]
         IN  /\ Sound(a) /\ Keeps(o, a)
             /\ a.cpp = Append(o.cpp, d)
             /\ \A r : r.table = kind /\ r.index = index /\ (Len(Elements(d)) = r.num \/ Broken(d))
                  => Declared(a.cpp, r)
<1> DEFINE a == AppendFile(o, kind, index, body)
           d == [kind |-> kind, index |-> index, body |-> body]
<1>1. /\ a.cpp = Append(o.cpp, d) /\ a.next = o.next
      /\ DOMAIN a = {"cpp", "next", "fileList", "patchBufMap"}
      /\ a.fileList = o.fileList /\ a.patchBufMap = o.patchBufMap
  BY AppendFileFacts DEF Sound
<1>2. d.kind = kind /\ d.index = index /\ kind \notin Kinds /\ kind \in TableKinds
  OBVIOUS
<1>3. \A r \in Refs(d) : Declared(o.cpp, r)
  OBVIOUS
<1> HIDE DEF a, d
<1>4. /\ Unique(a.cpp) /\ RefsStand(a.cpp)
      /\ \A r : Declared(o.cpp, r) => Declared(a.cpp, r)
      /\ \A r : r.table = kind /\ r.index = index /\ (Len(Elements(d)) = r.num \/ Broken(d))
                => Declared(a.cpp, r)
  BY <1>1, <1>2, <1>3, AppendDef DEF Sound, IsOutput
<1>5. /\ IsSeq(a.cpp) /\ DOMAIN a.cpp = 1 .. Len(o.cpp) + 1 /\ DOMAIN o.cpp = 1 .. Len(o.cpp)
      /\ a.cpp[Len(o.cpp) + 1] = d /\ Len(o.cpp) \in Nat
      /\ \A k \in DOMAIN o.cpp : a.cpp[k] = o.cpp[k]
  BY <1>1, AppendFacts DEF Sound, IsOutput
<1>6. IsOutput(a)
  BY <1>1, <1>5 DEF Sound, IsOutput
<1>7. KindsOK(a)
  <2> SUFFICES ASSUME NEW k \in DOMAIN a.cpp
               PROVE  /\ a.cpp[k].kind \in TableKinds
                      /\ a.cpp[k].kind \in Kinds => a.cpp[k].index \in 0 .. a.next[a.cpp[k].kind] - 1
    BY DEF KindsOK
  <2>1. CASE k \in DOMAIN o.cpp
    BY <1>1, <1>5, <2>1 DEF KindsOK, Sound
  <2>2. CASE k = Len(o.cpp) + 1
    BY <1>2, <1>5, <2>2
  <2> QED  BY <1>5, <2>1, <2>2
<1>8. FileListOK(a) /\ PatchBufMapOK(a)
  <2>1. d.kind \notin {"file", "patchBuf"}
    BY <1>2 DEF Kinds
  <2>2. FileListOK(a)
    BY <1>1, <2>1, FileListKept DEF Sound
  <2>3. PatchBufMapOK(a)
    BY <1>1, <2>1, PatchBufMapKept DEF Sound
  <2> QED  BY <2>2, <2>3
<1>9. Keeps(o, a)
  BY <1>1, AppendKeeps DEF Sound, IsOutput
<1> QED  BY <1>1, <1>4, <1>6, <1>7, <1>8, <1>9 DEF Sound, a, d

(* generateFile keeps the output sound, and what it returns is declared.       *)
LEMMA GenerateFileSound ==
  ASSUME NEW o, Sound(o), NEW path
  PROVE  LET g == GenerateFile(o, path)
         IN  /\ Sound(g) /\ AddsArrays(o, g) /\ Declared(g.cpp, FileRef(g, path))
             /\ NoPatches(o, g) /\ (Has(g.fileList, path) \/ ~Has(tree.files, path))
<1> DEFINE g == GenerateFile(o, path)
           data == tree.files[path]
           num == o.next["file"]
           d == [kind |-> "file", index |-> num, body |-> data]
<1>1. CASE Has(o.fileList, path)
  <2>1. g = o
    BY <1>1 DEF GenerateFile
  <2> HIDE DEF g
  <2>2. PICK j \in DOMAIN o.cpp : o.cpp[j] = [kind |-> "file", index |-> o.fileList[path], body |-> data]
    BY <1>1 DEF Has, Sound, FileListOK
  <2>3. FileRef(o, path) = [table |-> "file", index |-> o.fileList[path], num |-> Len(data)]
    BY <1>1 DEF FileRef
  <2>4. Elements(o.cpp[j]) = data
    BY <2>2 DEF Elements
  <2>5. j < Len(o.cpp) + 1
    BY SeqFacts DEF Sound, IsOutput
  <2>6. Declared(o.cpp, FileRef(o, path))
    BY <2>2, <2>3, <2>4, <2>5 DEF Declared, Stands
  <2> QED  BY <1>1, <2>1, <2>6 DEF AddsArrays, Keeps, NoPatches, g
<1>2. CASE ~Has(o.fileList, path) /\ ~Has(tree.files, path)
  BY <1>2 DEF GenerateFile, FileRef, AddsArrays, Keeps, NoPatches, Declared
<1>3. CASE ~Has(o.fileList, path) /\ Has(tree.files, path)
  <2> DEFINE e == Emit(o, "file", data)
  <2>1. /\ e.cpp = Append(o.cpp, d) /\ e.next \in [Kinds -> Nat]
        /\ DOMAIN e = {"cpp", "next", "fileList", "patchBufMap"}
        /\ e.patchBufMap = o.patchBufMap /\ e.fileList = o.fileList
    <3>1. IsOutput(o)
      BY DEF Sound
    <3>2. "file" \in Kinds
      BY DEF Kinds
    <3> QED  BY <3>1, <3>2, EmitFacts
  <2>2. /\ g = [e EXCEPT !.fileList = With(o.fileList, path, o.next["file"])]
    <3>1. g = [e EXCEPT !.fileList = With(@, path, num)]
      BY <1>3 DEF GenerateFile
    <3> HIDE DEF e, g
    <3> QED  BY <2>1, <3>1
  <2>3. /\ g.cpp = Append(o.cpp, d)
        /\ g.fileList = With(o.fileList, path, num)
        /\ g.patchBufMap = o.patchBufMap
    <3> HIDE DEF e
    <3> QED  BY <2>1, <2>2
  <2>4. g.cpp = e.cpp /\ g.next = e.next /\ DOMAIN g = {"cpp", "next", "fileList", "patchBufMap"}
    <3> HIDE DEF e
    <3> QED  BY <2>1, <2>2
  <2>5. d.kind = "file" /\ d.index = num /\ d.body = data
    OBVIOUS
  <2> HIDE DEF g
  <2>6. Fresh(o.cpp, "file", num) /\ IsOutput(g) /\ KindsOK(g)
    BY <2>4, EmitKinds DEF Sound, Kinds
  <2> HIDE DEF e, num
  <2>7. Refs(d) = {} /\ Elements(d) = data
    BY DEF Refs, Elements
  <2> HIDE DEF d
  <2>8. /\ Unique(g.cpp) /\ RefsStand(g.cpp)
        /\ \A r : Declared(o.cpp, r) => Declared(g.cpp, r)
        /\ \A r : r.table = "file" /\ r.index = num /\ (Len(Elements(d)) = r.num \/ Broken(d))
                  => Declared(g.cpp, r)
    BY <2>3, <2>5, <2>6, <2>7, AppendDef DEF Sound, IsOutput
  <2>9. /\ DOMAIN g.cpp = 1 .. Len(o.cpp) + 1 /\ DOMAIN o.cpp = 1 .. Len(o.cpp)
        /\ g.cpp[Len(o.cpp) + 1] = d /\ Len(o.cpp) \in Nat
        /\ \A k \in DOMAIN o.cpp : g.cpp[k] = o.cpp[k]
    BY <2>3, AppendFacts DEF Sound, IsOutput
  <2>10. /\ DOMAIN g.fileList = DOMAIN o.fileList \cup {path} /\ g.fileList[path] = num
        /\ \A k \in DOMAIN o.fileList : g.fileList[k] = o.fileList[k]
    BY <1>3, <2>3 DEF Has, With
  <2>11. FileListOK(g)
    <3>1. IsFiniteSet(DOMAIN g.fileList) /\ Cardinality(DOMAIN g.fileList) = Cardinality(DOMAIN o.fileList) + 1
      <4>1. IsFiniteSet(DOMAIN o.fileList) /\ path \notin DOMAIN o.fileList
        BY <1>3 DEF Has, Sound, FileListOK
      <4> QED
        BY ONLY <2>10, <4>1, FS_AddElement
    <3>2. FileDefs(g.cpp) = FileDefs(o.cpp) \cup {Len(o.cpp) + 1} /\ Len(o.cpp) + 1 \notin FileDefs(o.cpp)
      BY <2>5, <2>9 DEF FileDefs
    <3>3. IsFiniteSet(FileDefs(o.cpp))
      <4>1. IsFiniteSet(1 .. Len(o.cpp)) /\ FileDefs(o.cpp) \subseteq 1 .. Len(o.cpp)
        BY <2>9, FS_Interval DEF FileDefs
      <4> QED  BY <4>1, FS_Subset
    <3>4. Cardinality(FileDefs(g.cpp)) = Cardinality(FileDefs(o.cpp)) + 1
      BY <3>2, <3>3, FS_AddElement
    <3>5. \A p \in DOMAIN g.fileList :
            /\ p \in DOMAIN tree.files
            /\ \E j \in DOMAIN g.cpp :
                 g.cpp[j] = [kind |-> "file", index |-> g.fileList[p], body |-> tree.files[p]]
      <4> SUFFICES ASSUME NEW p \in DOMAIN g.fileList
                   PROVE  /\ p \in DOMAIN tree.files
                          /\ \E j \in DOMAIN g.cpp :
                               g.cpp[j] = [kind |-> "file", index |-> g.fileList[p], body |-> tree.files[p]]
        OBVIOUS
      <4>1. CASE p = path
        BY <1>3, <2>9, <2>10, <4>1 DEF Has, d
      <4>2. CASE p # path
        <5>1. p \in DOMAIN o.fileList /\ g.fileList[p] = o.fileList[p]
          BY <2>10, <4>2
        <5>2. PICK j \in DOMAIN o.cpp : o.cpp[j] = [kind |-> "file", index |-> o.fileList[p], body |-> tree.files[p]]
          BY <5>1 DEF Sound, FileListOK
        <5>3. j \in DOMAIN g.cpp /\ g.cpp[j] = o.cpp[j]
          BY <2>9
        <5> QED  BY <5>1, <5>2, <5>3 DEF Sound, FileListOK
      <4> QED  BY <4>1, <4>2
    <3> QED  BY <3>1, <3>4, <3>5 DEF FileListOK, Sound
  <2>12. PatchBufMapOK(g)
    BY <2>3, <2>5, PatchBufMapKept DEF Sound
  <2>13. Declared(g.cpp, FileRef(g, path))
    <3>1. FileRef(g, path) = [table |-> "file", index |-> num, num |-> Len(data)]
      BY <2>10 DEF FileRef, Has
    <3> QED  BY <2>7, <2>8, <3>1
  <2>14. AddsArrays(o, g)
    BY <2>3, <2>5, AppendKeeps DEF Sound, IsOutput, Kinds
  <2>15. Has(g.fileList, path) /\ NoPatches(o, g)
    BY <2>5, <2>9, <2>10 DEF Has, NoPatches
  <2> QED  BY <2>6, <2>8, <2>11, <2>12, <2>13, <2>14, <2>15 DEF Sound, g
<1> QED  BY <1>1, <1>2, <1>3

(* So do lookupPatchBufIndex and storePatchBufIndex; afterwards the bytes are   *)
(* known, and so are those that were.                                          *)
LEMMA PatchBufferSound ==
  ASSUME NEW o, Sound(o), NEW bytes \in Bytes
  PROVE  LET b == PatchBuffer(o, bytes)
         IN  /\ Sound(b) /\ AddsArrays(o, b) /\ NoPatches(o, b)
             /\ DOMAIN b.patchBufMap = DOMAIN o.patchBufMap \cup {bytes}
<1> DEFINE b == PatchBuffer(o, bytes)
           num == o.next["patchBuf"]
           d == [kind |-> "patchBuf", index |-> num, body |-> bytes]
<1>1. CASE Has(o.patchBufMap, bytes)
  BY <1>1 DEF PatchBuffer, Has, AddsArrays, Keeps, NoPatches
<1>2. CASE ~Has(o.patchBufMap, bytes)
  <2> DEFINE e == Emit(o, "patchBuf", bytes)
  <2>1. /\ e.cpp = Append(o.cpp, d) /\ e.next \in [Kinds -> Nat]
        /\ DOMAIN e = {"cpp", "next", "fileList", "patchBufMap"}
        /\ e.fileList = o.fileList /\ e.patchBufMap = o.patchBufMap
    BY EmitFacts DEF Sound, Kinds
  <2>2. b = [e EXCEPT !.patchBufMap = With(o.patchBufMap, bytes, o.next["patchBuf"])]
    BY <1>2, <2>1 DEF PatchBuffer
  <2>3. /\ b.cpp = Append(o.cpp, d)
        /\ b.patchBufMap = With(o.patchBufMap, bytes, num)
        /\ b.fileList = o.fileList
    <3> HIDE DEF e
    <3> QED  BY <2>1, <2>2
  <2>4. b.cpp = e.cpp /\ b.next = e.next /\ DOMAIN b = {"cpp", "next", "fileList", "patchBufMap"}
    <3> HIDE DEF e
    <3> QED  BY <2>1, <2>2
  <2>5. d.kind = "patchBuf" /\ d.index = num /\ d.body = bytes
    OBVIOUS
  <2> HIDE DEF b
  <2>6. Fresh(o.cpp, "patchBuf", num) /\ IsOutput(b) /\ KindsOK(b)
    BY <2>4, EmitKinds DEF Sound, Kinds
  <2> HIDE DEF e, num
  <2>7. Refs(d) = {}
    BY DEF Refs
  <2> HIDE DEF d
  <2>8. /\ Unique(b.cpp) /\ RefsStand(b.cpp)
        /\ \A r : Declared(o.cpp, r) => Declared(b.cpp, r)
    BY <2>3, <2>5, <2>6, <2>7, AppendDef DEF Sound, IsOutput
  <2>9. /\ DOMAIN b.cpp = 1 .. Len(o.cpp) + 1 /\ DOMAIN o.cpp = 1 .. Len(o.cpp)
        /\ b.cpp[Len(o.cpp) + 1] = d /\ Len(o.cpp) \in Nat
        /\ \A k \in DOMAIN o.cpp : b.cpp[k] = o.cpp[k]
    BY <2>3, AppendFacts DEF Sound, IsOutput
  <2>10. /\ DOMAIN b.patchBufMap = DOMAIN o.patchBufMap \cup {bytes}
        /\ b.patchBufMap[bytes] = num
        /\ \A k \in DOMAIN o.patchBufMap : b.patchBufMap[k] = o.patchBufMap[k]
    BY <1>2, <2>3 DEF Has, With
  <2>11. PatchBufMapOK(b)
    <3>1. DOMAIN b.patchBufMap \subseteq Bytes
      BY <2>10 DEF Sound, PatchBufMapOK
    <3>2. ASSUME NEW k \in DOMAIN b.patchBufMap
          PROVE  \E j \in DOMAIN b.cpp :
                   b.cpp[j] = [kind |-> "patchBuf", index |-> b.patchBufMap[k], body |-> k]
      <4>1. CASE k = bytes
        BY <2>9, <2>10, <4>1 DEF d
      <4>2. CASE k # bytes
        <5>1. k \in DOMAIN o.patchBufMap /\ b.patchBufMap[k] = o.patchBufMap[k]
          BY <2>10, <4>2
        <5>2. PICK j \in DOMAIN o.cpp : o.cpp[j] = [kind |-> "patchBuf", index |-> o.patchBufMap[k], body |-> k]
          BY <5>1 DEF Sound, PatchBufMapOK
        <5>3. j \in DOMAIN b.cpp /\ b.cpp[j] = o.cpp[j]
          BY <2>9
        <5> QED  BY <5>1, <5>2, <5>3
      <4> QED  BY <4>1, <4>2
    <3>3. ASSUME NEW j \in DOMAIN b.cpp, b.cpp[j].kind = "patchBuf"
          PROVE  b.cpp[j].body \in DOMAIN b.patchBufMap /\ b.cpp[j].index = b.patchBufMap[b.cpp[j].body]
      <4>1. CASE j \in DOMAIN o.cpp
        <5>1. b.cpp[j] = o.cpp[j]
          BY <2>9, <4>1
        <5>2. o.cpp[j].body \in DOMAIN o.patchBufMap /\ o.cpp[j].index = o.patchBufMap[o.cpp[j].body]
          BY <3>3, <4>1, <5>1 DEF Sound, PatchBufMapOK
        <5> QED  BY <2>10, <5>1, <5>2
      <4>2. CASE j = Len(o.cpp) + 1
        BY <2>5, <2>9, <2>10, <4>2
      <4> QED  BY <2>9, <4>1, <4>2
    <3> QED  BY <3>1, <3>2, <3>3 DEF PatchBufMapOK
  <2>12. FileListOK(b)
    BY <2>3, <2>5, FileListKept DEF Sound
  <2>13. AddsArrays(o, b)
    BY <2>3, <2>5, AppendKeeps DEF Sound, IsOutput, Kinds
  <2>14. NoPatches(o, b)
    BY <2>5, <2>9 DEF NoPatches
  <2> QED  BY <2>6, <2>8, <2>10, <2>11, <2>12, <2>13, <2>14 DEF Sound, b
<1> QED  BY <1>1, <1>2

(* A buffer that is known is declared.                                         *)
LEMMA BufferDeclared ==
  ASSUME NEW o, Sound(o), NEW bytes \in DOMAIN o.patchBufMap
  PROVE  Declared(o.cpp, BufferRef(o, bytes))
<1>1. PICK j \in DOMAIN o.cpp : o.cpp[j] = [kind |-> "patchBuf", index |-> o.patchBufMap[bytes], body |-> bytes]
  BY DEF Sound, PatchBufMapOK
<1>2. Elements(o.cpp[j]) = bytes /\ j < Len(o.cpp) + 1
  BY <1>1, SeqFacts DEF Elements, Sound, IsOutput
<1>3. BufferRef(o, bytes) = [table |-> "patchBuf", index |-> o.patchBufMap[bytes], num |-> Len(bytes)]
  BY DEF BufferRef
<1> QED  BY <1>1, <1>2, <1>3 DEF Declared, Stands

-----------------------------------------------------------------------------
(* What a step of main keeps.                                                 *)

(* The codec or controller being generated is one of the plists.               *)
LEMMA EntryIsDict ==
  ASSUME MainOK, stage # "none"
  PROVE  IsDict(Entry)
<1>1. tree \in Trees /\ IsTree(tree)
  BY TreesAssumption DEF MainOK
<1>2. CASE pc = "codecs" /\ cur \in DOMAIN tree.codecs
  BY <1>1, <1>2 DEF Entry, IsTree
<1>3. CASE pc = "controllers" /\ cur \in DOMAIN tree.controllers
  BY <1>1, <1>3 DEF Entry, IsTree
<1> QED  BY <1>2, <1>3 DEF MainOK

(* Lists and tables in the making lose nothing when the file grows.            *)
LEMMA ListKept ==
  ASSUME Sound(out), Sound(out'), ListOK, Keeps(out, out'), UNCHANGED dictVars,
         n > 0 => UNCHANGED Entry
  PROVE  ListOK'
<1>1. \A r : Declared(cpp, r) => Declared(cpp', r)
  BY KeepsDeclared DEF Sound, IsOutput, cpp
<1> QED  BY <1>1 DEF ListOK, dictVars

(* So do the references of the tables in the making.                           *)
LEMMA SectionsKept ==
  ASSUME Sound(out), Sound(out'), SectionsOK, Keeps(out, out'), UNCHANGED <<kextNums, sections>>
  PROVE  SectionsOK'
<1>1. \A r : Declared(cpp, r) => Declared(cpp', r)
  BY KeepsDeclared DEF Sound, IsOutput, cpp
<1> QED  BY <1>1 DEF SectionsOK, sections

(* Arrays do not matter to the tables without a number.                        *)
LEMMA TablesKept ==
  ASSUME TablesOK, AddsArrays(out, out'), UNCHANGED <<pc, vendorSection>>
  PROVE  TablesOK'
<1>1. Named' = Named
  BY DEF Named
<1>2. ASSUME NEW k \in DOMAIN cpp', cpp'[k].kind \in TableKinds \ Kinds
      PROVE  k \in DOMAIN cpp /\ cpp'[k] = cpp[k]
  BY <1>2 DEF AddsArrays, Keeps, cpp
<1>3. {"kextList", "codecMod", "vendorMod", "controllerMod"} \subseteq TableKinds \ Kinds
  BY DEF TableKinds, Kinds
<1> QED  BY <1>1, <1>2, <1>3 DEF TablesOK

(* Sound speaks of one output, whichever moment it is from.                    *)
LEMMA SoundPrime ==
  ASSUME UNCHANGED tree, Sound(out')
  PROVE  Sound(out)'
BY DEF Sound, IsOutput, KindsOK, FileListOK, PatchBufMapOK

(* An empty file is sound.                                                     *)
LEMMA InitOK == Init => IInv
<1> SUFFICES ASSUME Init PROVE IInv
  OBVIOUS
<1> USE DEF Init
<1>1. MainOK
  BY SeqFacts DEF MainOK, Lists
<1>2. Sound(out)
  <2>1. /\ out.cpp = <<>> /\ DOMAIN out.fileList = {} /\ DOMAIN out.patchBufMap = {}
        /\ DOMAIN out = {"cpp", "next", "fileList", "patchBufMap"}
        /\ out.next \in [Kinds -> Nat]
    BY DEF NoOutput, NoMap
  <2>2. DOMAIN out.cpp = {} /\ IsSeq(out.cpp)
    BY <2>1, SeqFacts
  <2>3. FileDefs(out.cpp) = {}
    BY <2>2 DEF FileDefs
  <2>4. FileListOK(out)
    BY <2>1, <2>3, FS_EmptySet DEF FileListOK
  <2>5. PatchBufMapOK(out)
    BY <2>1, <2>2 DEF PatchBufMapOK
  <2> QED  BY <2>1, <2>2, <2>4, <2>5 DEF Sound, IsOutput, KindsOK, Unique, RefsStand
<1>3. ListOK
  <2>1. DOMAIN refs = RefKinds /\ \A kind \in RefKinds : refs[kind] = Nullptr
    BY DEF NoRefs, RefKinds, Lists
  <2> QED  BY <2>1, SeqFacts DEF ListOK, Declared, Lists
<1>4. SectionsOK
  BY SeqFacts DEF SectionsOK, NoMap
<1>5. TablesOK
  BY SeqFacts DEF TablesOK, cpp, NoOutput
<1> QED  BY <1>1, <1>2, <1>3, <1>4, <1>5 DEF IInv

(* Where main stands is right after every step.                                *)
LEMMA MainStep == IInv /\ [Next]_vars => MainOK'
<1> SUFFICES ASSUME IInv, [Next]_vars PROVE MainOK'
  OBVIOUS
<1> USE DEF IInv
<1>1. ASSUME NEW x \in todo, GenerateKext(x) PROVE MainOK'
  BY <1>1 DEF GenerateKext, Visit, MainOK, Named, dictVars
<1>2. ASSUME NEW x \in todo, NextVendor(x) PROVE MainOK'
  BY <1>2 DEF NextVendor, MainOK, Named, dictVars
<1>3. ASSUME NEW x \in todo, SkipCodec(x) PROVE MainOK'
  BY <1>3 DEF SkipCodec, Visit, MainOK, Named, dictVars, sections
<1>4. ASSUME NEW x \in todo, StartCodec(x) PROVE MainOK'
  BY <1>4 DEF StartCodec, StartDict, Visit, MainOK, Named, sections
<1>5. ASSUME NEW x \in todo, StartController(x) PROVE MainOK'
  BY <1>5 DEF StartController, StartDict, Visit, MainOK, Named, sections
<1>6. ASSUME GenerateRevisions PROVE MainOK'
  BY <1>6 DEF GenerateRevisions, MainOK, Named, mainVars, sections, Lists
<1>7. ASSUME GenerateFileRow PROVE MainOK'
  BY <1>7 DEF GenerateFileRow, MainOK, Named, mainVars, sections
<1>8. ASSUME GeneratePatchRow PROVE MainOK'
  BY <1>8 DEF GeneratePatchRow, MainOK, Named, mainVars, sections
<1>9. ASSUME EndOfList PROVE MainOK'
  BY <1>9 DEF EndOfList, MainOK, Named, mainVars, sections, Lists
<1>10. ASSUME GenerateCodec PROVE MainOK'
  BY <1>10 DEF GenerateCodec, MainOK, Named, mainVars
<1>11. ASSUME GenerateController PROVE MainOK'
  BY <1>11 DEF GenerateController, MainOK, Named, mainVars
<1>12. ASSUME KextsDone PROVE MainOK'
  <2>1. Named' = {}
    BY <1>12, SeqFacts DEF KextsDone, MainOK, Named, sections
  <2> QED  BY <1>12, <2>1 DEF KextsDone, Go, MainOK, dictVars, sections
<1>13. ASSUME CodecsDone PROVE MainOK'
  <2>1. todo' = DOMAIN tree.vendors \ Named'
    BY <1>13 DEF CodecsDone, Go, Named
  <2>2. IsSeq(vendorSection')
    BY <1>13, AppendFacts DEF CodecsDone, MainOK
  <2> QED  BY <1>13, <2>1, <2>2 DEF CodecsDone, Go, MainOK, dictVars
<1>14. ASSUME VendorsDone PROVE MainOK'
  BY <1>14 DEF VendorsDone, Go, MainOK, Named, dictVars, sections
<1>15. ASSUME ControllersDone PROVE MainOK'
  BY <1>15 DEF ControllersDone, Go, MainOK, Named, dictVars, sections
<1>16. ASSUME UNCHANGED vars PROVE MainOK'
  BY <1>16 DEF vars, MainOK, Named, mainVars, dictVars, sections
<1> QED  BY <1>1, <1>2, <1>3, <1>4, <1>5, <1>6, <1>7, <1>8, <1>9, <1>10, <1>11, <1>12, <1>13, <1>14, <1>15, <1>16 DEF Next

-----------------------------------------------------------------------------
(* The steps that write.                                                      *)

(* generateRevisions leaves a declared reference, or none.                     *)
LEMMA RevisionsWritten ==
  ASSUME IInv, GenerateRevisions
  PROVE  /\ Sound(out') /\ AddsArrays(out, out')
         /\ \A kind \in RefKinds : Declared(out'.cpp, refs'[kind])
<1>1. CASE Has(Entry, "revisions")
  <2> DEFINE body == Entry.revisions
             ref == LastRef(out', "revisions", Len(body))
  <2>1. out' = Emit(out, "revisions", body) /\ refs' = [refs EXCEPT !.revisions = ref]
    BY <1>1 DEF GenerateRevisions
  <2>2. \A index : LET d == [kind |-> "revisions", index |-> index, body |-> body]
                   IN  Refs(d) = {} /\ Len(Elements(d)) = Len(body)
    BY DEF Refs, Elements
  <2> HIDE DEF body
  <2>3. Sound(out') /\ AddsArrays(out, out') /\ Declared(out'.cpp, ref)
    BY <2>1, <2>2, EmitSound DEF IInv, Kinds
  <2> HIDE DEF ref
  <2>4. ASSUME NEW kind \in RefKinds
        PROVE  Declared(out'.cpp, refs'[kind])
    <3>1. refs'[kind] \in {refs[kind], ref}
      BY <2>1 DEF IInv, ListOK
    <3>2. Declared(out'.cpp, refs[kind])
      BY <2>3, KeepsDeclared DEF IInv, ListOK, cpp, Sound, IsOutput, AddsArrays
    <3> QED  BY <2>3, <3>1, <3>2
  <2> QED  BY <2>3, <2>4
<1>2. CASE ~Has(Entry, "revisions")
  BY <1>2 DEF GenerateRevisions, IInv, AddsArrays, Keeps, ListOK, cpp
<1> QED  BY <1>1, <1>2

(* A row of generatePlatforms or generateLayouts refers to its file, or to     *)
(* none; the rows before it still do.                                          *)
LEMMA FileRowWritten ==
  ASSUME IInv, GenerateFileRow
  PROVE  /\ Sound(out') /\ AddsArrays(out, out')
         /\ IsSeq(lines') /\ Len(lines') = n'
         /\ \A i \in DOMAIN lines' : Declared(out'.cpp, lines'[i].file)
<1> DEFINE f == Entry[stage][n + 1]
           row == [file |-> FileRef(out', <<cur, f.path>>), id |-> f.id]
<1>1. out' = GenerateFile(out, <<cur, f.path>>) /\ lines' = Append(lines, row) /\ n' = n + 1
  BY DEF GenerateFileRow
<1>2. Sound(out') /\ AddsArrays(out, out') /\ Declared(out'.cpp, FileRef(out', <<cur, f.path>>))
  BY <1>1, GenerateFileSound DEF IInv
<1>3. row.file = FileRef(out', <<cur, f.path>>)
  OBVIOUS
<1> HIDE DEF row
<1>4. /\ IsSeq(lines') /\ DOMAIN lines' = 1 .. Len(lines) + 1 /\ Len(lines') = Len(lines) + 1
      /\ lines'[Len(lines) + 1] = row /\ DOMAIN lines = 1 .. Len(lines) /\ Len(lines) \in Nat
      /\ \A i \in DOMAIN lines : lines'[i] = lines[i]
  BY <1>1, AppendFacts DEF IInv, ListOK
<1>5. Len(lines) = n /\ \A i \in DOMAIN lines : Declared(cpp, lines[i].file)
  BY DEF IInv, ListOK, GenerateFileRow
<1>6. \A i \in DOMAIN lines : Declared(out'.cpp, lines[i].file)
  BY <1>2, <1>5, KeepsDeclared DEF IInv, cpp, Sound, IsOutput, AddsArrays
<1>7. \A i \in DOMAIN lines' : i \in DOMAIN lines \/ i = Len(lines) + 1
  BY ONLY <1>4
<1>8. \A i \in DOMAIN lines' : Declared(out'.cpp, lines'[i].file)
  BY ONLY <1>2, <1>3, <1>4, <1>6, <1>7
<1> QED  BY ONLY <1>1, <1>2, <1>4, <1>5, <1>8

(* A row of generatePatches refers to its two buffers.                         *)
LEMMA PatchRowWritten ==
  ASSUME IInv, GeneratePatchRow
  PROVE  /\ Sound(out') /\ AddsArrays(out, out')
         /\ IsSeq(lines') /\ Len(lines') <= n'
         /\ \A i \in DOMAIN lines' :
              Declared(out'.cpp, lines'[i].find) /\ Declared(out'.cpp, lines'[i].replace)
<1> DEFINE p == Entry.patches[n + 1]
<1>1. p.find \in Bytes /\ p.replace \in Bytes
  <2>1. Has(Entry, "patches") /\ n < Len(Entry.patches) /\ n \in Nat
    BY DEF GeneratePatchRow, EntryLeft, IInv, ListOK
  <2>2. Entry.patches \in Seq(PatchEntry)
    BY <2>1, EntryIsDict DEF IInv, GeneratePatchRow, IsDict
  <2>3. p \in PatchEntry
    BY <2>1, <2>2
  <2> QED  BY <2>3 DEF PatchEntry
<1> HIDE DEF p
<1>2. n \in Nat /\ IsSeq(lines) /\ Len(lines) \in Nat /\ Len(lines) <= n /\ n' = n + 1
  BY SeqFacts DEF IInv, ListOK, GeneratePatchRow
<1>3. \A i \in DOMAIN lines : Declared(out.cpp, lines[i].find) /\ Declared(out.cpp, lines[i].replace)
  BY DEF IInv, ListOK, GeneratePatchRow, cpp
<1>4. CASE SameLength(p)
  <2> DEFINE row == [kext |-> KextNum(p.name), find |-> BufferRef(out', p.find),
                     replace |-> BufferRef(out', p.replace), size |-> Len(p.find)]
             half == PatchBuffer(out, p.find)
  <2>1. out' = PatchBuffer(half, p.replace) /\ lines' = Append(lines, row)
    BY <1>4 DEF GeneratePatchRow, p
  <2>2. Sound(half) /\ AddsArrays(out, half) /\ p.find \in DOMAIN half.patchBufMap
    BY <1>1, PatchBufferSound DEF IInv
  <2> HIDE DEF half
  <2>3. /\ Sound(out') /\ AddsArrays(half, out')
        /\ p.find \in DOMAIN out'.patchBufMap /\ p.replace \in DOMAIN out'.patchBufMap
    BY <1>1, <2>1, <2>2, PatchBufferSound
  <2>4. AddsArrays(out, out')
    BY <2>2, <2>3, AddsTwice
  <2>5. row.find = BufferRef(out', p.find) /\ row.replace = BufferRef(out', p.replace)
    OBVIOUS
  <2> HIDE DEF row
  <2>6. Declared(out'.cpp, row.find) /\ Declared(out'.cpp, row.replace)
    BY <2>3, <2>5, BufferDeclared
  <2>7. /\ IsSeq(lines') /\ DOMAIN lines' = 1 .. Len(lines) + 1 /\ Len(lines') = Len(lines) + 1
        /\ lines'[Len(lines) + 1] = row /\ DOMAIN lines = 1 .. Len(lines)
        /\ \A i \in DOMAIN lines : lines'[i] = lines[i]
    BY <1>2, <2>1, AppendFacts
  <2>8. \A i \in DOMAIN lines :
          Declared(out'.cpp, lines[i].find) /\ Declared(out'.cpp, lines[i].replace)
    BY <1>3, <2>3, <2>4, KeepsDeclared DEF IInv, Sound, IsOutput, AddsArrays
  <2> QED  BY <1>2, <2>3, <2>4, <2>6, <2>7, <2>8
<1>5. CASE ~SameLength(p)
  <2>1. UNCHANGED <<out, lines>>
    BY <1>5 DEF GeneratePatchRow, p
  <2> QED  BY <1>2, <1>3, <2>1 DEF IInv, AddsArrays, Keeps
<1> QED  BY <1>4, <1>5

(* The list itself: its rows are declared, it has as many as it says or an     *)
(* #error, and its reference stands for it.                                    *)
LEMMA ListWritten ==
  ASSUME IInv, EndOfList
  PROVE  /\ Sound(out') /\ AddsArrays(out, out')
         /\ DOMAIN refs' = RefKinds
         /\ \A kind \in RefKinds : Declared(out'.cpp, refs'[kind])
<1>1. stage \in Lists /\ n \in Nat /\ IsSeq(lines) /\ Len(lines) \in Nat
  BY SeqFacts DEF EndOfList, Lists, IInv, ListOK
<1>2. CASE Has(Entry, stage)
  <2> DEFINE num == Len(Entry[stage])
             ref == LastRef(out', stage, num)
             d(index) == [kind |-> stage, index |-> index, body |-> ListBody]
  <2>1. out' = Emit(out, stage, ListBody) /\ refs' = [refs EXCEPT ![stage] = ref]
    BY <1>2 DEF EndOfList
  <2>2. num = n
    <3>1. num \in Nat
      BY <1>1, <1>2, EntryIsDict DEF IInv, IsDict, Lists
    <3>2. ~(n < num) /\ (n > 0 => n <= num)
      BY <1>2 DEF EndOfList, EntryLeft, IInv, ListOK
    <3> QED  BY <1>1, <3>1, <3>2
  <2>3. ASSUME NEW index
        PROVE  /\ \A r \in Refs(d(index)) : Declared(out.cpp, r)
               /\ Len(Elements(d(index))) = num \/ Broken(d(index))
    <3>1. CASE stage \in {"platforms", "layouts"}
      <4>1. ListBody = lines /\ Len(lines) = n /\ \A i \in DOMAIN lines : Declared(out.cpp, lines[i].file)
        BY <3>1 DEF ListBody, IInv, ListOK, cpp
      <4>2. Elements(d(index)) = lines /\ Refs(d(index)) = {lines[i].file : i \in DOMAIN lines}
        BY <3>1, <4>1 DEF Elements, Refs
      <4> QED  BY <2>2, <4>1, <4>2
    <3>2. CASE stage = "patches"
      <4>1. /\ ListBody = [rows |-> lines, error |-> Len(lines) # n]
            /\ \A i \in DOMAIN lines : Declared(out.cpp, lines[i].find) /\ Declared(out.cpp, lines[i].replace)
        BY <3>2 DEF ListBody, IInv, ListOK, cpp
      <4>2. Elements(d(index)) = lines /\ (Len(lines) # n => Broken(d(index)))
        BY <3>2, <4>1 DEF Elements, Broken
      <4>3. \A r \in Refs(d(index)) : \E i \in DOMAIN lines : r \in {lines[i].find, lines[i].replace}
        BY <3>2, <4>1 DEF Refs, Elems
      <4> QED  BY <2>2, <4>1, <4>2, <4>3
    <3> QED  BY <1>1, <3>1, <3>2 DEF Lists
  <2>4. stage \in Kinds \ {"file", "patchBuf"}
    BY <1>1 DEF Lists, Kinds
  <2> HIDE DEF num
  <2>5. Sound(out') /\ AddsArrays(out, out') /\ Declared(out'.cpp, ref)
    BY <2>1, <2>3, <2>4, EmitSound DEF IInv
  <2> HIDE DEF ref, d
  <2>6. DOMAIN refs' = RefKinds /\ \A kind \in RefKinds : refs'[kind] \in {refs[kind], ref}
    BY <2>1 DEF IInv, ListOK
  <2>7. \A kind \in RefKinds : Declared(out'.cpp, refs[kind])
    BY <2>5, KeepsDeclared DEF IInv, ListOK, cpp, Sound, IsOutput, AddsArrays
  <2> QED  BY <2>5, <2>6, <2>7
<1>3. CASE ~Has(Entry, stage)
  BY <1>3 DEF EndOfList, IInv, AddsArrays, Keeps, ListOK, cpp
<1> QED  BY <1>2, <1>3

(* Each table without a number is written once, after what it refers to.       *)
LEMMA KextListWritten ==
  ASSUME IInv, KextsDone
  PROVE  /\ Sound(out') /\ Keeps(out, out')
         /\ out'.cpp = Append(out.cpp, [kind |-> "kextList", index |-> 0, body |-> kextSection])
<1>1. out' = AppendFile(out, "kextList", 0, kextSection)
  BY DEF KextsDone
<1>2. Fresh(out.cpp, "kextList", 0)
  BY DEF KextsDone, IInv, TablesOK, Fresh, cpp
<1>3. Refs([kind |-> "kextList", index |-> 0, body |-> kextSection]) = {}
  BY DEF Refs
<1>4. "kextList" \in TableKinds \ Kinds
  BY DEF TableKinds, Kinds
<1> QED  BY <1>1, <1>2, <1>3, <1>4, AppendFileSound DEF IInv

(* Each codec table has a name of its own, as each vendor is visited once.     *)
LEMMA CodecModWritten ==
  ASSUME IInv, CodecsDone
  PROVE  /\ Sound(out') /\ Keeps(out, out')
         /\ out'.cpp = Append(out.cpp, [kind |-> "codecMod", index |-> vendor, body |-> codecModSection])
         /\ Declared(out'.cpp, [table |-> "codecMod", index |-> vendor, num |-> Len(codecModSection)])
<1> DEFINE d == [kind |-> "codecMod", index |-> vendor, body |-> codecModSection]
           ref == [table |-> "codecMod", index |-> vendor, num |-> Len(codecModSection)]
<1>1. out' = AppendFile(out, "codecMod", vendor, codecModSection)
  BY DEF CodecsDone
<1>2. Fresh(out.cpp, "codecMod", vendor)
  BY DEF CodecsDone, IInv, MainOK, TablesOK, Fresh, cpp
<1>3. "codecMod" \in TableKinds \ Kinds /\ d.kind = "codecMod" /\ d.body = codecModSection
  BY DEF TableKinds, Kinds
<1>4. \A r \in Refs(d) : Declared(out.cpp, r)
  <2> SUFFICES ASSUME NEW r \in Refs(d) PROVE Declared(out.cpp, r)
    OBVIOUS
  <2>1. PICK i \in DOMAIN codecModSection :
          r \in {codecModSection[i].revisions, codecModSection[i].platforms,
                 codecModSection[i].layouts, codecModSection[i].patches}
    BY DEF Refs, Elems
  <2>2. \A kind \in RefKinds : Declared(out.cpp, codecModSection[i][kind])
    BY DEF IInv, SectionsOK, cpp
  <2> QED  BY <2>1, <2>2 DEF RefKinds, Lists
<1>5. Elements(d) = codecModSection
  BY DEF Elements
<1>6. ref.table = "codecMod" /\ ref.index = vendor /\ ref.num = Len(codecModSection)
  OBVIOUS
<1>7. /\ Sound(out') /\ Keeps(out, out') /\ out'.cpp = Append(out.cpp, d)
      /\ \A r : r.table = "codecMod" /\ r.index = vendor /\ (Len(Elements(d)) = r.num \/ Broken(d))
           => Declared(out'.cpp, r)
  BY <1>1, <1>2, <1>3, <1>4, AppendFileSound DEF IInv
<1> HIDE DEF ref
<1>8. Declared(out'.cpp, ref)
  BY <1>5, <1>6, <1>7
<1> QED  BY <1>7, <1>8 DEF ref

(* Every codecMod that vendorMod names stands above it.                        *)
LEMMA VendorModWritten ==
  ASSUME IInv, VendorsDone
  PROVE  /\ Sound(out') /\ Keeps(out, out')
         /\ out'.cpp = Append(out.cpp, [kind |-> "vendorMod", index |-> 0, body |-> vendorSection])
<1> DEFINE d == [kind |-> "vendorMod", index |-> 0, body |-> vendorSection]
<1>1. out' = AppendFile(out, "vendorMod", 0, vendorSection)
  BY DEF VendorsDone
<1>2. Fresh(out.cpp, "vendorMod", 0)
  BY DEF VendorsDone, IInv, TablesOK, Fresh, cpp
<1>3. "vendorMod" \in TableKinds \ Kinds
  BY DEF TableKinds, Kinds
<1>4. \A r \in Refs(d) : Declared(out.cpp, r)
  <2> SUFFICES ASSUME NEW r \in Refs(d) PROVE Declared(out.cpp, r)
    OBVIOUS
  <2>1. PICK i \in DOMAIN vendorSection :
          r = [table |-> "codecMod", index |-> vendorSection[i].name, num |-> vendorSection[i].num]
    BY DEF Refs, Elems
  <2> QED  BY <2>1 DEF IInv, SectionsOK, cpp
<1> QED  BY <1>1, <1>2, <1>3, <1>4, AppendFileSound DEF IInv

(* What the controllers refer to stands above controllerMod.                   *)
LEMMA ControllerModWritten ==
  ASSUME IInv, ControllersDone
  PROVE  /\ Sound(out') /\ Keeps(out, out')
         /\ out'.cpp = Append(out.cpp, [kind |-> "controllerMod", index |-> 0, body |-> ctrlModSection])
<1> DEFINE d == [kind |-> "controllerMod", index |-> 0, body |-> ctrlModSection]
<1>1. out' = AppendFile(out, "controllerMod", 0, ctrlModSection)
  BY DEF ControllersDone
<1>2. Fresh(out.cpp, "controllerMod", 0)
  BY DEF ControllersDone, IInv, TablesOK, Fresh, cpp
<1>3. "controllerMod" \in TableKinds \ Kinds
  BY DEF TableKinds, Kinds
<1>4. \A r \in Refs(d) : Declared(out.cpp, r)
  <2> SUFFICES ASSUME NEW r \in Refs(d) PROVE Declared(out.cpp, r)
    OBVIOUS
  <2>1. PICK i \in DOMAIN ctrlModSection : r \in {ctrlModSection[i].revisions, ctrlModSection[i].patches}
    BY DEF Refs, Elems
  <2>2. Declared(out.cpp, ctrlModSection[i]["revisions"]) /\ Declared(out.cpp, ctrlModSection[i]["patches"])
    BY DEF IInv, SectionsOK, cpp
  <2> QED  BY <2>1, <2>2
<1> QED  BY <1>1, <1>2, <1>3, <1>4, AppendFileSound DEF IInv

-----------------------------------------------------------------------------
(* The invariant.                                                             *)

(* What each step must show beside MainStep.                                   *)
LEMMA StepOK ==
  ASSUME IInv, [Next]_vars
  PROVE  tree' = tree /\ Sound(out') /\ ListOK' /\ SectionsOK' /\ TablesOK'
<1> USE DEF IInv
<1>0. n \in Nat /\ (stage = "none" => n = 0) /\ Keeps(out, out) /\ AddsArrays(out, out)
  BY DEF ListOK, Lists, Keeps, AddsArrays
<1>1. ASSUME NEW x \in todo, GenerateKext(x)
      PROVE  tree' = tree /\ Sound(out') /\ ListOK' /\ SectionsOK' /\ TablesOK'
  <2>1. tree' = tree /\ out' = out /\ UNCHANGED dictVars /\ pc' = pc /\ UNCHANGED vendorSection
    BY <1>1 DEF GenerateKext, Visit
  <2>2. Entry' = Entry
    BY <2>1 DEF Entry, dictVars
  <2>3. ListOK'
    BY <1>0, <2>1, <2>2, ListKept
  <2>4. SectionsOK'
    <3>1. IsSeq(kextSection) /\ Len(kextSection) \in Nat
      BY SeqFacts DEF SectionsOK
    <3>2. IsSeq(kextSection') /\ Len(kextSection') = Len(kextSection) + 1
      BY <1>1, <3>1, AppendFacts DEF GenerateKext
    <3>3. \A name \in DOMAIN kextNums' : kextNums'[name] \in 0 .. Len(kextSection') - 1
      BY <1>1, <3>1, <3>2 DEF GenerateKext, With, SectionsOK
    <3>4. UNCHANGED <<codecModSection, ctrlModSection, vendorSection>>
      BY <1>1 DEF GenerateKext
    <3> QED  BY <2>1, <3>2, <3>3, <3>4 DEF SectionsOK, cpp
  <2>5. TablesOK'
    BY <1>0, <2>1, TablesKept
  <2> QED  BY <2>1, <2>3, <2>4, <2>5
<1>2. ASSUME NEW x \in todo, NextVendor(x)
      PROVE  tree' = tree /\ Sound(out') /\ ListOK' /\ SectionsOK' /\ TablesOK'
  <2>1. /\ tree' = tree /\ out' = out /\ UNCHANGED <<dictVars, kextNums, kextSection, ctrlModSection, vendorSection>>
        /\ pc = "vendors" /\ pc' = "codecs" /\ codecModSection' = <<>>
    BY <1>2 DEF NextVendor
  <2>2. stage = "none"
    BY <2>1 DEF MainOK
  <2>3. ListOK'
    BY <1>0, <2>1, <2>2, ListKept
  <2>4. SectionsOK'
    BY <2>1, SeqFacts DEF SectionsOK, cpp
  <2>5. TablesOK'
    BY <2>1 DEF TablesOK, cpp, Named
  <2> QED  BY <2>1, <2>3, <2>4, <2>5
<1>3. ASSUME NEW x \in todo, SkipCodec(x)
      PROVE  tree' = tree /\ Sound(out') /\ ListOK' /\ SectionsOK' /\ TablesOK'
  <2>1. tree' = tree /\ out' = out /\ UNCHANGED <<dictVars, kextNums, sections>> /\ pc' = pc /\ UNCHANGED vendorSection
    BY <1>3 DEF SkipCodec, Visit, sections
  <2>2. Entry' = Entry
    BY <2>1 DEF Entry, dictVars
  <2> QED  BY <1>0, <2>1, <2>2, ListKept, SectionsKept, TablesKept
<1>4. ASSUME NEW x \in todo, StartDict(x)
      PROVE  tree' = tree /\ Sound(out') /\ ListOK' /\ SectionsOK' /\ TablesOK'
  <2>1. /\ tree' = tree /\ out' = out /\ UNCHANGED <<kextNums, sections>> /\ pc' = pc /\ UNCHANGED vendorSection
        /\ stage' = "revisions" /\ n' = 0 /\ lines' = <<>> /\ refs' = NoRefs
    BY <1>4 DEF StartDict, Visit, sections
  <2>2. ListOK'
    <3>1. DOMAIN refs' = RefKinds /\ \A kind \in RefKinds : refs'[kind] = Nullptr
      BY <2>1 DEF NoRefs, RefKinds, Lists
    <3> QED  BY <2>1, <3>1, SeqFacts DEF ListOK, Declared, Lists
  <2> QED  BY <1>0, <2>1, <2>2, SectionsKept, TablesKept
<1>5. ASSUME GenerateRevisions
      PROVE  tree' = tree /\ Sound(out') /\ ListOK' /\ SectionsOK' /\ TablesOK'
  <2>1. /\ Sound(out') /\ AddsArrays(out, out')
        /\ \A kind \in RefKinds : Declared(out'.cpp, refs'[kind])
    BY <1>5, RevisionsWritten
  <2>2. /\ tree' = tree /\ UNCHANGED <<mainVars, cur, n, lines, kextNums, sections>>
        /\ stage = "revisions" /\ stage' \in {"platforms", "patches"}
        /\ pc' = pc /\ UNCHANGED vendorSection
    BY <1>5 DEF GenerateRevisions, mainVars, sections
  <2>3. DOMAIN refs' = RefKinds
    BY <1>5 DEF GenerateRevisions, ListOK
  <2>4. n = 0 /\ Len(lines) = 0 /\ DOMAIN lines = {} /\ IsSeq(lines)
    BY <2>2, SeqFacts DEF ListOK, Lists
  <2>5. ListOK'
    BY <2>1, <2>2, <2>3, <2>4 DEF ListOK, cpp, Lists
  <2> QED  BY <2>1, <2>2, <2>5, SectionsKept, TablesKept DEF AddsArrays
<1>6. ASSUME GenerateFileRow
      PROVE  tree' = tree /\ Sound(out') /\ ListOK' /\ SectionsOK' /\ TablesOK'
  <2>1. /\ Sound(out') /\ AddsArrays(out, out')
        /\ IsSeq(lines') /\ Len(lines') = n'
        /\ \A i \in DOMAIN lines' : Declared(out'.cpp, lines'[i].file)
    BY <1>6, FileRowWritten
  <2>2. /\ tree' = tree /\ UNCHANGED <<mainVars, cur, stage, refs, kextNums, sections>>
        /\ stage \in {"platforms", "layouts"} /\ EntryLeft /\ n' = n + 1
        /\ pc' = pc /\ UNCHANGED vendorSection
    BY <1>6 DEF GenerateFileRow, mainVars, sections
  <2>3. Entry' = Entry
    BY <2>2 DEF Entry
  <2>4. DOMAIN refs' = RefKinds /\ \A kind \in RefKinds : Declared(out'.cpp, refs'[kind])
    BY <2>1, <2>2, KeepsDeclared DEF ListOK, cpp, Sound, IsOutput, AddsArrays
  <2>5. n' \in Nat /\ Has(Entry, stage) /\ n' <= Len(Entry[stage])
    <3>1. Len(Entry[stage]) \in Nat
      BY <2>2, EntryIsDict DEF IsDict, EntryLeft
    <3> QED  BY <1>0, <2>2, <3>1 DEF EntryLeft
  <2>6. ListOK'
    BY <2>1, <2>2, <2>3, <2>4, <2>5 DEF ListOK, cpp, Lists
  <2> QED  BY <2>1, <2>2, <2>6, SectionsKept, TablesKept DEF AddsArrays
<1>7. ASSUME GeneratePatchRow
      PROVE  tree' = tree /\ Sound(out') /\ ListOK' /\ SectionsOK' /\ TablesOK'
  <2>1. /\ Sound(out') /\ AddsArrays(out, out')
        /\ IsSeq(lines') /\ Len(lines') <= n'
        /\ \A i \in DOMAIN lines' :
             Declared(out'.cpp, lines'[i].find) /\ Declared(out'.cpp, lines'[i].replace)
    BY <1>7, PatchRowWritten
  <2>2. /\ tree' = tree /\ UNCHANGED <<mainVars, cur, stage, refs, kextNums, sections>>
        /\ stage = "patches" /\ EntryLeft /\ n' = n + 1
        /\ pc' = pc /\ UNCHANGED vendorSection
    BY <1>7 DEF GeneratePatchRow, mainVars, sections
  <2>3. Entry' = Entry
    BY <2>2 DEF Entry
  <2>4. DOMAIN refs' = RefKinds /\ \A kind \in RefKinds : Declared(out'.cpp, refs'[kind])
    BY <2>1, <2>2, KeepsDeclared DEF ListOK, cpp, Sound, IsOutput, AddsArrays
  <2>5. n' \in Nat /\ Has(Entry, stage) /\ n' <= Len(Entry[stage])
    <3>1. Len(Entry[stage]) \in Nat
      BY <2>2, EntryIsDict DEF IsDict, EntryLeft
    <3> QED  BY <1>0, <2>2, <3>1 DEF EntryLeft
  <2>6. ListOK'
    BY <2>1, <2>2, <2>3, <2>4, <2>5 DEF ListOK, cpp, Lists
  <2> QED  BY <2>1, <2>2, <2>6, SectionsKept, TablesKept DEF AddsArrays
<1>8. ASSUME EndOfList
      PROVE  tree' = tree /\ Sound(out') /\ ListOK' /\ SectionsOK' /\ TablesOK'
  <2>1. /\ Sound(out') /\ AddsArrays(out, out')
        /\ DOMAIN refs' = RefKinds /\ \A kind \in RefKinds : Declared(out'.cpp, refs'[kind])
    BY <1>8, ListWritten
  <2>2. /\ tree' = tree /\ UNCHANGED <<mainVars, cur, kextNums, sections>>
        /\ n' = 0 /\ lines' = <<>> /\ pc' = pc /\ UNCHANGED vendorSection
    BY <1>8 DEF EndOfList, mainVars, sections
  <2>3. ListOK'
    BY <2>1, <2>2, SeqFacts DEF ListOK, cpp, Lists
  <2> QED  BY <2>1, <2>2, <2>3, SectionsKept, TablesKept DEF AddsArrays
<1>9. ASSUME GenerateCodec
      PROVE  tree' = tree /\ Sound(out') /\ ListOK' /\ SectionsOK' /\ TablesOK'
  <2> DEFINE row == [codec |-> UShort(Entry.codec), revisions |-> refs.revisions,
                     platforms |-> refs.platforms, layouts |-> refs.layouts, patches |-> refs.patches]
  <2>1. /\ tree' = tree /\ UNCHANGED <<mainVars, cur, n, lines, refs, out, kextNums, kextSection, vendorSection, ctrlModSection>>
        /\ stage = "row" /\ stage' = "none" /\ pc' = pc
        /\ codecModSection' = Append(codecModSection, row)
    BY <1>9 DEF GenerateCodec, mainVars
  <2>2. \A kind \in RefKinds : Declared(cpp, row[kind])
    BY DEF RefKinds, Lists, ListOK
  <2> HIDE DEF row
  <2>3. IsSeq(codecModSection) /\ \A i \in DOMAIN codecModSection :
          \A kind \in RefKinds : Declared(cpp, codecModSection[i][kind])
    BY DEF SectionsOK
  <2>4. /\ IsSeq(codecModSection') /\ DOMAIN codecModSection' = 1 .. Len(codecModSection) + 1
        /\ Len(codecModSection) \in Nat /\ DOMAIN codecModSection = 1 .. Len(codecModSection)
        /\ codecModSection'[Len(codecModSection) + 1] = row
        /\ \A i \in DOMAIN codecModSection : codecModSection'[i] = codecModSection[i]
    BY <2>1, <2>3, AppendFacts
  <2>5. \A i \in DOMAIN codecModSection' : \A kind \in RefKinds : Declared(cpp, codecModSection'[i][kind])
    BY <2>2, <2>3, <2>4
  <2>6. SectionsOK'
    BY <2>1, <2>4, <2>5 DEF SectionsOK, cpp
  <2>7. ListOK'
    BY <2>1 DEF ListOK, cpp, Lists
  <2> QED  BY <1>0, <2>1, <2>6, <2>7, TablesKept
<1>10. ASSUME GenerateController
      PROVE  tree' = tree /\ Sound(out') /\ ListOK' /\ SectionsOK' /\ TablesOK'
  <2> DEFINE row == [vendor |-> UShort(VendorID(Entry.vendor)), device |-> UShort(Entry.device),
                     revisions |-> refs.revisions, patches |-> refs.patches]
  <2>1. /\ tree' = tree /\ UNCHANGED <<mainVars, cur, n, lines, refs, out, kextNums, kextSection, codecModSection, vendorSection>>
        /\ stage = "row" /\ stage' = "none" /\ pc' = pc
        /\ ctrlModSection' = Append(ctrlModSection, row)
    BY <1>10 DEF GenerateController, mainVars
  <2>2. \A kind \in {"revisions", "patches"} : Declared(cpp, row[kind])
    BY DEF RefKinds, Lists, ListOK
  <2> HIDE DEF row
  <2>3. IsSeq(ctrlModSection) /\ \A i \in DOMAIN ctrlModSection :
          \A kind \in {"revisions", "patches"} : Declared(cpp, ctrlModSection[i][kind])
    BY DEF SectionsOK
  <2>4. /\ IsSeq(ctrlModSection') /\ DOMAIN ctrlModSection' = 1 .. Len(ctrlModSection) + 1
        /\ Len(ctrlModSection) \in Nat /\ DOMAIN ctrlModSection = 1 .. Len(ctrlModSection)
        /\ ctrlModSection'[Len(ctrlModSection) + 1] = row
        /\ \A i \in DOMAIN ctrlModSection : ctrlModSection'[i] = ctrlModSection[i]
    BY <2>1, <2>3, AppendFacts
  <2>5. \A i \in DOMAIN ctrlModSection' :
          \A kind \in {"revisions", "patches"} : Declared(cpp, ctrlModSection'[i][kind])
    BY <2>2, <2>3, <2>4
  <2>6. SectionsOK'
    BY <2>1, <2>4, <2>5 DEF SectionsOK, cpp
  <2>7. ListOK'
    BY <2>1 DEF ListOK, cpp, Lists
  <2> QED  BY <1>0, <2>1, <2>6, <2>7, TablesKept
<1>11. ASSUME KextsDone
      PROVE  tree' = tree /\ Sound(out') /\ ListOK' /\ SectionsOK' /\ TablesOK'
  <2>1. /\ Sound(out') /\ Keeps(out, out')
        /\ out'.cpp = Append(out.cpp, [kind |-> "kextList", index |-> 0, body |-> kextSection])
    BY <1>11, KextListWritten
  <2>2. /\ tree' = tree /\ UNCHANGED <<dictVars, kextNums, sections>> /\ UNCHANGED vendorSection
        /\ pc = "kexts" /\ pc' = "vendors"
    BY <1>11 DEF KextsDone, Go, sections
  <2>3. stage = "none"
    BY <2>2 DEF MainOK
  <2>4. TablesOK'
    <3>1. \A k \in DOMAIN out'.cpp :
            \/ out'.cpp[k].kind = "kextList"
            \/ k \in DOMAIN out.cpp /\ out'.cpp[k] = out.cpp[k]
      BY <2>1, AppendFacts DEF Sound, IsOutput
    <3> QED  BY <2>2, <3>1 DEF TablesOK, cpp, Named
  <2> QED  BY <1>0, <2>1, <2>2, <2>3, <2>4, ListKept, SectionsKept
<1>12. ASSUME CodecsDone
      PROVE  tree' = tree /\ Sound(out') /\ ListOK' /\ SectionsOK' /\ TablesOK'
  <2> DEFINE ref == [table |-> "codecMod", index |-> vendor, num |-> Len(codecModSection)]
             row == [name |-> vendor, vendor |-> UShort(tree.vendors[vendor]), num |-> Len(codecModSection)]
  <2>1. /\ Sound(out') /\ Keeps(out, out')
        /\ out'.cpp = Append(out.cpp, [kind |-> "codecMod", index |-> vendor, body |-> codecModSection])
        /\ Declared(out'.cpp, ref)
    BY <1>12, CodecModWritten
  <2>2. /\ tree' = tree /\ UNCHANGED <<dictVars, kextNums, kextSection, codecModSection, ctrlModSection>>
        /\ pc = "codecs" /\ pc' = "vendors" /\ stage = "none"
        /\ vendorSection' = Append(vendorSection, row)
    BY <1>12 DEF CodecsDone, Go
  <2>3. [table |-> "codecMod", index |-> row.name, num |-> row.num] = ref /\ row.name = vendor
    OBVIOUS
  <2> HIDE DEF row, ref
  <2>4. /\ IsSeq(vendorSection') /\ DOMAIN vendorSection' = 1 .. Len(vendorSection) + 1
        /\ Len(vendorSection) \in Nat /\ DOMAIN vendorSection = 1 .. Len(vendorSection)
        /\ vendorSection'[Len(vendorSection) + 1] = row
        /\ \A i \in DOMAIN vendorSection : vendorSection'[i] = vendorSection[i]
    BY <2>2, AppendFacts DEF MainOK
  <2>5. \A r : Declared(cpp, r) => Declared(cpp', r)
    BY <2>1, KeepsDeclared DEF cpp, Sound, IsOutput
  <2>6. SectionsOK'
    <3>1. ASSUME NEW i \in DOMAIN vendorSection'
          PROVE  Declared(cpp', [table |-> "codecMod", index |-> vendorSection'[i].name,
                                 num |-> vendorSection'[i].num])
      <4>1. CASE i \in DOMAIN vendorSection
        BY <2>4, <2>5, <4>1 DEF SectionsOK
      <4>2. CASE i = Len(vendorSection) + 1
        BY <2>1, <2>3, <2>4, <4>2 DEF cpp
      <4> QED  BY <2>4, <4>1, <4>2
    <3> QED  BY <2>2, <2>5, <3>1 DEF SectionsOK
  <2>7. TablesOK'
    <3>1. \A k \in DOMAIN out'.cpp :
            \/ out'.cpp[k].kind = "codecMod" /\ out'.cpp[k].index = vendor
            \/ k \in DOMAIN out.cpp /\ out'.cpp[k] = out.cpp[k]
      BY <2>1, AppendFacts DEF Sound, IsOutput
    <3>2. Named \subseteq Named' /\ vendor \in Named'
      BY <2>3, <2>4 DEF Named
    <3> QED  BY <2>2, <3>1, <3>2 DEF TablesOK, cpp
  <2>8. ListOK'
    BY <1>0, <2>1, <2>2, ListKept
  <2> QED  BY <2>1, <2>2, <2>6, <2>7, <2>8
<1>13. ASSUME VendorsDone
      PROVE  tree' = tree /\ Sound(out') /\ ListOK' /\ SectionsOK' /\ TablesOK'
  <2>1. /\ Sound(out') /\ Keeps(out, out')
        /\ out'.cpp = Append(out.cpp, [kind |-> "vendorMod", index |-> 0, body |-> vendorSection])
    BY <1>13, VendorModWritten
  <2>2. /\ tree' = tree /\ UNCHANGED <<dictVars, kextNums, sections>> /\ UNCHANGED vendorSection
        /\ pc = "vendors" /\ pc' = "controllers"
    BY <1>13 DEF VendorsDone, Go, sections
  <2>3. stage = "none"
    BY <2>2 DEF MainOK
  <2>4. TablesOK'
    <3>1. \A k \in DOMAIN out'.cpp :
            \/ out'.cpp[k].kind = "vendorMod"
            \/ k \in DOMAIN out.cpp /\ out'.cpp[k] = out.cpp[k]
      BY <2>1, AppendFacts DEF Sound, IsOutput
    <3> QED  BY <2>2, <3>1 DEF TablesOK, cpp, Named
  <2> QED  BY <1>0, <2>1, <2>2, <2>3, <2>4, ListKept, SectionsKept
<1>14. ASSUME ControllersDone
      PROVE  tree' = tree /\ Sound(out') /\ ListOK' /\ SectionsOK' /\ TablesOK'
  <2>1. /\ Sound(out') /\ Keeps(out, out')
        /\ out'.cpp = Append(out.cpp, [kind |-> "controllerMod", index |-> 0, body |-> ctrlModSection])
    BY <1>14, ControllerModWritten
  <2>2. /\ tree' = tree /\ UNCHANGED <<dictVars, kextNums, sections>> /\ UNCHANGED vendorSection
        /\ pc = "controllers" /\ pc' = "done" /\ stage = "none"
    BY <1>14 DEF ControllersDone, Go, sections
  <2>3. TablesOK'
    <3>1. \A k \in DOMAIN out'.cpp :
            \/ out'.cpp[k].kind = "controllerMod"
            \/ k \in DOMAIN out.cpp /\ out'.cpp[k] = out.cpp[k]
      BY <2>1, AppendFacts DEF Sound, IsOutput
    <3> QED  BY <2>2, <3>1 DEF TablesOK, cpp, Named
  <2> QED  BY <1>0, <2>1, <2>2, <2>3, ListKept, SectionsKept
<1>15. ASSUME UNCHANGED vars
      PROVE  tree' = tree /\ Sound(out') /\ ListOK' /\ SectionsOK' /\ TablesOK'
  <2>1. tree' = tree /\ out' = out /\ UNCHANGED <<dictVars, kextNums, sections>> /\ pc' = pc /\ UNCHANGED vendorSection
    BY <1>15 DEF vars, mainVars, sections
  <2>2. Entry' = Entry
    BY <2>1 DEF Entry, dictVars
  <2> QED  BY <1>0, <2>1, <2>2, ListKept, SectionsKept, TablesKept
<1> QED  BY <1>1, <1>2, <1>3, <1>4, <1>5, <1>6, <1>7, <1>8, <1>9, <1>10, <1>11, <1>12, <1>13, <1>14, <1>15 DEF Next, StartCodec, StartController

(* IInv is inductive.                                                          *)
LEMMA Invariance == Spec => []IInv
<1>1. IInv /\ [Next]_vars => IInv'
  <2> SUFFICES ASSUME IInv, [Next]_vars PROVE IInv'
    OBVIOUS
  <2>1. Sound(out)'
    BY StepOK, SoundPrime
  <2> QED  BY <2>1, StepOK, MainStep DEF IInv
<1> QED  BY <1>1, InitOK, PTL DEF Spec

-----------------------------------------------------------------------------
(* What a reader of the file finds.  The plists t, the numbers of the kexts    *)
(* nums and the file c are parameters: none of this is about a moment.         *)

Names(ref, def) == def.kind = ref.table /\ def.index = ref.index

Reads(c, ref, body) ==
  \/ ref = Nullptr /\ body = <<>>
  \/ ref # Nullptr /\ \E k \in DOMAIN c : Names(ref, c[k]) /\ Elements(c[k]) = body

FileRow(t, c, row, dir, f) ==
  row.id = f.id /\ Reads(c, row.file, Listed(t.files, <<dir, f.path>>))

FilesRead(t, c, ref, dir, fs) ==
  \/ ref = Nullptr /\ fs = <<>>
  \/ /\ ref # Nullptr
     /\ \E k \in DOMAIN c : /\ Names(ref, c[k]) /\ c[k].kind # "patches" /\ DOMAIN c[k].body = DOMAIN fs
                            /\ \A i \in DOMAIN fs : FileRow(t, c, c[k].body[i], dir, fs[i])

NumOf(nums, name) == IF Has(nums, name) THEN nums[name] ELSE NoKext

PatchRow(nums, c, row, p) ==
  /\ SameLength(p) /\ row.kext = NumOf(nums, p.name) /\ row.size = Len(p.find)
  /\ Reads(c, row.find, p.find) /\ Reads(c, row.replace, p.replace)

Usable(t, p) == SameLength(p) /\ Has(t.kexts, p.name)

\* A list that breaks the file has a patch that cannot be used, and conversely.
PatchesRead(t, nums, c, ref, ps) ==
  \/ ref = Nullptr /\ ps = <<>>
  \/ /\ ref # Nullptr
     /\ \E k \in DOMAIN c :
          /\ Names(ref, c[k]) /\ c[k].kind = "patches"
          /\ Broken(c[k]) <=> \E i \in DOMAIN ps : ~Usable(t, ps[i])
          /\ ~Broken(c[k]) => /\ DOMAIN c[k].body.rows = DOMAIN ps
                              /\ \A i \in DOMAIN ps : PatchRow(nums, c, c[k].body.rows[i], ps[i])

CodecRow(t, nums, c, row, dir) ==
  LET d == t.codecs[dir]
  IN  /\ row.codec = UShort(d.codec)
      /\ Reads(c, row.revisions, Listed(d, "revisions"))
      /\ FilesRead(t, c, row.platforms, dir, Listed(d, "platforms"))
      /\ FilesRead(t, c, row.layouts, dir, Listed(d, "layouts"))
      /\ PatchesRead(t, nums, c, row.patches, Listed(d, "patches"))

\* One row for each of these codecs.
CodecRows(t, nums, c, rows, dirs) ==
  \E order \in [DOMAIN rows -> dirs] :
    /\ \A i, j \in DOMAIN rows : order[i] = order[j] => i = j
    /\ \A dir \in dirs : \E i \in DOMAIN rows : order[i] = dir
    /\ \A i \in DOMAIN rows : CodecRow(t, nums, c, rows[i], order[i])

ControllerRow(t, nums, c, row, d) ==
  /\ row.vendor = UShort(IF Has(t.vendors, d.vendor) THEN t.vendors[d.vendor] ELSE 0)
  /\ row.device = UShort(d.device)
  /\ Reads(c, row.revisions, Listed(d, "revisions"))
  /\ PatchesRead(t, nums, c, row.patches, Listed(d, "patches"))

CodecsIn(t, v) == {dir \in DOMAIN t.codecs : t.codecs[dir].vendor = v}

\* Codecs with a listed vendor, and controllers.
DictsIn(t) ==
  {t.codecs[dir] : dir \in {x \in DOMAIN t.codecs : t.codecs[x].vendor \in DOMAIN t.vendors}}
    \cup {t.controllers[i] : i \in DOMAIN t.controllers}

\* Whether every list of patches that breaks the file is the fault of a plist.
PatchesJust(t, c) ==
  (\E k \in DOMAIN c : c[k].kind = "patches" /\ Broken(c[k])) =>
    \E d \in DictsIn(t) : \E i \in DOMAIN Listed(d, "patches") : ~Usable(t, Listed(d, "patches")[i])

\* The kexts have their rows ...
KextsRead ==
  /\ DOMAIN kextNums = IF pc = "kexts" THEN DOMAIN tree.kexts \ todo ELSE DOMAIN tree.kexts
  /\ \A name \in DOMAIN kextNums :
       /\ kextNums[name] + 1 \in DOMAIN kextSection
       /\ kextSection[kextNums[name] + 1].id = tree.kexts[name].id
       /\ kextSection[kextNums[name] + 1].constant = NormKextID(tree.kexts[name].id)
  /\ \A i \in DOMAIN kextSection : \E name \in DOMAIN kextNums : kextNums[name] + 1 = i
  /\ \A j, k \in DOMAIN kextNums : kextNums[j] = kextNums[k] => j = k
  /\ \A k \in DOMAIN cpp : cpp[k].kind = "kextList" => cpp[k].body = kextSection
  /\ pc = "kexts" => cpp = <<>> /\ codecModSection = <<>>
  /\ pc # "kexts" => \E k \in DOMAIN cpp : cpp[k].kind = "kextList"

\* ... the list being generated reads as its plist as far as it got ...
LinesRead ==
  LET list == Listed(Entry, stage)
  IN  /\ stage \in {"platforms", "layouts"} =>
           \A i \in 1 .. n : FileRow(tree, cpp, lines[i], cur, list[i])
      /\ stage = "patches" =>
           /\ \A j \in DOMAIN lines : \E i \in 1 .. n : PatchRow(kextNums, cpp, lines[j], list[i])
           /\ Len(lines) # n => \E i \in 1 .. n : ~SameLength(list[i])
           /\ Len(lines) = n => \A i \in 1 .. n : PatchRow(kextNums, cpp, lines[i], list[i])

\* ... and so do the lists before it; those after it have no reference yet.
RefsRead ==
  /\ stage = "revisions" => refs.revisions = Nullptr
  /\ stage \in {"revisions", "platforms"} => refs.platforms = Nullptr
  /\ stage \in {"revisions", "platforms", "layouts"} => refs.layouts = Nullptr
  /\ stage \in {"revisions", "platforms", "layouts", "patches"} => refs.patches = Nullptr
  /\ stage \in Lists \cup {"row"} => Reads(cpp, refs.revisions, Listed(Entry, "revisions"))
  /\ pc = "codecs" /\ stage \in {"layouts", "patches", "row"} =>
       FilesRead(tree, cpp, refs.platforms, cur, Listed(Entry, "platforms"))
  /\ pc = "codecs" /\ stage \in {"patches", "row"} =>
       FilesRead(tree, cpp, refs.layouts, cur, Listed(Entry, "layouts"))
  /\ stage = "row" => PatchesRead(tree, kextNums, cpp, refs.patches, Listed(Entry, "patches"))

InWork == IF stage = "none" THEN {} ELSE {cur}

CodecsRead ==
  /\ pc = "codecs" =>
       /\ CodecRows(tree, kextNums, cpp, codecModSection, (CodecsIn(tree, vendor) \ todo) \ InWork)
       /\ stage # "none" => cur \in CodecsIn(tree, vendor) \ todo
  /\ \A k \in DOMAIN cpp : cpp[k].kind = "codecMod" =>
       IsSeq(cpp[k].body) /\ CodecRows(tree, kextNums, cpp, cpp[k].body, CodecsIn(tree, cpp[k].index))
  /\ pc \in {"controllers", "done"} => DOMAIN tree.vendors \subseteq Named

Started == Len(ctrlModSection) + IF stage = "none" THEN 0 ELSE 1

ControllersRead ==
  /\ pc \notin {"controllers", "done"} => ctrlModSection = <<>>
  /\ pc = "controllers" => /\ Started <= Len(tree.controllers)
                           /\ todo = Started + 1 .. Len(tree.controllers)
                           /\ stage # "none" => cur = Started
  /\ pc = "done" => stage = "none" /\ Len(ctrlModSection) = Len(tree.controllers)
  /\ \A i \in DOMAIN ctrlModSection :
       ControllerRow(tree, kextNums, cpp, ctrlModSection[i], tree.controllers[i])

Faith == KextsRead /\ LinesRead /\ RefsRead /\ CodecsRead /\ ControllersRead /\ PatchesJust(tree, cpp)

(* All of it stays as it is when the file goes on.                             *)
LEMMA ReadsKept ==
  ASSUME NEW o, NEW o2, Keeps(o, o2), NEW ref, NEW body, Reads(o.cpp, ref, body)
  PROVE  Reads(o2.cpp, ref, body)
BY DEF Keeps, Reads

(* The files of a list ...                                                     *)
LEMMA FilesReadKept ==
  ASSUME NEW o, NEW o2, Keeps(o, o2), NEW t, NEW ref, NEW dir, NEW fs, FilesRead(t, o.cpp, ref, dir, fs)
  PROVE  FilesRead(t, o2.cpp, ref, dir, fs)
<1>1. ASSUME NEW row, NEW f, FileRow(t, o.cpp, row, dir, f)  PROVE FileRow(t, o2.cpp, row, dir, f)
  BY <1>1, ReadsKept DEF FileRow
<1> QED  BY <1>1 DEF FilesRead, Keeps

(* ... one patch ...                                                           *)
LEMMA PatchRowKept ==
  ASSUME NEW o, NEW o2, Keeps(o, o2), NEW nums, NEW row, NEW p, PatchRow(nums, o.cpp, row, p)
  PROVE  PatchRow(nums, o2.cpp, row, p)
BY ReadsKept DEF PatchRow

(* ... a list of patches ...                                                   *)
LEMMA PatchesReadKept ==
  ASSUME NEW o, NEW o2, Keeps(o, o2), NEW t, NEW nums, NEW ref, NEW ps, PatchesRead(t, nums, o.cpp, ref, ps)
  PROVE  PatchesRead(t, nums, o2.cpp, ref, ps)
<1>1. CASE ref = Nullptr /\ ps = <<>>
  BY <1>1 DEF PatchesRead
<1>2. CASE ref # Nullptr
  <2>1. PICK k \in DOMAIN o.cpp :
          /\ Names(ref, o.cpp[k]) /\ o.cpp[k].kind = "patches"
          /\ Broken(o.cpp[k]) <=> \E i \in DOMAIN ps : ~Usable(t, ps[i])
          /\ ~Broken(o.cpp[k]) => /\ DOMAIN o.cpp[k].body.rows = DOMAIN ps
                                  /\ \A i \in DOMAIN ps : PatchRow(nums, o.cpp, o.cpp[k].body.rows[i], ps[i])
    BY <1>2 DEF PatchesRead
  <2>2. k \in DOMAIN o2.cpp /\ o2.cpp[k] = o.cpp[k]
    BY DEF Keeps
  <2>3. ASSUME ~Broken(o2.cpp[k]), NEW i \in DOMAIN ps
        PROVE  PatchRow(nums, o2.cpp, o2.cpp[k].body.rows[i], ps[i])
    BY <2>1, <2>2, <2>3, PatchRowKept
  <2> QED  BY <1>2, <2>1, <2>2, <2>3 DEF PatchesRead
<1> QED  BY <1>1, <1>2 DEF PatchesRead

(* ... the codecs of a vendor ...                                              *)
LEMMA CodecRowsKept ==
  ASSUME NEW o, NEW o2, Keeps(o, o2), NEW t, NEW nums, NEW rows, NEW dirs,
         CodecRows(t, nums, o.cpp, rows, dirs)
  PROVE  CodecRows(t, nums, o2.cpp, rows, dirs)
<1>1. ASSUME NEW row, NEW dir, CodecRow(t, nums, o.cpp, row, dir)  PROVE CodecRow(t, nums, o2.cpp, row, dir)
  BY <1>1, ReadsKept, FilesReadKept, PatchesReadKept DEF CodecRow
<1> QED  BY <1>1 DEF CodecRows

(* ... and a controller.                                                       *)
LEMMA ControllerRowKept ==
  ASSUME NEW o, NEW o2, Keeps(o, o2), NEW t, NEW nums, NEW row, NEW d, ControllerRow(t, nums, o.cpp, row, d)
  PROVE  ControllerRow(t, nums, o2.cpp, row, d)
BY ReadsKept, PatchesReadKept DEF ControllerRow

(* What the generators return reads as what they were given.                   *)
LEMMA FileRefReads ==
  ASSUME NEW o, Sound(o), NEW path
  PROVE  LET g == GenerateFile(o, path)
         IN  Reads(g.cpp, FileRef(g, path), Listed(tree.files, path))
<1> DEFINE g == GenerateFile(o, path)
<1>1. Sound(g)
  BY GenerateFileSound
<1>2. Has(g.fileList, path) \/ ~Has(tree.files, path)
  BY GenerateFileSound
<1> HIDE DEF g
<1>3. ASSUME Has(g.fileList, path)  PROVE Reads(g.cpp, FileRef(g, path), Listed(tree.files, path))
  <2>1. PICK j \in DOMAIN g.cpp :
          path \in DOMAIN tree.files
          /\ g.cpp[j] = [kind |-> "file", index |-> g.fileList[path], body |-> tree.files[path]]
    BY <1>1, <1>3 DEF Has, Sound, FileListOK
  <2>2. /\ FileRef(g, path) = [table |-> "file", index |-> g.fileList[path], num |-> Len(tree.files[path])]
        /\ FileRef(g, path) # Nullptr
    BY <1>3 DEF FileRef, Nullptr
  <2>3. Elements(g.cpp[j]) = Listed(tree.files, path)
    BY <2>1 DEF Elements, Listed, Has
  <2> QED  BY <2>1, <2>2, <2>3 DEF Reads, Names
<1>4. ASSUME ~Has(g.fileList, path)  PROVE Reads(g.cpp, FileRef(g, path), Listed(tree.files, path))
  BY <1>2, <1>4 DEF FileRef, Reads, Listed
<1> QED  BY <1>3, <1>4 DEF g

(* The bytes of a patch are found under the number of their buffer.            *)
LEMMA BufferReads ==
  ASSUME NEW o, Sound(o), NEW bytes \in DOMAIN o.patchBufMap
  PROVE  Reads(o.cpp, BufferRef(o, bytes), bytes)
<1>1. PICK j \in DOMAIN o.cpp : o.cpp[j] = [kind |-> "patchBuf", index |-> o.patchBufMap[bytes], body |-> bytes]
  BY DEF Sound, PatchBufMapOK
<1>2. /\ BufferRef(o, bytes) = [table |-> "patchBuf", index |-> o.patchBufMap[bytes], num |-> Len(bytes)]
      /\ BufferRef(o, bytes) # Nullptr
  BY DEF BufferRef, Nullptr
<1>3. Elements(o.cpp[j]) = bytes
  BY <1>1 DEF Elements
<1> QED  BY <1>1, <1>2, <1>3 DEF Reads, Names

(* LastRef names the array that was written last.                              *)
LEMMA LastRefNames ==
  ASSUME NEW o, IsOutput(o), NEW kind \in Kinds, NEW body, NEW num
  PROVE  LET e == Emit(o, kind, body)
         IN  \E k \in DOMAIN e.cpp : /\ Names(LastRef(e, kind, num), e.cpp[k])
                                     /\ e.cpp[k].kind = kind /\ e.cpp[k].body = body
                                     /\ LastRef(e, kind, num) # Nullptr
<1> DEFINE e == Emit(o, kind, body)
           d == [kind |-> kind, index |-> o.next[kind], body |-> body]
<1>1. e.cpp = Append(o.cpp, d) /\ e.next[kind] = o.next[kind] + 1 /\ o.next[kind] \in Nat
  BY EmitFacts DEF IsOutput
<1>2. d.kind = kind /\ d.index = o.next[kind] /\ d.body = body
  OBVIOUS
<1> HIDE DEF d, e
<1>3. Len(o.cpp) + 1 \in DOMAIN e.cpp /\ e.cpp[Len(o.cpp) + 1] = d
  BY <1>1, AppendFacts DEF IsOutput
<1>4. /\ LastRef(e, kind, num).table = kind /\ LastRef(e, kind, num).index = o.next[kind]
      /\ LastRef(e, kind, num) # Nullptr
  BY <1>1 DEF LastRef, Nullptr, Kinds
<1>5. Names(LastRef(e, kind, num), e.cpp[Len(o.cpp) + 1])
  BY <1>2, <1>3, <1>4 DEF Names
<1> QED  BY <1>2, <1>3, <1>4, <1>5 DEF e

-----------------------------------------------------------------------------
(* The generators write what the plists say.                                  *)

(* A file that breaks still has a plist to blame when what follows is no list  *)
(* of patches.                                                                 *)
LEMMA JustKept ==
  ASSUME NEW t, NEW o, NEW o2, PatchesJust(t, o.cpp), Keeps(o, o2), NoPatches(o, o2)
  PROVE  PatchesJust(t, o2.cpp)
BY DEF PatchesJust, Keeps, NoPatches

(* Nothing else changes while a codec or controller is being generated.        *)
LEMMA GeneratorKeeps ==
  ASSUME IInv, Faith, AddsArrays(out, out'), UNCHANGED <<tree, mainVars, cur, kextNums, sections>>,
         stage # "none", stage' # "none"
  PROVE  KextsRead' /\ CodecsRead' /\ ControllersRead'
<1>1. /\ tree' = tree /\ pc' = pc /\ todo' = todo /\ vendor' = vendor
      /\ kextSection' = kextSection /\ codecModSection' = codecModSection
      /\ vendorSection' = vendorSection /\ ctrlModSection' = ctrlModSection
      /\ cur' = cur /\ kextNums' = kextNums
  BY DEF mainVars, sections
<1>2. pc # "kexts"
  BY DEF IInv, MainOK
<1>3. /\ DOMAIN cpp \subseteq DOMAIN cpp' /\ \A k \in DOMAIN cpp : cpp'[k] = cpp[k]
      /\ \A k \in DOMAIN cpp' \ DOMAIN cpp : cpp'[k].kind \notin {"kextList", "codecMod"}
      /\ Keeps(out, out')
  BY DEF AddsArrays, Keeps, cpp, Kinds
<1>4. KextsRead'
  <2>1. \A k \in DOMAIN cpp' : cpp'[k].kind = "kextList" => cpp'[k].body = kextSection
    BY <1>3 DEF Faith, KextsRead
  <2>2. \E k \in DOMAIN cpp' : cpp'[k].kind = "kextList"
    BY <1>2, <1>3 DEF Faith, KextsRead
  <2> QED  BY <1>1, <1>2, <2>1, <2>2 DEF Faith, KextsRead
<1>5. CodecsRead'
  <2>1. InWork' = InWork /\ Named' = Named
    BY <1>1 DEF InWork, Named
  <2>2. \A t, nums, rows, dirs : CodecRows(t, nums, cpp, rows, dirs) => CodecRows(t, nums, cpp', rows, dirs)
    BY <1>3, CodecRowsKept DEF cpp
  <2>3. ASSUME NEW k \in DOMAIN cpp', cpp'[k].kind = "codecMod"
        PROVE  /\ IsSeq(cpp'[k].body)
               /\ CodecRows(tree, kextNums, cpp', cpp'[k].body, CodecsIn(tree, cpp'[k].index))
    BY <1>3, <2>2, <2>3 DEF Faith, CodecsRead
  <2>4. pc = "codecs" => CodecRows(tree, kextNums, cpp', codecModSection, (CodecsIn(tree, vendor) \ todo) \ InWork)
    BY <2>2 DEF Faith, CodecsRead
  <2> QED  BY <1>1, <2>1, <2>3, <2>4 DEF Faith, CodecsRead
<1>6. ControllersRead'
  <2>1. Started' = Started
    BY <1>1 DEF Started
  <2>2. \A i \in DOMAIN ctrlModSection :
          ControllerRow(tree, kextNums, cpp', ctrlModSection[i], tree.controllers[i])
    BY <1>3, ControllerRowKept DEF Faith, ControllersRead, cpp
  <2> QED  BY <1>1, <2>1, <2>2 DEF Faith, ControllersRead
<1> QED  BY <1>4, <1>5, <1>6

(* The lists before the one being generated still read as they did.            *)
LEMMA RevisionsFaith ==
  ASSUME IInv, Faith, GenerateRevisions
  PROVE  LinesRead' /\ RefsRead' /\ PatchesJust(tree, cpp')
<1>1. /\ tree' = tree /\ pc' = pc /\ cur' = cur /\ n' = n /\ lines' = lines
      /\ stage = "revisions" /\ stage' = IF pc = "codecs" THEN "platforms" ELSE "patches"
  BY DEF GenerateRevisions, mainVars
<1>2. Entry' = Entry
  BY <1>1 DEF Entry
<1>3. n = 0 /\ Len(lines) = 0 /\ DOMAIN lines = {}
  BY <1>1, SeqFacts DEF IInv, ListOK, Lists
<1>4. LinesRead'
  BY <1>1, <1>3 DEF LinesRead
<1>5. Reads(cpp', refs'.revisions, Listed(Entry, "revisions")) /\ PatchesJust(tree, cpp')
  <2>1. CASE Has(Entry, "revisions")
    <3> DEFINE body == Entry.revisions
               ref == LastRef(out', "revisions", Len(body))
    <3>1. out' = Emit(out, "revisions", body) /\ refs' = [refs EXCEPT !.revisions = ref]
      BY <2>1 DEF GenerateRevisions
    <3>2. refs'.revisions = ref
      BY <3>1 DEF IInv, ListOK, RefKinds
    <3>3. Listed(Entry, "revisions") = body
      BY <2>1 DEF Listed
    <3> HIDE DEF body
    <3>4. out'.cpp = Append(out.cpp, [kind |-> "revisions", index |-> out.next["revisions"], body |-> body])
      BY <3>1, EmitFacts DEF IInv, Sound, Kinds
    <3>5. PatchesJust(tree, cpp')
      <4>1. Keeps(out, out') /\ NoPatches(out, out')
        BY <3>4, AppendFacts, AppendKeeps DEF IInv, Sound, IsOutput, NoPatches
      <4> QED  BY <4>1, JustKept DEF Faith, cpp
    <3>6. PICK k \in DOMAIN out'.cpp : /\ Names(ref, out'.cpp[k]) /\ out'.cpp[k].kind = "revisions"
                                       /\ out'.cpp[k].body = body /\ ref # Nullptr
      BY <3>1, LastRefNames DEF IInv, Sound, Kinds
    <3>7. Reads(cpp', ref, body)
      BY <3>6 DEF Reads, Elements, cpp
    <3> QED  BY <3>2, <3>3, <3>5, <3>7
  <2>2. CASE ~Has(Entry, "revisions")
    <3>1. out' = out /\ refs' = refs
      BY <2>2 DEF GenerateRevisions
    <3>2. refs.revisions = Nullptr /\ Listed(Entry, "revisions") = <<>>
      BY <1>1, <2>2 DEF Listed, Faith, RefsRead
    <3> QED  BY <3>1, <3>2 DEF Reads, Faith, cpp
  <2> QED  BY <2>1, <2>2
<1>6. RefsRead'
  <2>1. /\ refs'.platforms = refs.platforms /\ refs'.layouts = refs.layouts
        /\ refs'.patches = refs.patches
    BY DEF GenerateRevisions, IInv, ListOK, RefKinds, Lists
  <2> QED  BY <1>1, <1>2, <1>5, <2>1 DEF RefsRead, Lists, Faith
<1> QED  BY <1>4, <1>5, <1>6

(* Rows are written without harm to the lists before them.                     *)
LEMMA RefsReadKept ==
  ASSUME Faith, Keeps(out, out'), UNCHANGED <<tree, pc, cur, stage, refs, kextNums>>
  PROVE  RefsRead'
<1>1. Entry' = Entry
  BY DEF Entry
<1>2. \A ref, body : Reads(cpp, ref, body) => Reads(cpp', ref, body)
  BY ReadsKept DEF cpp
<1>3. \A t, ref, dir, fs : FilesRead(t, cpp, ref, dir, fs) => FilesRead(t, cpp', ref, dir, fs)
  BY FilesReadKept DEF cpp
<1>4. \A t, nums, ref, ps : PatchesRead(t, nums, cpp, ref, ps) => PatchesRead(t, nums, cpp', ref, ps)
  BY PatchesReadKept DEF cpp
<1> QED  BY <1>1, <1>2, <1>3, <1>4 DEF Faith, RefsRead

(* A row of files has the file of its plist, or none when there is none.       *)
LEMMA FileRowFaith ==
  ASSUME IInv, Faith, GenerateFileRow
  PROVE  LinesRead' /\ RefsRead' /\ PatchesJust(tree, cpp')
<1> DEFINE f == Entry[stage][n + 1]
           row == [file |-> FileRef(out', <<cur, f.path>>), id |-> f.id]
<1>1. out' = GenerateFile(out, <<cur, f.path>>) /\ lines' = Append(lines, row) /\ n' = n + 1
  BY DEF GenerateFileRow
<1>2. AddsArrays(out, out') /\ NoPatches(out, out')
  BY <1>1, GenerateFileSound DEF IInv
<1>3. Reads(cpp', row.file, Listed(tree.files, <<cur, f.path>>))
  BY <1>1, FileRefReads DEF IInv, cpp
<1>4. row.id = f.id
  OBVIOUS
<1> HIDE DEF row
<1>5. /\ UNCHANGED <<tree, pc, cur, stage, refs, kextNums>>
      /\ stage \in {"platforms", "layouts"} /\ Has(Entry, stage)
  BY DEF GenerateFileRow, mainVars, EntryLeft
<1>6. Entry' = Entry
  BY <1>5 DEF Entry
<1>7. Len(lines) = n /\ n \in Nat /\ IsSeq(lines)
  BY <1>5 DEF IInv, ListOK
<1>8. lines'[n + 1] = row /\ \A i \in 1 .. n : lines'[i] = lines[i]
  BY <1>1, <1>7, AppendFacts
<1>9. Listed(Entry, stage) = Entry[stage]
  BY <1>5 DEF Listed
<1>10. \A i \in 1 .. n : FileRow(tree, cpp', lines[i], cur, Entry[stage][i])
  <2>1. \A i \in 1 .. n : FileRow(tree, cpp, lines[i], cur, Entry[stage][i])
    BY <1>5, <1>9 DEF Faith, LinesRead
  <2> QED  BY <1>2, <2>1, ReadsKept DEF FileRow, AddsArrays, cpp
<1>11. FileRow(tree, cpp', row, cur, f)
  BY <1>3, <1>4 DEF FileRow
<1>12. \A i \in 1 .. n + 1 : FileRow(tree, cpp', lines'[i], cur, Entry[stage][i])
  <2> SUFFICES ASSUME NEW i \in 1 .. n + 1
               PROVE  FileRow(tree, cpp', lines'[i], cur, Entry[stage][i])
    OBVIOUS
  <2>1. CASE i \in 1 .. n
    BY <1>8, <1>10, <2>1
  <2>2. CASE i = n + 1
    BY <1>8, <1>11, <2>2
  <2> QED  BY <1>7, <2>1, <2>2
<1>13. LinesRead'
  BY <1>1, <1>5, <1>6, <1>9, <1>12 DEF LinesRead
<1> QED  BY <1>2, <1>5, <1>13, RefsReadKept, JustKept DEF AddsArrays, Faith, cpp

(* A row of patches has the kext, the bytes and the size of its patch; one that *)
(* is left out was uneven.                                                     *)
LEMMA PatchRowFaith ==
  ASSUME IInv, Faith, GeneratePatchRow
  PROVE  LinesRead' /\ RefsRead' /\ PatchesJust(tree, cpp')
<1> DEFINE ps == Entry.patches
           p == ps[n + 1]
<1>1. /\ UNCHANGED <<tree, pc, cur, stage, refs, kextNums>> /\ n' = n + 1
      /\ stage = "patches" /\ Has(Entry, "patches") /\ n < Len(ps) /\ n \in Nat
  BY DEF GeneratePatchRow, mainVars, EntryLeft, IInv, ListOK
<1>2. Entry' = Entry
  BY <1>1 DEF Entry
<1>3. Listed(Entry, stage) = ps
  BY <1>1 DEF Listed
<1>4. p.find \in Bytes /\ p.replace \in Bytes
  <2>1. ps \in Seq(PatchEntry)
    BY <1>1, EntryIsDict DEF IInv, IsDict
  <2>2. p \in PatchEntry
    BY <1>1, <2>1
  <2> QED  BY <2>2 DEF PatchEntry
<1>5. IsSeq(lines) /\ Len(lines) \in Nat /\ Len(lines) <= n /\ DOMAIN lines = 1 .. Len(lines)
  BY SeqFacts DEF IInv, ListOK
<1>6. /\ \A j \in DOMAIN lines : \E i \in 1 .. n : PatchRow(kextNums, cpp, lines[j], ps[i])
      /\ Len(lines) # n => \E i \in 1 .. n : ~SameLength(ps[i])
      /\ Len(lines) = n => \A i \in 1 .. n : PatchRow(kextNums, cpp, lines[i], ps[i])
  BY <1>1, <1>3 DEF Faith, LinesRead
<1>7. n \in Nat /\ Len(lines) \in Nat /\ Len(lines) <= n
  BY <1>1, <1>5
<1>8. CASE SameLength(p)
  <2> DEFINE row == [kext |-> KextNum(p.name), find |-> BufferRef(out', p.find),
                     replace |-> BufferRef(out', p.replace), size |-> Len(p.find)]
             half == PatchBuffer(out, p.find)
  <2>1. out' = PatchBuffer(half, p.replace) /\ lines' = Append(lines, row)
    BY <1>8 DEF GeneratePatchRow
  <2> HIDE DEF p
  <2>2. Sound(half) /\ AddsArrays(out, half) /\ NoPatches(out, half) /\ p.find \in DOMAIN half.patchBufMap
    BY <1>4, PatchBufferSound DEF IInv
  <2> HIDE DEF half
  <2>3. /\ Sound(out') /\ AddsArrays(half, out') /\ NoPatches(half, out')
        /\ p.find \in DOMAIN out'.patchBufMap /\ p.replace \in DOMAIN out'.patchBufMap
    BY <1>4, <2>1, <2>2, PatchBufferSound
  <2>4. AddsArrays(out, out') /\ NoPatches(out, out')
    BY <2>2, <2>3, AddsTwice DEF NoPatches, AddsArrays, Keeps
  <2>5. PatchRow(kextNums, cpp', row, p)
    <3>1. Reads(cpp', row.find, p.find) /\ Reads(cpp', row.replace, p.replace)
      BY <2>3, BufferReads DEF cpp
    <3>2. row.kext = NumOf(kextNums, p.name) /\ row.size = Len(p.find)
      BY DEF KextNum, NumOf
    <3> HIDE DEF row
    <3> QED  BY <1>8, <3>1, <3>2 DEF PatchRow
  <2> HIDE DEF row
  <2>6. /\ DOMAIN lines' = 1 .. Len(lines) + 1 /\ Len(lines') = Len(lines) + 1
        /\ lines'[Len(lines) + 1] = row /\ \A i \in DOMAIN lines : lines'[i] = lines[i]
    BY <1>5, <2>1, AppendFacts
  <2>7. \A q, r : PatchRow(kextNums, cpp, r, q) => PatchRow(kextNums, cpp', r, q)
    BY <2>4, PatchRowKept DEF AddsArrays, cpp
  <2> HIDE DEF ps
  <2>8. p = ps[n + 1]
    BY DEF p
  <2>9. \A j \in DOMAIN lines' : \E i \in 1 .. n + 1 : PatchRow(kextNums, cpp', lines'[j], ps[i])
    <3> SUFFICES ASSUME NEW j \in DOMAIN lines'
                 PROVE  \E i \in 1 .. n + 1 : PatchRow(kextNums, cpp', lines'[j], ps[i])
      OBVIOUS
    <3>1. CASE j \in DOMAIN lines
      <4>1. PICK i \in 1 .. n : PatchRow(kextNums, cpp, lines[j], ps[i])
        BY <1>6, <3>1
      <4> QED  BY <1>1, <2>6, <2>7, <3>1, <4>1
    <3>2. CASE j = Len(lines) + 1
      BY <1>1, <2>5, <2>6, <2>8, <3>2
    <3> QED  BY <1>5, <2>6, <3>1, <3>2
  <2>10. Len(lines') = n + 1 <=> Len(lines) = n
    <3>1. Len(lines') = Len(lines) + 1
      BY <2>6
    <3> QED  BY <1>7, <3>1
  <2>11. Len(lines') # n + 1 => \E i \in 1 .. n + 1 : ~SameLength(ps[i])
    <3>1. \A i \in 1 .. n : i \in 1 .. n + 1
      BY <1>7
    <3> QED  BY <1>6, <2>10, <3>1
  <2>12. Len(lines') = n + 1 => \A i \in 1 .. n + 1 : PatchRow(kextNums, cpp', lines'[i], ps[i])
    <3> SUFFICES ASSUME Len(lines') = n + 1, NEW i \in 1 .. n + 1
                 PROVE  PatchRow(kextNums, cpp', lines'[i], ps[i])
      OBVIOUS
    <3>1. Len(lines) = n
      BY <2>10
    <3>2. CASE i \in 1 .. n
      BY <1>5, <1>6, <2>6, <2>7, <3>1, <3>2
    <3>3. CASE i = n + 1
      BY <2>5, <2>6, <2>8, <3>1, <3>3
    <3> QED  BY <1>1, <3>2, <3>3
  <2>13. LinesRead'
    BY <1>1, <1>2, <1>3, <2>9, <2>11, <2>12 DEF LinesRead
  <2> QED  BY <1>1, <2>4, <2>13, RefsReadKept, JustKept DEF AddsArrays, Faith, cpp
<1>9. CASE ~SameLength(p)
  <2>1. out' = out /\ lines' = lines
    BY <1>9 DEF GeneratePatchRow
  <2>2. Keeps(out, out') /\ cpp' = cpp
    BY <2>1 DEF Keeps, cpp
  <2> HIDE DEF ps
  <2>3. \A j \in DOMAIN lines' : \E i \in 1 .. n + 1 : PatchRow(kextNums, cpp', lines'[j], ps[i])
    <3>1. \A i \in 1 .. n : i \in 1 .. n + 1
      BY <1>1
    <3> QED  BY <1>6, <2>1, <2>2, <3>1
  <2>4. \E i \in 1 .. n + 1 : ~SameLength(ps[i])
    BY <1>1, <1>9
  <2>5. Len(lines') # n + 1
    <3>1. Len(lines') = Len(lines)
      BY <2>1
    <3> QED  BY <1>7, <3>1
  <2>6. LinesRead'
    BY <1>1, <1>2, <1>3, <2>3, <2>4, <2>5 DEF LinesRead
  <2> QED  BY <1>1, <2>2, <2>6, RefsReadKept DEF Faith
<1> QED  BY <1>8, <1>9

(* A kext has no number exactly when it is not in Kexts.plist.                 *)
LEMMA KextKnown ==
  ASSUME IInv, Faith, pc # "kexts", NEW name
  PROVE  NumOf(kextNums, name) = NoKext <=> ~Has(tree.kexts, name)
<1>1. DOMAIN kextNums = DOMAIN tree.kexts
  BY DEF Faith, KextsRead
<1>2. ASSUME name \in DOMAIN kextNums  PROVE kextNums[name] # NoKext
  BY <1>2 DEF IInv, SectionsOK, NoKext
<1> QED  BY <1>1, <1>2 DEF NumOf, Has

(* A list of patches breaks the file exactly when one of its patches cannot be *)
(* used; otherwise it has all of them.                                         *)
LEMMA PatchListReads ==
  ASSUME IInv, Faith, stage = "patches", Has(Entry, "patches"), n = Len(Entry.patches),
         NEW def, def.kind = "patches", def.body = [rows |-> lines, error |-> Len(lines) # n]
  PROVE  /\ Broken(def) <=> \E i \in DOMAIN Entry.patches : ~Usable(tree, Entry.patches[i])
         /\ ~Broken(def) =>
              /\ DOMAIN lines = DOMAIN Entry.patches
              /\ \A i \in DOMAIN Entry.patches : PatchRow(kextNums, cpp, lines[i], Entry.patches[i])
<1> DEFINE ps == Entry.patches
<1>1. DOMAIN ps = 1 .. n /\ n \in Nat
  <2>1. ps \in Seq(PatchEntry)
    BY EntryIsDict DEF IInv, IsDict
  <2> QED  BY <2>1
<1>2. IsSeq(lines) /\ DOMAIN lines = 1 .. Len(lines) /\ Len(lines) <= n /\ Len(lines) \in Nat
  BY SeqFacts DEF IInv, ListOK
<1>3. Listed(Entry, stage) = ps
  BY DEF Listed
<1>4. /\ \A j \in DOMAIN lines : \E i \in 1 .. n : PatchRow(kextNums, cpp, lines[j], ps[i])
      /\ Len(lines) # n => \E i \in 1 .. n : ~SameLength(ps[i])
      /\ Len(lines) = n => \A i \in 1 .. n : PatchRow(kextNums, cpp, lines[i], ps[i])
  BY <1>3 DEF Faith, LinesRead
<1>5. pc # "kexts"
  BY DEF IInv, MainOK
<1>6. Broken(def) <=> Len(lines) # n \/ \E j \in DOMAIN lines : lines[j].kext = NoKext
  <2>1. def.body.rows = lines /\ (def.body.error <=> Len(lines) # n)
    <3> DEFINE uneven == Len(lines) # n
    <3>1. uneven \in BOOLEAN
      OBVIOUS
    <3>2. def.body = [rows |-> lines, error |-> uneven]
      OBVIOUS
    <3> HIDE DEF uneven
    <3>3. def.body.rows = lines
      BY <3>2
    <3>4. def.body.error = uneven
      BY <3>2
    <3> QED  BY <3>3, <3>4 DEF uneven
  <2>2. def.kind = "patches" /\ def.kind # "kextList"
    OBVIOUS
  <2>3. (\E r \in Elems(lines) : r.kext = NoKext) <=> \E j \in DOMAIN lines : lines[j].kext = NoKext
    BY DEF Elems
  <2> QED  BY <2>1, <2>2, <2>3 DEF Broken
<1> HIDE DEF ps
<1>7. ASSUME Broken(def)  PROVE \E i \in 1 .. n : ~Usable(tree, ps[i])
  <2>1. CASE Len(lines) # n
    BY <1>4, <2>1 DEF Usable
  <2>2. CASE \E j \in DOMAIN lines : lines[j].kext = NoKext
    <3>1. PICK j \in DOMAIN lines : lines[j].kext = NoKext
      BY <2>2
    <3>2. PICK i \in 1 .. n : PatchRow(kextNums, cpp, lines[j], ps[i])
      BY <1>4
    <3>3. NumOf(kextNums, ps[i].name) = NoKext
      BY <3>1, <3>2 DEF PatchRow
    <3>4. ~Has(tree.kexts, ps[i].name)
      BY <1>5, <3>3, KextKnown
    <3> QED  BY <3>4 DEF Usable
  <2> QED  BY <1>6, <1>7, <2>1, <2>2
<1>8. ASSUME ~Broken(def), NEW i \in 1 .. n  PROVE Usable(tree, ps[i]) /\ PatchRow(kextNums, cpp, lines[i], ps[i])
  <2>1. Len(lines) = n
    BY <1>6, <1>8
  <2>2. PatchRow(kextNums, cpp, lines[i], ps[i])
    BY <1>4, <2>1
  <2>3. lines[i].kext # NoKext
    BY <1>2, <1>6, <1>8, <2>1
  <2>4. Has(tree.kexts, ps[i].name)
    BY <1>5, <2>2, <2>3, KextKnown DEF PatchRow
  <2> QED  BY <2>2, <2>4 DEF PatchRow, Usable
<1>9. ~Broken(def) => DOMAIN lines = 1 .. n
  BY <1>2, <1>6
<1> QED  BY <1>1, <1>7, <1>8, <1>9 DEF ps

(* What is being generated is one of the plists that the file is made of.      *)
LEMMA EntryIsOurs ==
  ASSUME IInv, Faith, stage # "none"
  PROVE  Entry \in DictsIn(tree)
<1>1. CASE pc = "codecs"
  <2>1. cur \in DOMAIN tree.codecs /\ tree.codecs[cur].vendor = vendor /\ vendor \in DOMAIN tree.vendors
    BY <1>1 DEF IInv, MainOK, Faith, CodecsRead, CodecsIn
  <2> QED  BY <1>1, <2>1 DEF Entry, DictsIn
<1>2. CASE pc = "controllers"
  BY <1>2 DEF IInv, MainOK, Entry, DictsIn
<1> QED  BY <1>1, <1>2 DEF IInv, MainOK

(* A list that has ended reads as the plist says, and its reference is kept.   *)
LEMMA EndOfListFaith ==
  ASSUME IInv, Faith, EndOfList
  PROVE  LinesRead' /\ RefsRead' /\ PatchesJust(tree, cpp')
<1>1. /\ UNCHANGED <<tree, pc, cur, kextNums>> /\ n' = 0 /\ lines' = <<>>
      /\ stage \in Lists /\ stage' \in {"layouts", "patches", "row"}
      /\ stage = "platforms" => stage' = "layouts"
      /\ stage = "layouts" => stage' = "patches"
      /\ stage = "patches" => stage' = "row"
  BY DEF EndOfList, mainVars, Lists
<1>2. Entry' = Entry
  BY <1>1 DEF Entry
<1>3. LinesRead'
  BY <1>1, SeqFacts DEF LinesRead
<1>4. Keeps(out, out')
  BY ListWritten DEF AddsArrays
<1>5. /\ \A ref, body : Reads(cpp, ref, body) => Reads(cpp', ref, body)
      /\ \A t, ref, dir, fs : FilesRead(t, cpp, ref, dir, fs) => FilesRead(t, cpp', ref, dir, fs)
      /\ \A nums, row, p : PatchRow(nums, cpp, row, p) => PatchRow(nums, cpp', row, p)
  BY <1>4, ReadsKept, FilesReadKept, PatchRowKept DEF cpp
<1>6. CASE Has(Entry, stage)
  <2> DEFINE list == Entry[stage]
             ref == LastRef(out', stage, Len(list))
  <2>1. out' = Emit(out, stage, ListBody) /\ refs' = [refs EXCEPT ![stage] = ref]
    BY <1>6 DEF EndOfList
  <2>2. Listed(Entry, stage) = list
    BY <1>6 DEF Listed
  <2>3. n = Len(list) /\ DOMAIN list = 1 .. n
    <3>1. Len(list) \in Nat /\ DOMAIN list = 1 .. Len(list)
      BY <1>1, <1>6, EntryIsDict DEF IInv, IsDict, Lists
    <3>2. ~(n < Len(list)) /\ (n > 0 => n <= Len(list)) /\ n \in Nat
      BY <1>6 DEF EndOfList, EntryLeft, IInv, ListOK
    <3> QED  BY <3>1, <3>2
  <2> HIDE DEF list
  <2>4. PICK k \in DOMAIN cpp' : /\ Names(ref, cpp'[k]) /\ cpp'[k].kind = stage
                                 /\ cpp'[k].body = ListBody /\ ref # Nullptr
    <3>1. stage \in Kinds
      BY <1>1 DEF Lists, Kinds
    <3> QED  BY <2>1, <3>1, LastRefNames DEF IInv, Sound, cpp
  <2>5. out'.cpp = Append(out.cpp, [kind |-> stage, index |-> out.next[stage], body |-> ListBody])
    <3>1. stage \in Kinds
      BY <1>1 DEF Lists, Kinds
    <3>2. IsOutput(out)
      BY DEF IInv, Sound
    <3> QED  BY ONLY <2>1, <3>1, <3>2, EmitFacts
  <2>6. \A j \in DOMAIN cpp' \ DOMAIN cpp : cpp'[j].kind = stage /\ cpp'[j].body = ListBody
    BY <2>5, AppendFacts DEF IInv, Sound, IsOutput, cpp
  <2> HIDE DEF ref
  <2>7. refs'[stage] = ref /\ \A kind \in RefKinds \ {stage} : refs'[kind] = refs[kind]
    BY <1>1, <2>1 DEF IInv, ListOK, RefKinds
  <2>8. CASE stage \in {"platforms", "layouts"}
    <3>1. FilesRead(tree, cpp', ref, cur, list)
      <4>1. ListBody = lines /\ Len(lines) = n /\ DOMAIN lines = 1 .. n
        BY <2>8, SeqFacts DEF ListBody, IInv, ListOK
      <4>2. \A i \in 1 .. n : FileRow(tree, cpp', lines[i], cur, list[i])
        BY <1>5, <2>2, <2>8 DEF Faith, LinesRead, FileRow
      <4> QED  BY <2>3, <2>4, <2>8, <4>1, <4>2 DEF FilesRead
    <3>2. NoPatches(out, out')
      BY <2>6, <2>8 DEF NoPatches, cpp
    <3>3. PatchesJust(tree, cpp')
      BY <1>4, <3>2, JustKept DEF Faith, cpp
    <3>4. RefsRead'
      BY <1>1, <1>2, <1>5, <2>2, <2>7, <2>8, <3>1 DEF Faith, RefsRead, RefKinds, Lists
    <3> QED  BY <1>3, <3>3, <3>4
  <2>9. CASE stage = "patches"
    <3>1. ListBody = [rows |-> lines, error |-> Len(lines) # n]
      BY <2>9 DEF ListBody
    <3>2. ASSUME NEW def, def.kind = "patches", def.body = ListBody
          PROVE  /\ Broken(def) <=> \E i \in DOMAIN list : ~Usable(tree, list[i])
                 /\ ~Broken(def) =>
                      /\ DOMAIN lines = DOMAIN list
                      /\ \A i \in DOMAIN list : PatchRow(kextNums, cpp, lines[i], list[i])
      BY <1>6, <2>3, <2>9, <3>1, <3>2, PatchListReads DEF list
    <3>3. PatchesRead(tree, kextNums, cpp', ref, list)
      <4>1. /\ Broken(cpp'[k]) <=> \E i \in DOMAIN list : ~Usable(tree, list[i])
            /\ ~Broken(cpp'[k]) => DOMAIN lines = DOMAIN list
            /\ \A i \in DOMAIN list :
                 ~Broken(cpp'[k]) => PatchRow(kextNums, cpp, lines[i], list[i])
        BY <2>4, <2>9, <3>2
      <4>2. cpp'[k].body.rows = lines
        BY <2>4, <3>1
      <4> QED  BY <1>5, <2>4, <2>9, <4>1, <4>2 DEF PatchesRead
    <3>4. PatchesJust(tree, cpp')
      <4>1. ASSUME NEW j \in DOMAIN cpp', cpp'[j].kind = "patches", Broken(cpp'[j])
            PROVE  \E d \in DictsIn(tree) :
                     \E i \in DOMAIN Listed(d, "patches") : ~Usable(tree, Listed(d, "patches")[i])
        <5>1. CASE j \in DOMAIN cpp
          <6>1. cpp'[j] = cpp[j]
            BY <1>4, <5>1 DEF Keeps, cpp
          <6> QED  BY <4>1, <5>1, <6>1 DEF Faith, PatchesJust
        <5>2. CASE j \notin DOMAIN cpp
          <6>1. \E i \in DOMAIN list : ~Usable(tree, list[i])
            BY <2>6, <3>2, <4>1, <5>2
          <6>2. Entry \in DictsIn(tree) /\ Listed(Entry, "patches") = list
            BY <1>1, <2>2, <2>9, EntryIsOurs
          <6> QED  BY <6>1, <6>2
        <5> QED  BY <5>1, <5>2
      <4> QED  BY <4>1 DEF PatchesJust
    <3>5. RefsRead'
      BY <1>1, <1>2, <1>5, <2>2, <2>7, <2>9, <3>3 DEF Faith, RefsRead, RefKinds, Lists
    <3> QED  BY <1>3, <3>4, <3>5
  <2> QED  BY <1>1, <2>8, <2>9 DEF Lists
<1>7. CASE ~Has(Entry, stage)
  <2>1. out' = out /\ refs' = refs /\ cpp' = cpp /\ Listed(Entry, stage) = <<>>
    BY <1>7 DEF EndOfList, cpp, Listed
  <2>2. RefsRead'
    BY <1>1, <1>2, <2>1 DEF Faith, RefsRead, FilesRead, PatchesRead, Lists
  <2> QED  BY <1>3, <2>1, <2>2 DEF Faith
<1> QED  BY <1>6, <1>7

-----------------------------------------------------------------------------
(* The loops of main keep what they read.                                     *)

(* Between two codecs or controllers there is no list and no reference.        *)
LEMMA IdleFaith ==
  ASSUME stage' = "none"
  PROVE  LinesRead' /\ RefsRead'
<1>1. LinesRead'
  BY DEF LinesRead
<1>2. RefsRead'
  BY DEF RefsRead, Lists
<1> QED  BY <1>1, <1>2

(* Nothing is written yet, and nothing has been promised.                      *)
LEMMA FaithInit == Init => Faith
<1> SUFFICES ASSUME Init PROVE Faith
  OBVIOUS
<1>1. /\ cpp = <<>> /\ DOMAIN cpp = {} /\ kextSection = <<>> /\ DOMAIN kextSection = {}
      /\ codecModSection = <<>> /\ ctrlModSection = <<>> /\ DOMAIN ctrlModSection = {}
      /\ DOMAIN kextNums = {} /\ pc = "kexts" /\ stage = "none" /\ todo = DOMAIN tree.kexts
  BY SeqFacts DEF Init, cpp, NoOutput, NoMap
<1>2. KextsRead
  BY <1>1 DEF KextsRead
<1>3. LinesRead /\ RefsRead
  BY <1>1 DEF LinesRead, RefsRead, Lists
<1>4. CodecsRead /\ ControllersRead
  BY <1>1 DEF CodecsRead, ControllersRead
<1>5. PatchesJust(tree, cpp)
  BY <1>1 DEF PatchesJust
<1> QED  BY <1>2, <1>3, <1>4, <1>5 DEF Faith

(* A kext has the row that its number says.                                    *)
LEMMA KextFaith ==
  ASSUME IInv, Faith, NEW x \in todo, GenerateKext(x)
  PROVE  Faith'
<1> DEFINE row == [id |-> tree.kexts[x].id, constant |-> NormKextID(tree.kexts[x].id),
                   reloadable |-> Has(tree.kexts[x], "reloadable"),
                   detect |-> Has(tree.kexts[x], "detect")]
<1>1. /\ tree' = tree /\ cpp' = cpp /\ pc = "kexts" /\ pc' = "kexts" /\ todo' = todo \ {x} /\ stage' = stage
      /\ codecModSection' = codecModSection /\ ctrlModSection' = ctrlModSection
      /\ kextSection' = Append(kextSection, row) /\ kextNums' = With(kextNums, x, Len(kextSection))
  BY DEF GenerateKext, Visit, dictVars, cpp
<1>2. row.id = tree.kexts[x].id /\ row.constant = NormKextID(tree.kexts[x].id)
  OBVIOUS
<1> HIDE DEF row
<1>3. stage' = "none" /\ todo \subseteq DOMAIN tree.kexts
  BY <1>1 DEF IInv, MainOK
<1>4. /\ DOMAIN kextNums = DOMAIN tree.kexts \ todo
      /\ \A name \in DOMAIN kextNums :
           /\ kextNums[name] + 1 \in DOMAIN kextSection
           /\ kextSection[kextNums[name] + 1].id = tree.kexts[name].id
           /\ kextSection[kextNums[name] + 1].constant = NormKextID(tree.kexts[name].id)
      /\ \A i \in DOMAIN kextSection : \E name \in DOMAIN kextNums : kextNums[name] + 1 = i
      /\ \A j, k \in DOMAIN kextNums : kextNums[j] = kextNums[k] => j = k
      /\ cpp = <<>> /\ DOMAIN cpp = {} /\ codecModSection = <<>>
  BY <1>1, SeqFacts DEF Faith, KextsRead
<1>5. /\ DOMAIN kextNums' = DOMAIN kextNums \cup {x} /\ x \notin DOMAIN kextNums
      /\ kextNums'[x] = Len(kextSection)
      /\ \A name \in DOMAIN kextNums : kextNums'[name] = kextNums[name]
  BY <1>1, <1>4 DEF With
<1>6. /\ Len(kextSection) \in Nat /\ DOMAIN kextSection = 1 .. Len(kextSection)
      /\ DOMAIN kextSection' = 1 .. Len(kextSection) + 1
      /\ kextSection'[Len(kextSection) + 1] = row
      /\ \A i \in DOMAIN kextSection : kextSection'[i] = kextSection[i]
  BY <1>1, AppendFacts DEF IInv, SectionsOK
<1>7. \A name \in DOMAIN kextNums : kextNums[name] \in 0 .. Len(kextSection) - 1
  BY DEF IInv, SectionsOK
<1>8. KextsRead'
  <2>1. DOMAIN kextNums' = DOMAIN tree.kexts \ todo'
    BY <1>1, <1>3, <1>4, <1>5
  <2>2. ASSUME NEW name \in DOMAIN kextNums'
        PROVE  /\ kextNums'[name] + 1 \in DOMAIN kextSection'
               /\ kextSection'[kextNums'[name] + 1].id = tree.kexts[name].id
               /\ kextSection'[kextNums'[name] + 1].constant = NormKextID(tree.kexts[name].id)
    <3>1. CASE name = x
      BY <1>2, <1>5, <1>6, <3>1
    <3>2. CASE name \in DOMAIN kextNums
      <4>1. kextNums[name] + 1 \in DOMAIN kextSection /\ kextNums'[name] = kextNums[name]
        BY <1>4, <1>5, <3>2
      <4>2. kextNums[name] + 1 \in DOMAIN kextSection'
        BY <1>6, <4>1
      <4> QED  BY <1>4, <1>6, <3>2, <4>1, <4>2
    <3> QED  BY <1>5, <3>1, <3>2
  <2>3. ASSUME NEW i \in DOMAIN kextSection'  PROVE \E name \in DOMAIN kextNums' : kextNums'[name] + 1 = i
    <3>1. CASE i \in DOMAIN kextSection
      BY <1>4, <1>5, <3>1
    <3>2. CASE i = Len(kextSection) + 1
      BY <1>5, <3>2
    <3> QED  BY <1>6, <3>1, <3>2
  <2>4. ASSUME NEW j \in DOMAIN kextNums', NEW k \in DOMAIN kextNums', kextNums'[j] = kextNums'[k]
        PROVE  j = k
    <3>1. \A name \in DOMAIN kextNums : kextNums'[name] # kextNums'[x]
      BY <1>5, <1>6, <1>7
    <3> QED  BY <1>4, <1>5, <2>4, <3>1
  <2> QED  BY <1>1, <1>4, <2>1, <2>2, <2>3, <2>4 DEF KextsRead
<1>9. CodecsRead' /\ ControllersRead'
  <2>1. ctrlModSection = <<>> /\ DOMAIN ctrlModSection = {}
    BY <1>1, SeqFacts DEF Faith, ControllersRead
  <2> QED  BY <1>1, <1>4, <2>1 DEF CodecsRead, ControllersRead
<1>10. PatchesJust(tree, cpp)'
  BY <1>1, <1>4 DEF PatchesJust
<1> QED  BY <1>3, <1>8, <1>9, <1>10, IdleFaith DEF Faith

(* kextList is written before any other definition.                            *)
LEMMA KextsDoneFaith ==
  ASSUME IInv, Faith, KextsDone
  PROVE  Faith'
<1>1. /\ tree' = tree /\ pc = "kexts" /\ pc' = "vendors" /\ todo = {} /\ stage' = stage
      /\ kextNums' = kextNums /\ kextSection' = kextSection /\ ctrlModSection' = ctrlModSection
  BY DEF KextsDone, Go, dictVars, sections
<1>2. stage' = "none"
  BY <1>1 DEF IInv, MainOK
<1>3. cpp = <<>> /\ Len(cpp) = 0 /\ IsSeq(cpp)
  BY <1>1, SeqFacts DEF Faith, KextsRead
<1>4. cpp' = Append(cpp, [kind |-> "kextList", index |-> 0, body |-> kextSection])
  BY KextListWritten DEF cpp
<1>5. /\ DOMAIN cpp' = {1} /\ cpp'[1].kind = "kextList" /\ cpp'[1].body = kextSection
  <2>1. DOMAIN cpp' = 1 .. 1 /\ cpp'[1] = [kind |-> "kextList", index |-> 0, body |-> kextSection]
    BY <1>3, <1>4, AppendFacts
  <2> QED  BY <2>1
<1>6. KextsRead'
  BY <1>1, <1>5 DEF Faith, KextsRead
<1>7. CodecsRead' /\ ControllersRead'
  <2>1. ctrlModSection = <<>> /\ DOMAIN ctrlModSection = {}
    BY <1>1, SeqFacts DEF Faith, ControllersRead
  <2> QED  BY <1>1, <1>5, <2>1 DEF CodecsRead, ControllersRead
<1>8. PatchesJust(tree, cpp)'
  BY <1>5 DEF PatchesJust
<1> QED  BY <1>2, <1>6, <1>7, <1>8, IdleFaith DEF Faith

(* What a longer file still says.                                              *)
LEMMA RowsKept ==
  ASSUME Keeps(out, out')
  PROVE  /\ \A t, nums, rows, dirs : CodecRows(t, nums, cpp, rows, dirs) => CodecRows(t, nums, cpp', rows, dirs)
         /\ \A t, nums, row, d : ControllerRow(t, nums, cpp, row, d) => ControllerRow(t, nums, cpp', row, d)
BY CodecRowsKept, ControllerRowKept DEF cpp

(* The kexts have theirs for good, and the controllers theirs so far, when a   *)
(* table other than kextList is written.                                       *)
LEMMA TableKeeps ==
  ASSUME IInv, Faith, pc # "kexts", pc' # "kexts", UNCHANGED <<tree, kextNums, kextSection>>,
         NEW d, d.kind \notin {"kextList", "patches"}, cpp' = Append(cpp, d)
  PROVE  /\ KextsRead' /\ PatchesJust(tree, cpp)' /\ Keeps(out, out')
         /\ DOMAIN cpp' = DOMAIN cpp \cup {Len(cpp) + 1} /\ cpp'[Len(cpp) + 1] = d
         /\ \A k \in DOMAIN cpp : cpp'[k] = cpp[k]
<1>1. IsSeq(cpp)
  BY DEF IInv, Sound, IsOutput, cpp
<1>2. /\ DOMAIN cpp' = DOMAIN cpp \cup {Len(cpp) + 1} /\ cpp'[Len(cpp) + 1] = d
      /\ \A k \in DOMAIN cpp : cpp'[k] = cpp[k]
  BY <1>1, AppendFacts
<1>3. Keeps(out, out') /\ NoPatches(out, out')
  BY <1>2 DEF Keeps, NoPatches, cpp
<1>4. PatchesJust(tree, cpp')
  BY <1>3, JustKept DEF Faith, cpp
<1>5. PatchesJust(tree, cpp)'
  BY <1>4 DEF PatchesJust
<1>6. KextsRead'
  BY <1>2 DEF Faith, KextsRead
<1> QED  BY <1>2, <1>3, <1>5, <1>6

(* The codecs of a vendor start with no row.                                   *)
LEMMA NextVendorFaith ==
  ASSUME IInv, Faith, NEW x \in todo, NextVendor(x)
  PROVE  Faith'
<1>1. /\ tree' = tree /\ cpp' = cpp /\ pc = "vendors" /\ pc' = "codecs" /\ todo' = DOMAIN tree.codecs
      /\ codecModSection' = <<>> /\ UNCHANGED <<stage, kextNums, kextSection, ctrlModSection, vendorSection>>
  BY DEF NextVendor, dictVars, cpp
<1>2. stage = "none"
  BY <1>1 DEF IInv, MainOK
<1>3. KextsRead'
  BY <1>1 DEF Faith, KextsRead
<1>4. CodecsRead'
  <2>1. (CodecsIn(tree, vendor)' \ todo') \ InWork' = {}
    BY <1>1 DEF CodecsIn
  <2>2. CodecRows(tree, kextNums, cpp, <<>>, {})
    <3>1. [i \in {} |-> 0] \in [DOMAIN <<>> -> {}]
      BY SeqFacts
    <3> QED  BY <3>1, SeqFacts DEF CodecRows
  <2>3. \A k \in DOMAIN cpp : cpp[k].kind = "codecMod" =>
          IsSeq(cpp[k].body) /\ CodecRows(tree, kextNums, cpp, cpp[k].body, CodecsIn(tree, cpp[k].index))
    BY DEF Faith, CodecsRead
  <2> QED  BY <1>1, <1>2, <2>1, <2>2, <2>3 DEF CodecsRead
<1>5. ControllersRead'
  BY <1>1 DEF Faith, ControllersRead
<1>6. PatchesJust(tree, cpp)'
  BY <1>1 DEF Faith, PatchesJust
<1> QED  BY <1>1, <1>2, <1>3, <1>4, <1>5, <1>6, IdleFaith DEF Faith

(* A codec of another vendor gets no row.                                      *)
LEMMA SkipCodecFaith ==
  ASSUME IInv, Faith, NEW x \in todo, SkipCodec(x)
  PROVE  Faith'
<1>1. /\ tree' = tree /\ cpp' = cpp /\ pc = "codecs" /\ pc' = "codecs" /\ todo' = todo \ {x} /\ vendor' = vendor
      /\ stage = "none" /\ stage' = "none" /\ tree.codecs[x].vendor # vendor
      /\ UNCHANGED <<kextNums, kextSection, codecModSection, ctrlModSection, vendorSection>>
  BY DEF SkipCodec, Visit, dictVars, sections, cpp
<1>2. KextsRead'
  BY <1>1 DEF Faith, KextsRead
<1>3. CodecsRead'
  <2>1. CodecsIn(tree, vendor) \ todo' = CodecsIn(tree, vendor) \ todo
    BY <1>1 DEF CodecsIn
  <2>2. InWork = {} /\ InWork' = {}
    BY <1>1 DEF InWork
  <2> QED  BY <1>1, <2>1, <2>2 DEF Faith, CodecsRead
<1>4. ControllersRead'
  BY <1>1 DEF Faith, ControllersRead
<1>5. PatchesJust(tree, cpp)'
  BY <1>1 DEF Faith, PatchesJust
<1> QED  BY <1>1, <1>2, <1>3, <1>4, <1>5, IdleFaith DEF Faith

(* A codec or controller starts without lists.                                 *)
LEMMA StartFaith ==
  ASSUME IInv, Faith, NEW x \in todo, StartDict(x), pc \in {"codecs", "controllers"}
  PROVE  KextsRead' /\ LinesRead' /\ RefsRead' /\ PatchesJust(tree, cpp)'
<1>1. /\ tree' = tree /\ cpp' = cpp /\ pc' = pc /\ stage' = "revisions" /\ refs' = NoRefs
      /\ UNCHANGED <<kextNums, kextSection, codecModSection, ctrlModSection, vendorSection>>
  BY DEF StartDict, Visit, sections, cpp
<1>2. KextsRead'
  BY <1>1 DEF Faith, KextsRead
<1>3. LinesRead'
  BY <1>1 DEF LinesRead
<1>4. RefsRead'
  BY <1>1 DEF RefsRead, Lists, NoRefs
<1>5. PatchesJust(tree, cpp)'
  BY <1>1 DEF Faith, PatchesJust
<1> QED  BY <1>2, <1>3, <1>4, <1>5

(* The codec that starts is one of its vendor's, and has no row.               *)
LEMMA StartCodecFaith ==
  ASSUME IInv, Faith, NEW x \in todo, StartCodec(x)
  PROVE  Faith'
<1>1. StartDict(x) /\ pc = "codecs" /\ tree.codecs[x].vendor = vendor
  BY DEF StartCodec
<1>2. /\ tree' = tree /\ cpp' = cpp /\ pc' = pc /\ vendor' = vendor /\ todo' = todo \ {x}
      /\ stage = "none" /\ stage' = "revisions" /\ cur' = x
      /\ UNCHANGED <<kextNums, codecModSection, ctrlModSection, vendorSection>>
  BY <1>1 DEF StartDict, Visit, sections, cpp
<1>3. x \in CodecsIn(tree, vendor)
  BY <1>1 DEF CodecsIn, IInv, MainOK
<1>4. CodecsRead'
  <2>1. InWork = {} /\ InWork' = {x}
    BY <1>2 DEF InWork
  <2>2. (CodecsIn(tree, vendor) \ todo') \ {x} = CodecsIn(tree, vendor) \ todo
    BY <1>2
  <2>3. cur' \in CodecsIn(tree, vendor) \ todo'
    BY <1>2, <1>3
  <2> QED  BY <1>1, <1>2, <2>1, <2>2, <2>3 DEF Faith, CodecsRead
<1>5. ControllersRead'
  BY <1>1, <1>2 DEF Faith, ControllersRead
<1> QED  BY <1>1, <1>4, <1>5, StartFaith DEF Faith

(* The controller that starts is the next of its array.                        *)
LEMMA StartControllerFaith ==
  ASSUME IInv, Faith, NEW x \in todo, StartController(x)
  PROVE  Faith'
<1>1. StartDict(x) /\ pc = "controllers" /\ \A d \in todo : x <= d
  BY DEF StartController
<1>2. /\ tree' = tree /\ cpp' = cpp /\ pc' = pc /\ vendor' = vendor /\ todo' = todo \ {x}
      /\ stage = "none" /\ stage' = "revisions" /\ cur' = x
      /\ UNCHANGED <<kextNums, codecModSection, ctrlModSection, vendorSection>>
  BY <1>1 DEF StartDict, Visit, sections, cpp
<1>3. CodecsRead'
  <2>1. Named' = Named
    BY <1>2 DEF Named
  <2> QED  BY <1>1, <1>2, <2>1 DEF Faith, CodecsRead
<1>4. ControllersRead'
  <2>1. Len(ctrlModSection) \in Nat /\ Len(tree.controllers) \in Nat
    <3>1. IsTree(tree)
      BY TreesAssumption DEF IInv, MainOK
    <3> QED  BY <3>1, SeqFacts DEF IInv, SectionsOK, IsTree
  <2>2. Started = Len(ctrlModSection) /\ Started' = Len(ctrlModSection) + 1
    BY <1>2, <2>1 DEF Started
  <2>3. todo = Len(ctrlModSection) + 1 .. Len(tree.controllers)
    BY <1>1, <2>2 DEF Faith, ControllersRead
  <2>4. x = Len(ctrlModSection) + 1 /\ x <= Len(tree.controllers)
    BY <1>1, <2>1, <2>3
  <2>5. todo' = (Len(ctrlModSection) + 1) + 1 .. Len(tree.controllers)
    BY <1>2, <2>1, <2>3, <2>4
  <2> QED  BY <1>1, <1>2, <2>2, <2>4, <2>5 DEF Faith, ControllersRead
<1> QED  BY <1>1, <1>3, <1>4, StartFaith DEF Faith

(* One more codec has its row.                                                 *)
LEMMA CodecRowAdded ==
  ASSUME NEW t, NEW nums, NEW c, NEW rows, IsSeq(rows), NEW dirs, CodecRows(t, nums, c, rows, dirs),
         NEW dir, dir \notin dirs, NEW row, CodecRow(t, nums, c, row, dir)
  PROVE  CodecRows(t, nums, c, Append(rows, row), dirs \cup {dir})
<1> DEFINE rows2 == Append(rows, row)
           m == Len(rows) + 1
<1>1. PICK order \in [DOMAIN rows -> dirs] :
        /\ \A i, j \in DOMAIN rows : order[i] = order[j] => i = j
        /\ \A d \in dirs : \E i \in DOMAIN rows : order[i] = d
        /\ \A i \in DOMAIN rows : CodecRow(t, nums, c, rows[i], order[i])
  BY DEF CodecRows
<1>2. /\ DOMAIN rows2 = DOMAIN rows \cup {m} /\ m \notin DOMAIN rows /\ rows2[m] = row
      /\ \A i \in DOMAIN rows : rows2[i] = rows[i]
  BY AppendFacts
<1> HIDE DEF rows2, m
<1> DEFINE order2 == [i \in DOMAIN rows2 |-> IF i = m THEN dir ELSE order[i]]
<1>3. /\ order2 \in [DOMAIN rows2 -> dirs \cup {dir}] /\ order2[m] = dir
      /\ \A i \in DOMAIN rows : order2[i] = order[i] /\ order[i] \in dirs
  BY <1>1, <1>2
<1> HIDE DEF order2
<1>4. \A i, j \in DOMAIN rows2 : order2[i] = order2[j] => i = j
  BY <1>1, <1>2, <1>3
<1>5. \A d \in dirs \cup {dir} : \E i \in DOMAIN rows2 : order2[i] = d
  BY <1>1, <1>2, <1>3
<1>6. \A i \in DOMAIN rows2 : CodecRow(t, nums, c, rows2[i], order2[i])
  BY <1>1, <1>2, <1>3
<1> QED  BY <1>3, <1>4, <1>5, <1>6 DEF CodecRows, rows2

(* A row of codecMod has the lists of its codec.                               *)
LEMMA CodecFaith ==
  ASSUME IInv, Faith, GenerateCodec
  PROVE  Faith'
<1> DEFINE row == [codec |-> UShort(Entry.codec), revisions |-> refs.revisions, platforms |-> refs.platforms,
                   layouts |-> refs.layouts, patches |-> refs.patches]
<1>1. /\ tree' = tree /\ cpp' = cpp /\ pc = "codecs" /\ pc' = "codecs" /\ todo' = todo /\ vendor' = vendor
      /\ stage = "row" /\ stage' = "none" /\ codecModSection' = Append(codecModSection, row)
      /\ UNCHANGED <<kextNums, kextSection, ctrlModSection, vendorSection>>
  BY DEF GenerateCodec, mainVars, cpp
<1>2. Entry = tree.codecs[cur]
  BY <1>1 DEF Entry
<1>3. CodecRow(tree, kextNums, cpp, row, cur)
  <2>1. /\ row.codec = UShort(Entry.codec) /\ row.revisions = refs.revisions
        /\ row.platforms = refs.platforms /\ row.layouts = refs.layouts /\ row.patches = refs.patches
    OBVIOUS
  <2> HIDE DEF row
  <2> QED  BY <1>1, <1>2, <2>1 DEF CodecRow, Faith, RefsRead, Lists
<1> HIDE DEF row
<1>4. KextsRead'
  BY <1>1 DEF Faith, KextsRead
<1>5. CodecsRead'
  <2> DEFINE dirs == (CodecsIn(tree, vendor) \ todo) \ {cur}
  <2>1. CodecRows(tree, kextNums, cpp, codecModSection, dirs) /\ cur \in CodecsIn(tree, vendor) \ todo
    BY <1>1 DEF Faith, CodecsRead, InWork
  <2>2. CodecRows(tree, kextNums, cpp, codecModSection', dirs \cup {cur})
    BY <1>1, <1>3, <2>1, CodecRowAdded DEF IInv, SectionsOK
  <2>3. dirs \cup {cur} = (CodecsIn(tree, vendor) \ todo) \ InWork'
    BY <1>1, <2>1 DEF InWork
  <2> QED  BY <1>1, <2>2, <2>3 DEF Faith, CodecsRead
<1>6. ControllersRead'
  BY <1>1 DEF Faith, ControllersRead
<1>7. PatchesJust(tree, cpp)'
  BY <1>1 DEF Faith, PatchesJust
<1> QED  BY <1>1, <1>4, <1>5, <1>6, <1>7, IdleFaith DEF Faith

(* The table of a vendor has all of its codecs.                                *)
LEMMA CodecsDoneFaith ==
  ASSUME IInv, Faith, CodecsDone
  PROVE  Faith'
<1> DEFINE d == [kind |-> "codecMod", index |-> vendor, body |-> codecModSection]
<1>1. /\ tree' = tree /\ pc = "codecs" /\ pc' = "vendors" /\ todo = {} /\ stage = "none" /\ stage' = stage
      /\ UNCHANGED <<kextNums, kextSection, ctrlModSection>>
  BY DEF CodecsDone, Go, dictVars
<1>2. cpp' = Append(cpp, d)
  BY CodecModWritten DEF cpp
<1>3. d.kind = "codecMod" /\ d.index = vendor /\ d.body = codecModSection
  OBVIOUS
<1> HIDE DEF d
<1>4. /\ KextsRead' /\ PatchesJust(tree, cpp)' /\ Keeps(out, out')
      /\ DOMAIN cpp' = DOMAIN cpp \cup {Len(cpp) + 1} /\ cpp'[Len(cpp) + 1] = d
      /\ \A k \in DOMAIN cpp : cpp'[k] = cpp[k]
  BY <1>1, <1>2, <1>3, TableKeeps
<1>5. CodecsRead'
  <2>1. CodecRows(tree, kextNums, cpp, codecModSection, CodecsIn(tree, vendor))
    <3>1. (CodecsIn(tree, vendor) \ todo) \ InWork = CodecsIn(tree, vendor)
      BY <1>1 DEF InWork
    <3> QED  BY <1>1, <3>1 DEF Faith, CodecsRead
  <2>2. ASSUME NEW k \in DOMAIN cpp', cpp'[k].kind = "codecMod"
        PROVE  /\ IsSeq(cpp'[k].body)
               /\ CodecRows(tree, kextNums, cpp', cpp'[k].body, CodecsIn(tree, cpp'[k].index))
    <3>1. CASE k \in DOMAIN cpp
      BY <1>4, <2>2, <3>1, RowsKept DEF Faith, CodecsRead
    <3>2. CASE k = Len(cpp) + 1
      BY <1>3, <1>4, <2>1, <3>2, RowsKept DEF IInv, SectionsOK
    <3> QED  BY <1>4, <3>1, <3>2
  <2> QED  BY <1>1, <2>2 DEF CodecsRead
<1>6. ControllersRead'
  BY <1>1, SeqFacts DEF Faith, ControllersRead
<1> QED  BY <1>1, <1>4, <1>5, <1>6, IdleFaith DEF Faith

(* When there is no vendor left, every vendor has its table; the controllers   *)
(* come next, from the first.                                                  *)
LEMMA VendorsDoneFaith ==
  ASSUME IInv, Faith, VendorsDone
  PROVE  Faith'
<1> DEFINE d == [kind |-> "vendorMod", index |-> 0, body |-> vendorSection]
<1>1. /\ tree' = tree /\ pc = "vendors" /\ pc' = "controllers" /\ todo = {} /\ todo' = DOMAIN tree.controllers
      /\ stage' = stage /\ UNCHANGED <<kextNums, kextSection, ctrlModSection, vendorSection>>
  BY DEF VendorsDone, Go, dictVars, sections
<1>2. cpp' = Append(cpp, d)
  BY VendorModWritten DEF cpp
<1>3. d.kind = "vendorMod"
  OBVIOUS
<1> HIDE DEF d
<1>4. /\ KextsRead' /\ PatchesJust(tree, cpp)' /\ Keeps(out, out')
      /\ DOMAIN cpp' = DOMAIN cpp \cup {Len(cpp) + 1} /\ cpp'[Len(cpp) + 1] = d
      /\ \A k \in DOMAIN cpp : cpp'[k] = cpp[k]
  BY <1>1, <1>2, <1>3, TableKeeps
<1>5. stage' = "none"
  BY <1>1 DEF IInv, MainOK
<1>6. CodecsRead'
  <2>1. DOMAIN tree.vendors \subseteq Named /\ Named' = Named
    BY <1>1 DEF IInv, MainOK, Named
  <2>2. ASSUME NEW k \in DOMAIN cpp', cpp'[k].kind = "codecMod"
        PROVE  /\ IsSeq(cpp'[k].body)
               /\ CodecRows(tree, kextNums, cpp', cpp'[k].body, CodecsIn(tree, cpp'[k].index))
    BY <1>3, <1>4, <2>2, RowsKept DEF Faith, CodecsRead
  <2> QED  BY <1>1, <2>1, <2>2 DEF CodecsRead
<1>7. ControllersRead'
  <2>1. ctrlModSection' = <<>> /\ Len(ctrlModSection') = 0 /\ DOMAIN ctrlModSection' = {}
    BY <1>1, SeqFacts DEF Faith, ControllersRead
  <2>2. DOMAIN tree.controllers = 1 .. Len(tree.controllers) /\ Len(tree.controllers) \in Nat
    BY TreesAssumption DEF IInv, MainOK, IsTree
  <2>3. Started' = 0
    BY <1>5, <2>1 DEF Started
  <2> QED  BY <1>1, <1>5, <2>1, <2>2, <2>3 DEF ControllersRead
<1> QED  BY <1>4, <1>5, <1>6, <1>7, IdleFaith DEF Faith

(* One more controller has its row, in its place.                              *)
LEMMA ControllerFaith ==
  ASSUME IInv, Faith, GenerateController
  PROVE  Faith'
<1> DEFINE row == [vendor |-> UShort(VendorID(Entry.vendor)), device |-> UShort(Entry.device),
                   revisions |-> refs.revisions, patches |-> refs.patches]
<1>1. /\ tree' = tree /\ cpp' = cpp /\ pc = "controllers" /\ pc' = "controllers" /\ todo' = todo
      /\ stage = "row" /\ stage' = "none" /\ ctrlModSection' = Append(ctrlModSection, row)
      /\ UNCHANGED <<kextNums, kextSection, codecModSection, vendorSection>>
  BY DEF GenerateController, mainVars, cpp
<1>2. Entry = tree.controllers[cur]
  BY <1>1 DEF Entry
<1>3. ControllerRow(tree, kextNums, cpp, row, tree.controllers[cur])
  <2>1. /\ row.vendor = UShort(VendorID(Entry.vendor)) /\ row.device = UShort(Entry.device)
        /\ row.revisions = refs.revisions /\ row.patches = refs.patches
    OBVIOUS
  <2> HIDE DEF row
  <2>2. VendorID(Entry.vendor) = IF Has(tree.vendors, Entry.vendor) THEN tree.vendors[Entry.vendor] ELSE 0
    BY DEF VendorID
  <2> QED  BY <1>1, <1>2, <2>1, <2>2 DEF ControllerRow, Faith, RefsRead, Lists
<1> HIDE DEF row
<1>4. KextsRead'
  BY <1>1 DEF Faith, KextsRead
<1>5. CodecsRead'
  BY <1>1 DEF Faith, CodecsRead, Named
<1>6. ControllersRead'
  <2>1. /\ Len(ctrlModSection) \in Nat
        /\ DOMAIN ctrlModSection' = DOMAIN ctrlModSection \cup {Len(ctrlModSection) + 1}
        /\ Len(ctrlModSection') = Len(ctrlModSection) + 1 /\ ctrlModSection'[Len(ctrlModSection) + 1] = row
        /\ \A i \in DOMAIN ctrlModSection : ctrlModSection'[i] = ctrlModSection[i]
    BY <1>1, AppendFacts DEF IInv, SectionsOK
  <2>2. Started = Len(ctrlModSection) + 1 /\ Started' = Started
    BY <1>1, <2>1 DEF Started
  <2>3. cur = Len(ctrlModSection) + 1
    BY <1>1, <2>2 DEF Faith, ControllersRead
  <2> QED  BY <1>1, <1>3, <2>1, <2>2, <2>3 DEF Faith, ControllersRead
<1>7. PatchesJust(tree, cpp)'
  BY <1>1 DEF Faith, PatchesJust
<1> QED  BY <1>1, <1>4, <1>5, <1>6, <1>7, IdleFaith DEF Faith

(* When there is no controller left, all of them have a row.                   *)
LEMMA ControllersDoneFaith ==
  ASSUME IInv, Faith, ControllersDone
  PROVE  Faith'
<1> DEFINE d == [kind |-> "controllerMod", index |-> 0, body |-> ctrlModSection]
<1>1. /\ tree' = tree /\ pc = "controllers" /\ pc' = "done" /\ todo = {} /\ stage = "none" /\ stage' = stage
      /\ UNCHANGED <<kextNums, kextSection, ctrlModSection, vendorSection>>
  BY DEF ControllersDone, Go, dictVars, sections
<1>2. cpp' = Append(cpp, d)
  BY ControllerModWritten DEF cpp
<1>3. d.kind = "controllerMod"
  OBVIOUS
<1> HIDE DEF d
<1>4. /\ KextsRead' /\ PatchesJust(tree, cpp)' /\ Keeps(out, out')
      /\ DOMAIN cpp' = DOMAIN cpp \cup {Len(cpp) + 1} /\ cpp'[Len(cpp) + 1] = d
      /\ \A k \in DOMAIN cpp : cpp'[k] = cpp[k]
  BY <1>1, <1>2, <1>3, TableKeeps
<1>5. CodecsRead'
  <2>1. DOMAIN tree.vendors \subseteq Named /\ Named' = Named
    BY <1>1 DEF Faith, CodecsRead, Named
  <2>2. ASSUME NEW k \in DOMAIN cpp', cpp'[k].kind = "codecMod"
        PROVE  /\ IsSeq(cpp'[k].body)
               /\ CodecRows(tree, kextNums, cpp', cpp'[k].body, CodecsIn(tree, cpp'[k].index))
    BY <1>3, <1>4, <2>2, RowsKept DEF Faith, CodecsRead
  <2> QED  BY <1>1, <2>1, <2>2 DEF CodecsRead
<1>6. ControllersRead'
  <2>1. Len(ctrlModSection) \in Nat /\ Len(tree.controllers) \in Nat
    <3>1. IsTree(tree)
      BY TreesAssumption DEF IInv, MainOK
    <3> QED  BY <3>1, SeqFacts DEF IInv, SectionsOK, IsTree
  <2>2. /\ Len(ctrlModSection) <= Len(tree.controllers)
        /\ Len(ctrlModSection) + 1 .. Len(tree.controllers) = {}
    BY <1>1, <2>1 DEF Faith, ControllersRead, Started
  <2>3. Len(ctrlModSection) = Len(tree.controllers)
    BY <2>1, <2>2
  <2> QED  BY <1>1, <1>4, <2>3, RowsKept DEF Faith, ControllersRead
<1> QED  BY <1>1, <1>4, <1>5, <1>6, IdleFaith DEF Faith

(* Every step keeps it.                                                        *)
LEMMA FaithStep ==
  ASSUME IInv, Faith, [Next]_vars
  PROVE  Faith'
<1>1. ASSUME GenerateRevisions \/ GenerateFileRow \/ GeneratePatchRow \/ EndOfList
      PROVE  Faith'
  <2>1. /\ UNCHANGED <<tree, mainVars, cur, kextNums, sections>>
        /\ stage # "none" /\ stage' # "none"
    BY <1>1 DEF GenerateRevisions, GenerateFileRow, GeneratePatchRow, EndOfList
  <2>2. AddsArrays(out, out')
    BY <1>1, RevisionsWritten, FileRowWritten, PatchRowWritten, ListWritten
  <2>3. LinesRead' /\ RefsRead' /\ PatchesJust(tree, cpp')
    BY <1>1, RevisionsFaith, FileRowFaith, PatchRowFaith, EndOfListFaith
  <2>4. KextsRead' /\ CodecsRead' /\ ControllersRead'
    BY <2>1, <2>2, GeneratorKeeps
  <2>5. PatchesJust(tree, cpp)'
    BY <2>1, <2>3 DEF PatchesJust
  <2> QED  BY <2>3, <2>4, <2>5 DEF Faith
<1>2. ASSUME NEW x \in todo,
             GenerateKext(x) \/ NextVendor(x) \/ SkipCodec(x) \/ StartCodec(x) \/ StartController(x)
      PROVE  Faith'
  BY <1>2, KextFaith, NextVendorFaith, SkipCodecFaith, StartCodecFaith, StartControllerFaith
<1>3. ASSUME \/ GenerateCodec \/ GenerateController
             \/ KextsDone \/ CodecsDone \/ VendorsDone \/ ControllersDone
      PROVE  Faith'
  BY <1>3, CodecFaith, ControllerFaith, KextsDoneFaith, CodecsDoneFaith, VendorsDoneFaith, ControllersDoneFaith
<1>4. ASSUME UNCHANGED vars  PROVE Faith'
  <2>1. UNCHANGED <<tree, pc, todo, vendor, cur, stage, n, lines, refs, kextNums,
                    kextSection, codecModSection, vendorSection, ctrlModSection, cpp>>
    BY <1>4 DEF vars, mainVars, dictVars, sections, cpp
  <2>2. Entry' = Entry /\ InWork' = InWork /\ Started' = Started /\ Named' = Named
    BY <2>1 DEF Entry, InWork, Started, Named
  <2>3. KextsRead'
    BY <2>1 DEF Faith, KextsRead
  <2>4. LinesRead' /\ RefsRead'
    BY <2>1, <2>2 DEF Faith, LinesRead, RefsRead
  <2>5. CodecsRead' /\ ControllersRead'
    BY <2>1, <2>2 DEF Faith, CodecsRead, ControllersRead
  <2>6. PatchesJust(tree, cpp)'
    BY <2>1 DEF Faith, PatchesJust
  <2> QED  BY <2>3, <2>4, <2>5, <2>6 DEF Faith
<1> QED  BY <1>1, <1>2, <1>3, <1>4 DEF Next

(* IInv and Faith together are inductive.                                      *)
LEMMA FaithInvariance == Spec => [](IInv /\ Faith)
<1>1. IInv /\ Faith /\ [Next]_vars => (IInv /\ Faith)'
  <2> SUFFICES ASSUME IInv, Faith, [Next]_vars PROVE IInv' /\ Faith'
    OBVIOUS
  <2>1. Sound(out)' /\ tree' = tree
    BY StepOK, SoundPrime
  <2> QED  BY <2>1, StepOK, MainStep, FaithStep DEF IInv
<1> QED  BY <1>1, InitOK, FaithInit, PTL DEF Spec

-----------------------------------------------------------------------------
(* What the compiler and AlcEnabler make of the file.                         *)

(* A name has one definition, and Lookup finds it.                             *)
LEMMA LookupFinds ==
  ASSUME IInv, NEW ref, ref # Nullptr, NEW k \in DOMAIN cpp, Names(ref, cpp[k])
  PROVE  Lookup(ref) = Elements(cpp[k])
<1>1. Definitions(ref.table, ref.index) = {k}
  BY DEF IInv, Sound, Unique, Definitions, Names, cpp
<1>2. (CHOOSE j \in Definitions(ref.table, ref.index) : TRUE) = k
  BY <1>1
<1> QED  BY <1>2 DEF Lookup

(* So a reference that reads as something is looked up as that.                *)
LEMMA LookupReads ==
  ASSUME IInv, NEW ref, NEW body, Reads(cpp, ref, body)
  PROVE  Lookup(ref) = body
<1>1. CASE ref = Nullptr
  BY <1>1 DEF Reads, Lookup
<1>2. CASE ref # Nullptr
  BY <1>2, LookupFinds DEF Reads
<1> QED  BY <1>1, <1>2

(* The platforms or layouts of a codec are the files that its plist lists.     *)
LEMMA FilesAreRead ==
  ASSUME IInv, NEW ref, NEW dir, NEW key, FilesRead(tree, cpp, ref, dir, Listed(tree.codecs[dir], key))
  PROVE  ReadFiles(ref) = FilesOf(dir, key)
<1> DEFINE fs == Listed(tree.codecs[dir], key)
           ls == Lookup(ref)
<1>1. DOMAIN ls = DOMAIN fs /\ \A i \in DOMAIN fs : FileRow(tree, cpp, ls[i], dir, fs[i])
  <2>1. CASE ref = Nullptr /\ fs = <<>>
    <3>1. ls = <<>>
      BY <2>1 DEF Lookup
    <3> QED  BY <2>1, <3>1, SeqFacts
  <2>2. CASE ref # Nullptr
    <3>1. PICK k \in DOMAIN cpp : /\ Names(ref, cpp[k]) /\ cpp[k].kind # "patches" /\ DOMAIN cpp[k].body = DOMAIN fs
                                  /\ \A i \in DOMAIN fs : FileRow(tree, cpp, cpp[k].body[i], dir, fs[i])
      BY <2>2 DEF FilesRead
    <3>2. ls = cpp[k].body
      BY <2>2, <3>1, LookupFinds DEF Elements
    <3> HIDE DEF ls, fs
    <3> QED  BY <3>1, <3>2
  <2> QED  BY <2>1, <2>2 DEF FilesRead
<1> HIDE DEF fs, ls
<1>2. \A i \in DOMAIN fs : /\ ls[i].id = fs[i].id
                           /\ Lookup(ls[i].file) = Listed(tree.files, <<dir, fs[i].path>>)
  BY <1>1, LookupReads DEF FileRow
<1>3. ReadFiles(ref) = [i \in DOMAIN ls |-> [data |-> Lookup(ls[i].file), id |-> ls[i].id]]
  BY DEF ReadFiles, ls
<1>4. FilesOf(dir, key) = [i \in DOMAIN fs |-> [data |-> Listed(tree.files, <<dir, fs[i].path>>), id |-> fs[i].id]]
  BY DEF FilesOf, fs
<1> QED  BY <1>1, <1>2, <1>3, <1>4

(* The patches of a dictionary are those of its plist, at the kexts they name. *)
LEMMA PatchesAreRead ==
  ASSUME IInv, Faith, pc # "kexts", Compiles, NEW dict, NEW ref,
         PatchesRead(tree, kextNums, cpp, ref, Listed(dict, "patches"))
  PROVE  /\ ReadPatches(ref) = PatchesOf(dict)
         /\ \A p \in Elems(Listed(dict, "patches")) : SameLength(p) /\ Has(tree.kexts, p.name)
<1> DEFINE ps == Listed(dict, "patches")
           ls == Lookup(ref)
<1>1. /\ DOMAIN ls = DOMAIN ps
      /\ \A i \in DOMAIN ps : Usable(tree, ps[i]) /\ PatchRow(kextNums, cpp, ls[i], ps[i])
  <2>1. CASE ref = Nullptr /\ ps = <<>>
    <3>1. ls = <<>>
      BY <2>1 DEF Lookup
    <3> QED  BY <2>1, <3>1, SeqFacts
  <2>2. CASE ref # Nullptr
    <3>1. PICK k \in DOMAIN cpp :
            /\ Names(ref, cpp[k]) /\ cpp[k].kind = "patches"
            /\ Broken(cpp[k]) <=> \E i \in DOMAIN ps : ~Usable(tree, ps[i])
            /\ ~Broken(cpp[k]) => /\ DOMAIN cpp[k].body.rows = DOMAIN ps
                                  /\ \A i \in DOMAIN ps : PatchRow(kextNums, cpp, cpp[k].body.rows[i], ps[i])
      BY <2>2 DEF PatchesRead
    <3>2. ls = cpp[k].body.rows
      BY <2>2, <3>1, LookupFinds DEF Elements
    <3>3. ~Broken(cpp[k])
      BY DEF Compiles
    <3> HIDE DEF ls, ps
    <3> QED  BY <3>1, <3>2, <3>3
  <2> QED  BY <2>1, <2>2 DEF PatchesRead
<1> HIDE DEF ps, ls
<1>2. ASSUME NEW i \in DOMAIN ps
      PROVE  ReadPatch(ls[i]) = [kext |-> tree.kexts[ps[i].name].id, find |-> ps[i].find,
                                 replace |-> ps[i].replace, size |-> Len(ps[i].find)]
  <2>1. PatchRow(kextNums, cpp, ls[i], ps[i]) /\ Has(tree.kexts, ps[i].name)
    BY <1>1 DEF Usable
  <2>2. Lookup(ls[i].find) = ps[i].find /\ Lookup(ls[i].replace) = ps[i].replace /\ ls[i].size = Len(ps[i].find)
    BY <2>1, LookupReads DEF PatchRow
  <2>3. ps[i].name \in DOMAIN kextNums
    BY <2>1 DEF Faith, KextsRead, Has
  <2>4. kextSection[ls[i].kext + 1].id = tree.kexts[ps[i].name].id
    BY <2>1, <2>3 DEF PatchRow, NumOf, Has, Faith, KextsRead
  <2> QED  BY <2>2, <2>4 DEF ReadPatch
<1>3. ReadPatches(ref) = [i \in DOMAIN ls |-> ReadPatch(ls[i])]
  BY DEF ReadPatches, ls
<1>4. PatchesOf(dict) = [i \in DOMAIN ps |-> [kext |-> tree.kexts[ps[i].name].id, find |-> ps[i].find,
                                              replace |-> ps[i].replace, size |-> Len(ps[i].find)]]
  BY DEF PatchesOf, ps
<1>5. ReadPatches(ref) = PatchesOf(dict)
  BY <1>1, <1>2, <1>3, <1>4
<1>6. \A p \in Elems(ps) : SameLength(p) /\ Has(tree.kexts, p.name)
  BY <1>1 DEF Elems, Usable
<1> QED  BY <1>5, <1>6 DEF ps

(* A number of 16 bits stays as it is.                                         *)
LEMMA ShortIds ==
  ASSUME NEW k \in Ids
  PROVE  UShort(k) = k
<1>1. k \in Nat /\ k < 65536
  BY DEF Ids
<1> QED  BY <1>1 DEF UShort

(* A row of codecMod or controllerMod says what its plist says.                *)
LEMMA CodecIsRead ==
  ASSUME IInv, Faith, pc # "kexts", Compiles, NEW row, NEW dir \in DOMAIN tree.codecs,
         CodecRow(tree, kextNums, cpp, row, dir)
  PROVE  ReadCodec(row) = CodecOf(dir)
<1>1. tree.codecs[dir].codec \in Ids
  BY TreesAssumption DEF IInv, MainOK, IsTree
<1>2. row.codec = tree.codecs[dir].codec
  <2>1. row.codec = UShort(tree.codecs[dir].codec)
    BY DEF CodecRow
  <2> QED  BY <1>1, <2>1, ShortIds
<1>3. Lookup(row.revisions) = Listed(tree.codecs[dir], "revisions")
  BY LookupReads DEF CodecRow
<1>4. ReadFiles(row.platforms) = FilesOf(dir, "platforms") /\ ReadFiles(row.layouts) = FilesOf(dir, "layouts")
  BY FilesAreRead DEF CodecRow
<1>5. ReadPatches(row.patches) = PatchesOf(tree.codecs[dir])
  BY PatchesAreRead DEF CodecRow
<1> QED  BY <1>2, <1>3, <1>4, <1>5 DEF ReadCodec, CodecOf

(* And a controller's row says what its entry of the array says.               *)
LEMMA ControllerIsRead ==
  ASSUME IInv, Faith, pc # "kexts", Compiles, NEW row, NEW i \in DOMAIN tree.controllers,
         ControllerRow(tree, kextNums, cpp, row, tree.controllers[i])
  PROVE  ReadController(row) = ControllerOf(tree.controllers[i])
<1> DEFINE d == tree.controllers[i]
<1>1. d.device \in Ids /\ \A name \in DOMAIN tree.vendors : tree.vendors[name] \in Ids
  BY TreesAssumption DEF IInv, MainOK, IsTree
<1> HIDE DEF d
<1>2. /\ ControllerRow(tree, kextNums, cpp, row, d)
      /\ ControllerOf(tree.controllers[i]) = ControllerOf(d)
  BY DEF d
<1>3. row.device = d.device /\ row.vendor = VendorID(d.vendor)
  <2>1. row.device = UShort(d.device) /\ row.vendor = UShort(VendorID(d.vendor))
    BY <1>2 DEF ControllerRow, VendorID
  <2>2. VendorID(d.vendor) \in Ids
    <3>1. 0 \in Ids
      BY DEF Ids
    <3> QED  BY <1>1, <3>1 DEF VendorID, Has
  <2> QED  BY <1>1, <2>1, <2>2, ShortIds
<1>4. Lookup(row.revisions) = Listed(d, "revisions")
  BY <1>2, LookupReads DEF ControllerRow
<1>5. ReadPatches(row.patches) = PatchesOf(d)
  BY <1>2, PatchesAreRead DEF ControllerRow
<1> QED  BY <1>2, <1>3, <1>4, <1>5 DEF ReadController, ControllerOf

(* The table of a vendor, which has a row for each of its codecs.              *)
LEMMA VendorTable ==
  ASSUME IInv, Faith, pc = "done", NEW v \in DOMAIN tree.vendors
  PROVE  LET mods == Lookup([table |-> "codecMod", index |-> v, num |-> 0])
         IN  IsSeq(mods) /\ CodecRows(tree, kextNums, cpp, mods, CodecsIn(tree, v))
<1> DEFINE ref(num) == [table |-> "codecMod", index |-> v, num |-> num]
<1>1. PICK i \in DOMAIN vendorSection : vendorSection[i].name = v
  BY DEF Faith, CodecsRead, Named
<1>2. Declared(cpp, ref(vendorSection[i].num))
  BY <1>1 DEF IInv, SectionsOK
<1>3. \A num : ref(num) # Nullptr /\ ref(num).table = "codecMod" /\ ref(num).index = v
  BY DEF Nullptr
<1> HIDE DEF ref
<1>4. PICK j \in DOMAIN cpp : cpp[j].kind = "codecMod" /\ cpp[j].index = v
  BY <1>2, <1>3 DEF Declared, Stands
<1>5. Lookup(ref(0)) = cpp[j].body
  BY <1>3, <1>4, LookupFinds DEF Names, Elements
<1>6. IsSeq(cpp[j].body) /\ CodecRows(tree, kextNums, cpp, cpp[j].body, CodecsIn(tree, v))
  BY <1>4 DEF Faith, CodecsRead
<1> QED  BY <1>5, <1>6 DEF ref

(* A vendor has each of its codecs once, and no other.                         *)
LEMMA VendorIsRead ==
  ASSUME IInv, Faith, pc = "done", Compiles, NEW v \in DOMAIN tree.vendors
  PROVE  LET mods == Lookup([table |-> "codecMod", index |-> v, num |-> 0])
         IN  /\ Len(mods) = Cardinality(CodecsOf(v))
             /\ {ReadCodec(r) : r \in Elems(mods)} = {CodecOf(dir) : dir \in CodecsOf(v)}
<1> DEFINE mods == Lookup([table |-> "codecMod", index |-> v, num |-> 0])
           dirs == CodecsIn(tree, v)
<1>1. IsSeq(mods) /\ CodecRows(tree, kextNums, cpp, mods, dirs)
  BY VendorTable
<1>2. CodecsOf(v) = dirs /\ dirs \subseteq DOMAIN tree.codecs
  BY DEF CodecsOf, CodecsIn
<1> HIDE DEF mods, dirs
<1>3. PICK order \in [DOMAIN mods -> dirs] :
        /\ \A i, j \in DOMAIN mods : order[i] = order[j] => i = j
        /\ \A dir \in dirs : \E i \in DOMAIN mods : order[i] = dir
        /\ \A i \in DOMAIN mods : CodecRow(tree, kextNums, cpp, mods[i], order[i])
  BY <1>1 DEF CodecRows
<1>4. DOMAIN mods = 1 .. Len(mods) /\ Len(mods) \in Nat
  BY <1>1, SeqFacts
<1>5. Len(mods) = Cardinality(dirs)
  <2>1. order \in Bijection(1 .. Len(mods), dirs)
    BY <1>3, <1>4 DEF Bijection, Injection, Surjection, IsInjective
  <2>2. ExistsBijection(1 .. Len(mods), dirs)
    BY <2>1 DEF ExistsBijection
  <2>3. IsFiniteSet(1 .. Len(mods)) /\ Cardinality(1 .. Len(mods)) = Len(mods)
    <3>1. \A m \in Nat : IsFiniteSet(1 .. m) /\ Cardinality(1 .. m) = m
      <4> SUFFICES ASSUME NEW m \in Nat PROVE IsFiniteSet(1 .. m) /\ Cardinality(1 .. m) = m
        OBVIOUS
      <4>1. IsFiniteSet(1 .. m) /\ Cardinality(1 .. m) = IF 1 > m THEN 0 ELSE m - 1 + 1
        BY FS_Interval
      <4> QED  BY <4>1
    <3> QED  BY <1>4, <3>1
  <2> QED  BY <2>2, <2>3, FS_Bijection
<1>6. \A i \in DOMAIN mods : order[i] \in dirs /\ ReadCodec(mods[i]) = CodecOf(order[i])
  BY <1>2, <1>3, CodecIsRead
<1>7. {ReadCodec(r) : r \in Elems(mods)} = {CodecOf(dir) : dir \in dirs}
  <2>1. \A i \in DOMAIN mods : \E dir \in dirs : ReadCodec(mods[i]) = CodecOf(dir)
    BY <1>6
  <2>2. \A dir \in dirs : \E i \in DOMAIN mods : ReadCodec(mods[i]) = CodecOf(dir)
    BY <1>3, <1>6
  <2> QED  BY <2>1, <2>2 DEF Elems
<1> QED  BY <1>2, <1>5, <1>7 DEF mods

(* The controllers are in the order of their array.                            *)
LEMMA ControllersAreRead ==
  ASSUME IInv, Faith, pc = "done", Compiles
  PROVE  [i \in DOMAIN ctrlModSection |-> ReadController(ctrlModSection[i])]
           = [i \in DOMAIN tree.controllers |-> ControllerOf(tree.controllers[i])]
<1>1. DOMAIN ctrlModSection = DOMAIN tree.controllers
  <2>1. DOMAIN ctrlModSection = 1 .. Len(ctrlModSection)
    BY SeqFacts DEF IInv, SectionsOK
  <2>2. DOMAIN tree.controllers = 1 .. Len(tree.controllers)
    BY TreesAssumption DEF IInv, MainOK, IsTree
  <2> QED  BY <2>1, <2>2 DEF Faith, ControllersRead
<1>2. \A i \in DOMAIN tree.controllers : ReadController(ctrlModSection[i]) = ControllerOf(tree.controllers[i])
  BY <1>1, ControllerIsRead DEF Faith, ControllersRead
<1> QED  BY <1>1, <1>2

(* The constants that kern_resources.hpp declares are there.                   *)
LEMMA HeaderIsMet ==
  ASSUME IInv, Faith, pc = "done", NEW id \in HeaderIds
  PROVE  \E i \in DOMAIN kextSection : kextSection[i].constant = id.name /\ kextSection[i].id = id
<1>1. /\ id.prefix \in {"com.apple.driver", "com.apple.iokit"}
      /\ \E name \in DOMAIN tree.kexts : tree.kexts[name].id = id
  BY HeaderAssumption DEF IInv, MainOK
<1>2. PICK name \in DOMAIN tree.kexts : tree.kexts[name].id = id
  BY <1>1
<1>3. name \in DOMAIN kextNums
  BY DEF Faith, KextsRead
<1>4. NormKextID(id) = id.name
  BY <1>1 DEF NormKextID
<1> QED  BY <1>2, <1>3, <1>4 DEF Faith, KextsRead

(* The file compiles exactly when C++ can be made of the plists.               *)
LEMMA CompilesWhenWellMade ==
  ASSUME IInv, Faith, pc = "done"
  PROVE  Compiles <=> WellMade
<1>1. Dicts = DictsIn(tree)
  <2>1. UNION {CodecsOf(v) : v \in DOMAIN tree.vendors}
          = {x \in DOMAIN tree.codecs : tree.codecs[x].vendor \in DOMAIN tree.vendors}
    BY DEF CodecsOf
  <2> QED  BY <2>1 DEF Dicts, DictsIn, Elems
<1>2. /\ DOMAIN kextNums = DOMAIN tree.kexts
      /\ \A name \in DOMAIN kextNums :
           /\ kextNums[name] + 1 \in DOMAIN kextSection
           /\ kextSection[kextNums[name] + 1].constant = NormKextID(tree.kexts[name].id)
      /\ \A i \in DOMAIN kextSection : \E name \in DOMAIN kextNums : kextNums[name] + 1 = i
      /\ \A j, k \in DOMAIN kextNums : kextNums[j] = kextNums[k] => j = k
      /\ \A k \in DOMAIN cpp : cpp[k].kind = "kextList" => cpp[k].body = kextSection
      /\ \E k \in DOMAIN cpp : cpp[k].kind = "kextList"
  BY DEF Faith, KextsRead
<1>3. \A name \in DOMAIN kextNums : kextNums[name] \in Nat
  BY SeqFacts DEF IInv, SectionsOK
<1>4. (\A j, k \in DOMAIN tree.kexts : NormKextID(tree.kexts[j].id) = NormKextID(tree.kexts[k].id) => j = k)
        <=> \A i, j \in DOMAIN kextSection : kextSection[i].constant = kextSection[j].constant => i = j
  <2>1. ASSUME \A j, k \in DOMAIN tree.kexts : NormKextID(tree.kexts[j].id) = NormKextID(tree.kexts[k].id) => j = k,
               NEW i \in DOMAIN kextSection, NEW j \in DOMAIN kextSection,
               kextSection[i].constant = kextSection[j].constant
        PROVE  i = j
    <3>1. PICK x \in DOMAIN kextNums : kextNums[x] + 1 = i
      BY <1>2
    <3>2. PICK y \in DOMAIN kextNums : kextNums[y] + 1 = j
      BY <1>2
    <3>3. NormKextID(tree.kexts[x].id) = NormKextID(tree.kexts[y].id)
      BY <1>2, <2>1, <3>1, <3>2
    <3>4. x = y
      BY <1>2, <2>1, <3>3
    <3> QED  BY <3>1, <3>2, <3>4
  <2>2. ASSUME \A i, j \in DOMAIN kextSection : kextSection[i].constant = kextSection[j].constant => i = j,
               NEW x \in DOMAIN tree.kexts, NEW y \in DOMAIN tree.kexts,
               NormKextID(tree.kexts[x].id) = NormKextID(tree.kexts[y].id)
        PROVE  x = y
    <3>1. kextNums[x] + 1 = kextNums[y] + 1
      BY <1>2, <2>2
    <3>2. kextNums[x] = kextNums[y]
      BY <1>2, <1>3, <3>1
    <3> QED  BY <1>2, <3>2
  <2> QED  BY <2>1, <2>2
<1>5. ASSUME Compiles  PROVE WellMade
  <2>1. ASSUME NEW dict \in Dicts, NEW p \in Elems(Listed(dict, "patches"))
        PROVE  SameLength(p) /\ Has(tree.kexts, p.name)
    <3>1. CASE \E dir \in DOMAIN tree.codecs : dict = tree.codecs[dir] /\ tree.codecs[dir].vendor \in DOMAIN tree.vendors
      <4>1. PICK dir \in DOMAIN tree.codecs : dict = tree.codecs[dir] /\ tree.codecs[dir].vendor \in DOMAIN tree.vendors
        BY <3>1
      <4> DEFINE v == tree.codecs[dir].vendor
                 mods == Lookup([table |-> "codecMod", index |-> v, num |-> 0])
      <4>2. dir \in CodecsIn(tree, v)
        BY DEF CodecsIn
      <4>3. CodecRows(tree, kextNums, cpp, mods, CodecsIn(tree, v))
        BY <4>1, VendorTable
      <4> HIDE DEF mods, v
      <4>4. PICK row : CodecRow(tree, kextNums, cpp, row, dir)
        BY <4>2, <4>3 DEF CodecRows
      <4> QED  BY <1>5, <2>1, <4>1, <4>4, PatchesAreRead DEF CodecRow
    <3>2. CASE \E i \in DOMAIN tree.controllers : dict = tree.controllers[i]
      <4>1. PICK i \in DOMAIN tree.controllers : dict = tree.controllers[i]
        BY <3>2
      <4>2. i \in DOMAIN ctrlModSection
        <5>1. DOMAIN ctrlModSection = 1 .. Len(ctrlModSection)
          BY SeqFacts DEF IInv, SectionsOK
        <5>2. DOMAIN tree.controllers = 1 .. Len(tree.controllers)
          BY TreesAssumption DEF IInv, MainOK, IsTree
        <5> QED  BY <5>1, <5>2 DEF Faith, ControllersRead
      <4>3. ControllerRow(tree, kextNums, cpp, ctrlModSection[i], dict)
        BY <4>1, <4>2 DEF Faith, ControllersRead
      <4> QED  BY <1>5, <2>1, <4>3, PatchesAreRead DEF ControllerRow
    <3> QED  BY <1>1, <3>1, <3>2 DEF DictsIn
  <2>2. \A i, j \in DOMAIN kextSection : kextSection[i].constant = kextSection[j].constant => i = j
    <3>1. PICK k \in DOMAIN cpp : cpp[k].kind = "kextList" /\ cpp[k].body = kextSection
      BY <1>2
    <3>2. ~Broken(cpp[k])
      BY <1>5 DEF Compiles
    <3> QED  BY <3>1, <3>2 DEF Broken
  <2> QED  BY <1>4, <2>1, <2>2 DEF WellMade
<1>6. ASSUME WellMade, NEW k \in DOMAIN cpp, Broken(cpp[k])  PROVE FALSE
  <2>1. CASE cpp[k].kind = "patches"
    <3>1. PICK d \in DictsIn(tree) : \E i \in DOMAIN Listed(d, "patches") : ~Usable(tree, Listed(d, "patches")[i])
      BY <1>6, <2>1 DEF Faith, PatchesJust
    <3>2. \E p \in Elems(Listed(d, "patches")) : ~Usable(tree, p)
      BY <3>1 DEF Elems
    <3> QED  BY <1>1, <1>6, <3>2 DEF WellMade, Usable
  <2>2. CASE cpp[k].kind = "kextList"
    <3>1. \A i, j \in DOMAIN kextSection : kextSection[i].constant = kextSection[j].constant => i = j
      BY <1>4, <1>6 DEF WellMade
    <3> QED  BY <1>2, <1>6, <2>2, <3>1 DEF Broken
  <2> QED  BY <1>6, <2>1, <2>2 DEF Broken
<1> QED  BY <1>5, <1>6 DEF Compiles

-----------------------------------------------------------------------------
(* The vendors.                                                               *)

\* Each row of the table of vendors is of a listed vendor, with its number.
VendorRows ==
  \A i \in DOMAIN vendorSection :
    /\ vendorSection[i].name \in DOMAIN tree.vendors
    /\ vendorSection[i].vendor = UShort(tree.vendors[vendorSection[i].name])

(* generateVendors, which only appends a row once a vendor's codecs are done.  *)
LEMMA VendorRowsInvariance == Spec => []VendorRows
<1>1. Init => VendorRows
  BY SeqFacts DEF Init, VendorRows
<1>2. ASSUME IInv, VendorRows, [Next]_vars  PROVE VendorRows'
  <2>1. CASE CodecsDone
    <3> DEFINE new == [name |-> vendor, vendor |-> UShort(tree.vendors[vendor]), num |-> Len(codecModSection)]
    <3>1. vendorSection' = Append(vendorSection, new) /\ tree' = tree /\ vendor \in DOMAIN tree.vendors
      BY <1>2, <2>1 DEF CodecsDone, IInv, MainOK
    <3>2. new.name = vendor /\ new.vendor = UShort(tree.vendors[vendor])
      OBVIOUS
    <3> HIDE DEF new
    <3>3. ASSUME NEW i \in DOMAIN vendorSection'
          PROVE  vendorSection'[i] = new \/ \E j \in DOMAIN vendorSection : vendorSection'[i] = vendorSection[j]
      BY <1>2, <3>1, <3>3, AppendFacts DEF IInv, MainOK
    <3>4. ASSUME NEW i \in DOMAIN vendorSection'
          PROVE  /\ vendorSection'[i].name \in DOMAIN tree.vendors
                 /\ vendorSection'[i].vendor = UShort(tree.vendors[vendorSection'[i].name])
      BY <1>2, <3>1, <3>2, <3>3, <3>4 DEF VendorRows
    <3> QED  BY <3>1, <3>4 DEF VendorRows
  <2>2. CASE ~CodecsDone
    <3>1. UNCHANGED <<tree, vendorSection>>
      BY <1>2, <2>2 DEF Next, vars, mainVars, dictVars, sections, GenerateKext, NextVendor, SkipCodec,
        StartCodec, StartController, StartDict, Visit, GenerateRevisions, GenerateFileRow, GeneratePatchRow,
        EndOfList, GenerateCodec, GenerateController, KextsDone, VendorsDone, ControllersDone, Go
    <3> QED  BY <1>2, <3>1 DEF VendorRows
  <2> QED  BY <2>1, <2>2
<1> QED  BY <1>1, <1>2, Invariance, PTL DEF Spec

(* So the table of a finished file has the vendors, and their numbers.         *)
LEMMA VendorsAreRead ==
  ASSUME IInv, Faith, VendorRows, pc = "done"
  PROVE  {<<row.name, row.vendor>> : row \in Elems(vendorSection)} = {<<v, tree.vendors[v]>> : v \in DOMAIN tree.vendors}
<1>1. \A v \in DOMAIN tree.vendors : tree.vendors[v] \in Ids
  BY TreesAssumption DEF IInv, MainOK, IsTree
<1>2. ASSUME NEW i \in DOMAIN vendorSection
      PROVE  /\ vendorSection[i].name \in DOMAIN tree.vendors
             /\ vendorSection[i].vendor = tree.vendors[vendorSection[i].name]
  BY <1>1, ShortIds DEF VendorRows
<1>3. \A v \in DOMAIN tree.vendors : \E i \in DOMAIN vendorSection : vendorSection[i].name = v
  BY DEF Faith, CodecsRead, Named
<1> QED  BY <1>2, <1>3 DEF Elems

-----------------------------------------------------------------------------
(* The theorems.                                                              *)

(* What generateFile and generatePatches remember is always the number of a    *)
(* definition in the file, and nothing has more rows than entries.             *)
THEOREM TypeCorrect == Spec => []TypeOK
<1>1. IInv => TypeOK
  <2> SUFFICES ASSUME IInv PROVE TypeOK
    OBVIOUS
  <2>1. ASSUME NEW p \in DOMAIN out.fileList  PROVE out.fileList[p] \in 0 .. out.next["file"] - 1
    <3>1. PICK j \in DOMAIN out.cpp :
            out.cpp[j] = [kind |-> "file", index |-> out.fileList[p], body |-> tree.files[p]]
      BY DEF IInv, Sound, FileListOK
    <3>2. out.cpp[j].kind = "file" /\ out.cpp[j].index = out.fileList[p]
      BY <3>1
    <3> QED  BY <3>2 DEF IInv, Sound, KindsOK, Kinds
  <2>2. ASSUME NEW b \in DOMAIN out.patchBufMap  PROVE out.patchBufMap[b] \in 0 .. out.next["patchBuf"] - 1
    <3>1. PICK j \in DOMAIN out.cpp :
            out.cpp[j] = [kind |-> "patchBuf", index |-> out.patchBufMap[b], body |-> b]
      BY DEF IInv, Sound, PatchBufMapOK
    <3>2. out.cpp[j].kind = "patchBuf" /\ out.cpp[j].index = out.patchBufMap[b]
      BY <3>1
    <3> QED  BY <3>2 DEF IInv, Sound, KindsOK, Kinds
  <2> QED  BY <2>1, <2>2 DEF IInv, TypeOK, MainOK, ListOK, SectionsOK, Sound, IsOutput, PatchBufMapOK, Lists
<1> QED  BY <1>1, Invariance, PTL

(* The file is C++ at every moment: every name is defined once, and every      *)
(* reference is to a definition above it of the length that it states.         *)
THEOREM DeclaredCorrect == Spec => []DeclaredBeforeUse
<1>1. IInv => DeclaredBeforeUse
  <2> SUFFICES ASSUME IInv, NEW k \in DOMAIN cpp
               PROVE  /\ Definitions(cpp[k].kind, cpp[k].index) = {k}
                      /\ \A r \in Refs(cpp[k]) \ {Nullptr} :
                           \E j \in Definitions(r.table, r.index) :
                             j < k /\ (Len(Elements(cpp[j])) = r.num \/ Broken(cpp[j]))
    BY DEF DeclaredBeforeUse
  <2>1. Definitions(cpp[k].kind, cpp[k].index) = {k}
    BY DEF IInv, Sound, Unique, Definitions, cpp
  <2>2. ASSUME NEW r \in Refs(cpp[k]), r # Nullptr
        PROVE  \E j \in Definitions(r.table, r.index) :
                 j < k /\ (Len(Elements(cpp[j])) = r.num \/ Broken(cpp[j]))
    BY <2>2 DEF IInv, Sound, RefsStand, Stands, Definitions, cpp
  <2> QED  BY <2>1, <2>2
<1> QED  BY <1>1, Invariance, PTL

(* No bytes of a patch and no file are written twice, however the codecs and   *)
(* controllers share them.                                                     *)
THEOREM NothingTwiceCorrect == Spec => []NothingTwice
<1>1. IInv => NothingTwice
  <2> SUFFICES ASSUME IInv PROVE NothingTwice
    OBVIOUS
  <2>1. ASSUME NEW j \in DOMAIN cpp, NEW k \in DOMAIN cpp,
               cpp[j].kind = "patchBuf", cpp[k].kind = "patchBuf", cpp[j].body = cpp[k].body
        PROVE  j = k
    <3>1. cpp[j].index = cpp[k].index
      BY <2>1 DEF IInv, Sound, PatchBufMapOK, cpp
    <3> QED  BY <2>1, <3>1 DEF IInv, Sound, Unique, cpp
  <2>2. Cardinality({k \in DOMAIN cpp : cpp[k].kind = "file"}) = Cardinality(DOMAIN out.fileList)
    BY DEF IInv, Sound, FileListOK, FileDefs, cpp
  <2> QED  BY <2>1, <2>2 DEF NothingTwice
<1> QED  BY <1>1, Invariance, PTL

(* Every file that the converter finishes says what the plists say, whatever   *)
(* the order it visited them in, and it compiles exactly when each patch is    *)
(* even and names a kext and no two kexts share a constant.                    *)
THEOREM TablesCorrect == Spec => []TablesFaithful
<1>1. IInv /\ Faith /\ VendorRows => TablesFaithful
  <2> SUFFICES ASSUME IInv, Faith, VendorRows, pc = "done"
               PROVE  FaithfulRows /\ (Compiles <=> WellMade)
    BY DEF TablesFaithful
  <2>1. FaithfulRows
    BY VendorsAreRead, VendorIsRead, ControllersAreRead, HeaderIsMet DEF FaithfulRows
  <2> QED  BY <2>1, CompilesWhenWellMade
<1> QED  BY <1>1, FaithInvariance, VendorRowsInvariance, PTL
=============================================================================
