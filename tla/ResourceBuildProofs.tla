------------------------- MODULE ResourceBuildProofs -------------------------
(***************************************************************************)
(* That a trusted output was earned and the records settle, for any number   *)
(* of files and edits, and wherever builds are killed or fail.              *)
(***************************************************************************)
EXTENDS ResourceBuild, TLAPS

Record == Content \cup {None}

\* The order in which a file comes to have its contents: texts grow, and a
\* text may be laid out once.
Leq(c, d) ==
  \/ c = d
  \/ c.text < d.text
  \/ c.text = d.text /\ c.styled = FALSE /\ d.styled = TRUE

Tasks == {"waiting", "stale", "writing", "made", "done", "failed"}

InWork(f) == pc = StageOf(f) /\ task[f] \in {"stale", "writing", "made"}

\* No text is older than the edit that made it.
TextsUsed ==
  \A f \in Files : content[f].text <= edits /\ digest[f].text <= edits /\ seen[f].text <= edits

\* Records are older than what they record, and Resources.md5 than the records.
Ordered ==
  \A f \in Files :
    /\ Leq(resourcesDigest[f], digest[f])
    /\ Leq(digest[f], content[f])
    /\ Leq(seen[f], content[f])
    /\ InWork(f) => Leq(digest[f], seen[f])

\* Nobody but the developer writes a layout or platform.
XmlsKept ==
  \A f \in Xmls :
    /\ digest[f].text = content[f].text => digest[f] = content[f]
    /\ seen[f].text = content[f].text => seen[f] = content[f]

\* A record that is current vouches for a packed file that is whole, or that
\* zlib.pl cut without a word.
PackedWhole ==
  \A f \in Xmls :
    /\ digest[f] = content[f] => packed[f] \in {content[f].text, Cut}
    /\ pc = "pack" /\ task[f] \in {"stale", "writing"} => digest[f] # content[f]
    /\ pc = "pack" /\ task[f] = "made" =>
         /\ packed[f] \notin {Absent, Partial}
         /\ seen[f] = content[f] => packed[f] \in {content[f].text, Cut}
    /\ pc # "idle" /\ task[f] = "done" => packed[f] \notin {Absent, Partial}

StagesDone ==
  /\ pc \in {"format", "collect", "convert", "append", "record"} => \A f \in Xmls : task[f] = "done"
  /\ pc \in {"collect", "convert", "append", "record"} => \A f \in Files : task[f] = "done"
  /\ \A f \in Files : pc # "idle" /\ task[f] = "done" => digest[f] # None
  /\ \A f \in Files : InWork(f) => seen[f] # None
  /\ pc = "pack" => \A f \in Plists : task[f] = "waiting"
  /\ \A f \in Xmls : pc = "pack" /\ task[f] \in {"writing", "made"} => packed[f] # Absent
  /\ pc \in {"convert", "append", "record"} => hash = digest

\* What an undisturbed build has seen or recorded is still what the file says,
\* and the output it makes is not lost.
Undisturbed ==
  pc # "idle" /\ ~disturbed =>
    /\ \A f \in Files :
         /\ task[f] = "done" => digest[f].text = content[f].text
         /\ InWork(f) => seen[f].text = content[f].text
         /\ InWork(f) /\ f \in Xmls => seen[f] = content[f]
    /\ pc \in {"append", "record"} => cpp.state # "absent"

\* What was converted is right wherever the record is.
Made(f) ==
  digest[f].text = content[f].text =>
    cpp.from[f] = content[f].text \/ (f \in Xmls /\ packed[f] = Cut)

\* Resources.md5 equal to the records means a whole output made for them.
OutputKnown ==
  /\ digest = resourcesDigest /\ ~orphaned /\ cpp.state # "absent" =>
       cpp.state = "complete" /\ \A f \in Files : Made(f)
  /\ cpp.state = "absent" /\ ~orphaned =>
       resourcesDigest = NoDigests \/ digest # resourcesDigest
  /\ pc \in {"convert", "append"} =>
       /\ digest # resourcesDigest \/ orphaned
       /\ \A f \in Files : cpp.from[f] # Unread => Made(f)
  /\ pc = "record" => cpp.state = "absent" \/ (cpp.state = "complete" /\ \A f \in Files : Made(f))

\* What holds as long as no file goes back to an older content.
Forward == Ordered /\ XmlsKept /\ PackedWhole /\ OutputKnown

IInv ==
  /\ TypeOK /\ TextsUsed /\ StagesDone /\ Undisturbed /\ TrustEarned
  /\ restored \/ Forward

(* Two contents each no later than the other are the same.                    *)
LEMMA LeqBetween ==
  ASSUME NEW c \in Record, NEW d \in Record, Leq(c, d), Leq(d, c)
  PROVE  c = d
BY BoundsAssumption DEF Record, Content, None, Leq

(* A record that is brought up to date with what was seen becomes equal to    *)
(* Resources.md5 only if it was equal before.                                 *)
LEMMA RecordingKeepsApart ==
  ASSUME TypeOK, Ordered, NEW f \in Files, RecordDigest(f), digest' = resourcesDigest
  PROVE  digest' = digest
<1>1. /\ digest \in [Files -> Record] /\ seen \in [Files -> Record]
      /\ resourcesDigest \in [Files -> Record]
  BY DEF TypeOK, Record
<1>2. digest' = [digest EXCEPT ![f] = seen[f]] /\ InWork(f)
  BY DEF RecordDigest, On, InWork
<1>3. Leq(resourcesDigest[f], digest[f]) /\ Leq(digest[f], seen[f])
  BY <1>2 DEF Ordered
<1>4. resourcesDigest[f] = seen[f]
  BY <1>1, <1>2
<1>5. seen[f] = digest[f]
  BY <1>1, <1>3, <1>4, LeqBetween
<1> QED
  BY <1>1, <1>2, <1>5

-----------------------------------------------------------------------------
(* One lemma for each part of the invariant: a step for each action that may   *)
(* disturb the part, and one for all the others.                               *)

\* PackedWhole is what says that no missing or half-written file is converted.
LEMMA TypeOKNext == ASSUME IInv, Next PROVE TypeOK'
<1>1. ASSUME NEW f \in Files, TakeDigest(f) PROVE TypeOK'
  BY <1>1 DEF IInv, TypeOK, TakeDigest, On, disk, history
<1>2. ASSUME NEW f \in Files, Deflate(f) PROVE TypeOK'
  BY <1>2 DEF IInv, TypeOK, Deflate, On, history, Content, Zlib
<1>3. ASSUME NEW f \in Files, Reformat(f) PROVE TypeOK'
  BY <1>3 DEF IInv, TypeOK, Reformat, On, history, Content
<1>4. ASSUME NEW f \in Files, RecordDigest(f) PROVE TypeOK'
  BY <1>4 DEF IInv, TypeOK, RecordDigest, On, history
<1>5. CASE TrustExisting
  BY <1>5 DEF IInv, TypeOK, TrustExisting, EndWell, disk
<1>6. ASSUME NEW f \in Files, ConvertFile(f) PROVE TypeOK'
  BY <1>6 DEF IInv, Forward, TypeOK, PackedWhole, StagesDone, ConvertFile, history, Content,
     Zlib, Absent, Partial
<1>7. CASE RemoveExisting
  BY <1>7 DEF IInv, TypeOK, RemoveExisting, NoCpp, Unread, Absent, Partial, history
<1>8. CASE CreateFile
  BY <1>8 DEF IInv, TypeOK, CreateFile, history
<1>9. CASE ConverterEnds
  BY <1>9 DEF IInv, TypeOK, ConverterEnds, history
<1>10. CASE RecordResources
  <2>1. quiet' \in 0 .. 3
    BY <1>10 DEF IInv, TypeOK, RecordResources, EndWell
  <2>2. /\ resourcesDigest' = hash /\ pc' = "idle" /\ outcome' = "built"
        /\ orphaned' \in BOOLEAN
        /\ UNCHANGED <<content, packed, digest, cpp, task, seen, hash>>
        /\ UNCHANGED <<disturbed, restored, edits, troubles>>
    BY <1>10 DEF RecordResources, EndWell
  <2> QED
    BY <2>1, <2>2 DEF IInv, TypeOK
<1>11. ASSUME NEW f \in Files, Edit(f) PROVE TypeOK'
  BY <1>11, BoundsAssumption DEF IInv, TypeOK, Edit, Writes, Content
<1>12. CASE Interrupt
  BY <1>12, BoundsAssumption DEF IInv, TypeOK, Interrupt, Trouble, disk
<1>13. CASE RemoveCpp
  BY <1>13, BoundsAssumption DEF IInv, TypeOK, RemoveCpp, Trouble, NoCpp, Unread, Absent, Partial
<1>14. CASE StartBuild
  BY <1>14 DEF IInv, TypeOK, StartBuild, disk
<1>15. ASSUME NEW f \in Files, OpenPacked(f) PROVE TypeOK'
  BY <1>15 DEF IInv, TypeOK, OpenPacked, On, history, Zlib
<1>16. CASE StageFails
  BY <1>16 DEF IInv, TypeOK, StageFails, BuildFails, disk
<1>17. CASE StageEnds
  BY <1>17 DEF IInv, TypeOK, StageEnds, disk, history
<1>18. ASSUME NEW f \in Files, ToolFails(f) PROVE TypeOK'
  BY <1>18, BoundsAssumption DEF IInv, TypeOK, ToolFails, On, Trouble, disk
<1>19. CASE ConverterFails
  BY <1>19, BoundsAssumption DEF IInv, TypeOK, ConverterFails, BuildFails, Trouble, disk
<1>r. ASSUME NEW f \in Files, Restore(f) PROVE TypeOK'
  BY <1>r, BoundsAssumption DEF IInv, TypeOK, Restore, Writes, Content
<1>s. ASSUME NEW f \in Files, DeflateFailsSilently(f) PROVE TypeOK'
  BY <1>s, BoundsAssumption DEF IInv, TypeOK, DeflateFailsSilently, On, Trouble, Zlib
<1>t. CASE CreateFailsSilently
  BY <1>t, BoundsAssumption DEF IInv, TypeOK, CreateFailsSilently, Trouble, disk
<1>u. CASE ConverterEndsWithout
  BY <1>u DEF IInv, TypeOK, ConverterEndsWithout, disk, history
<1> QED
  BY <1>r, <1>s, <1>t, <1>u, <1>1, <1>2, <1>3, <1>4, <1>5, <1>6, <1>7, <1>8, <1>9, <1>10, <1>11,
     <1>12, <1>13, <1>14, <1>15, <1>16, <1>17, <1>18, <1>19
     DEF Next, BuildStep

\* Only an edit brings a text, and counts itself.
LEMMA TextsUsedNext == ASSUME IInv, Next PROVE TextsUsed'
<1>1. ASSUME NEW f \in Files, TakeDigest(f) PROVE TextsUsed'
  BY <1>1 DEF IInv, TextsUsed, TakeDigest, disk, history
<1>2. ASSUME NEW f \in Files, Reformat(f) PROVE TextsUsed'
  BY <1>2 DEF IInv, TextsUsed, Reformat, history
<1>3. ASSUME NEW f \in Files, RecordDigest(f) PROVE TextsUsed'
  BY <1>3 DEF IInv, TextsUsed, RecordDigest, history
<1>4. ASSUME NEW f \in Files, Edit(f) PROVE TextsUsed'
  <2>1. PICK styled \in BOOLEAN :
          content' = [content EXCEPT ![f] = [text |-> edits + 1, styled |-> styled]]
    BY <1>4 DEF Edit, Writes
  <2>2. edits' = edits + 1 /\ UNCHANGED <<digest, seen>>
    BY <1>4 DEF Edit, Writes
  <2>3. content'[f].text = edits + 1
    BY <2>1 DEF IInv, TypeOK
  <2>4. \A g \in Files : g # f => content'[g] = content[g]
    BY <2>1 DEF IInv, TypeOK
  <2>5. \A g \in Files :
          content[g].text \in Int /\ digest[g].text \in Int /\ seen[g].text \in Int
    BY BoundsAssumption DEF IInv, TypeOK, Content, None
  <2>6. edits \in Int
    BY BoundsAssumption DEF IInv, TypeOK
  <2> QED
    BY <2>2, <2>3, <2>4, <2>5, <2>6 DEF IInv, TextsUsed
<1>5. ASSUME NEW f \in Files, OpenPacked(f) \/ Deflate(f) \/ ConvertFile(f) \/ ToolFails(f)
             \/ DeflateFailsSilently(f)
     PROVE  TextsUsed'
  BY <1>5 DEF IInv, TextsUsed, OpenPacked, Deflate, ConvertFile, ToolFails,
     DeflateFailsSilently, Trouble, disk, history
<1>6. CASE StartBuild \/ StageFails \/ StageEnds \/ TrustExisting \/ RemoveExisting
           \/ CreateFile \/ ConverterEnds \/ ConverterEndsWithout \/ CreateFailsSilently
           \/ RecordResources \/ ConverterFails \/ Interrupt \/ RemoveCpp
  BY <1>6 DEF IInv, TextsUsed, StartBuild, StageFails, StageEnds, TrustExisting, RemoveExisting,
     CreateFile, ConverterEnds, ConverterEndsWithout, CreateFailsSilently, Trouble,
     RecordResources, ConverterFails, Interrupt, RemoveCpp, BuildFails, EndWell, disk, history
<1>r. ASSUME NEW f \in Files, Restore(f) PROVE TextsUsed'
  <2>1. PICK text \in 0 .. edits, styled \in BOOLEAN :
          content' = [content EXCEPT ![f] = [text |-> text, styled |-> styled]]
    BY <1>r DEF Restore, Writes
  <2>2. edits' = edits + 1 /\ UNCHANGED <<digest, seen>>
    BY <1>r DEF Restore, Writes
  <2>3. content'[f].text = text /\ \A g \in Files : g # f => content'[g] = content[g]
    BY <2>1 DEF IInv, TypeOK
  <2>4. \A g \in Files :
          content[g].text \in Int /\ digest[g].text \in Int /\ seen[g].text \in Int
    BY BoundsAssumption DEF IInv, TypeOK, Content, None
  <2>5. edits \in Int
    BY BoundsAssumption DEF IInv, TypeOK
  <2> QED
    BY <2>2, <2>3, <2>4, <2>5 DEF IInv, TextsUsed
<1> QED
  BY <1>r, <1>1, <1>2, <1>3, <1>4, <1>5, <1>6 DEF Next, BuildStep

\* What is recorded was seen before, and what was seen was there.
LEMMA OrderedNext == ASSUME IInv, Next, ~restored, ~restored' PROVE Ordered'
<1>1. ASSUME NEW f \in Files, TakeDigest(f) PROVE Ordered'
  BY <1>1 DEF IInv, Forward, TypeOK, Ordered, TakeDigest, On, disk, InWork, Leq
<1>2. ASSUME NEW f \in Files, Reformat(f) PROVE Ordered'
  <2>1. pc = "format" /\ content[f] \in Content
    BY <1>2, FilesAssumption DEF IInv, TypeOK, Reformat, On, StageOf, Files
  <2>2. content'[f] = [text |-> content[f].text, styled |-> TRUE]
    BY <1>2 DEF IInv, TypeOK, Reformat
  <2>3. \A c \in Record : Leq(c, content[f]) => Leq(c, content'[f])
    BY <2>1, <2>2, BoundsAssumption DEF Leq, Content, Record, None
  <2>4. digest[f] \in Record /\ seen[f] \in Record
    BY DEF IInv, TypeOK, Record
  <2>5. \A g \in Files : g # f => content'[g] = content[g]
    BY <1>2 DEF IInv, TypeOK, Reformat
  <2>6. \A g \in Files : InWork(g)' => InWork(g)
    BY <1>2 DEF IInv, TypeOK, Reformat, On, InWork
  <2> QED
    BY <2>1, <2>3, <2>4, <2>5, <2>6, <1>2 DEF IInv, Forward, Ordered, Reformat, InWork
<1>3. ASSUME NEW f \in Files, RecordDigest(f) PROVE Ordered'
  BY <1>3 DEF IInv, Forward, TypeOK, Ordered, RecordDigest, On, Content, None, StageOf, InWork,
     Leq
<1>4. CASE StageEnds
  BY <1>4, FilesAssumption, BoundsAssumption DEF IInv, Forward, TypeOK, Ordered, StagesDone,
     StageEnds, StageFiles, disk, history, Files, StageOf, InWork
<1>5. CASE RemoveExisting
  BY <1>5 DEF IInv, Forward, Ordered, RemoveExisting, StageOf, InWork
<1>6. CASE RecordResources
  BY <1>6 DEF IInv, Forward, Ordered, StagesDone, RecordResources, EndWell, StageOf, InWork, Leq
<1>7. ASSUME NEW f \in Files, Edit(f) PROVE Ordered'
  <2>1. PICK styled \in BOOLEAN :
          content' = [content EXCEPT ![f] = [text |-> edits + 1, styled |-> styled]]
    BY <1>7 DEF Edit, Writes
  <2>2. digest[f].text < edits + 1 /\ seen[f].text < edits + 1
    BY DEF IInv, TypeOK, TextsUsed, Content, None
  <2>3. content'[f].text = edits + 1
    BY <2>1 DEF IInv, TypeOK
  <2>4. Leq(digest[f], content'[f]) /\ Leq(seen[f], content'[f])
    BY <2>2, <2>3 DEF Leq
  <2>5. \A g \in Files : g # f => content'[g] = content[g]
    BY <2>1 DEF IInv, TypeOK
  <2> QED
    BY <2>4, <2>5, <1>7 DEF IInv, Forward, Ordered, Edit, Writes, InWork
<1>8. ASSUME NEW f \in Files, OpenPacked(f) \/ Deflate(f) \/ ConvertFile(f) \/ ToolFails(f)
             \/ DeflateFailsSilently(f)
     PROVE  Ordered'
  BY <1>8 DEF IInv, Forward, TypeOK, Ordered, OpenPacked, Deflate, ConvertFile, ToolFails,
     DeflateFailsSilently, Trouble, On, disk, InWork
<1>9. CASE StartBuild \/ StageFails \/ TrustExisting \/ CreateFile \/ ConverterEnds
           \/ ConverterEndsWithout \/ CreateFailsSilently \/ ConverterFails \/ Interrupt
           \/ RemoveCpp
  BY <1>9 DEF IInv, Forward, Ordered, StartBuild, StageFails, TrustExisting, CreateFile,
     ConverterEnds, ConverterEndsWithout, CreateFailsSilently, Trouble, ConverterFails,
     Interrupt, RemoveCpp, BuildFails, EndWell, disk, StageOf, InWork
<1>r. ASSUME NEW f \in Files, Restore(f) PROVE Ordered'
  BY <1>r DEF Restore
<1> QED
  BY <1>r, <1>1, <1>2, <1>3, <1>4, <1>5, <1>6, <1>7, <1>8, <1>9 DEF Next, BuildStep

\* Only a table can be laid out anew.
LEMMA XmlsKeptNext == ASSUME IInv, Next, ~restored, ~restored' PROVE XmlsKept'
<1>1. ASSUME NEW f \in Files, TakeDigest(f) PROVE XmlsKept'
  BY <1>1 DEF IInv, Forward, XmlsKept, TakeDigest, disk
<1>2. ASSUME NEW f \in Files, Reformat(f) PROVE XmlsKept'
  BY <1>2, FilesAssumption DEF IInv, Forward, XmlsKept, Reformat
<1>3. ASSUME NEW f \in Files, RecordDigest(f) PROVE XmlsKept'
  BY <1>3 DEF IInv, Forward, XmlsKept, RecordDigest
<1>4. ASSUME NEW f \in Files, Edit(f) PROVE XmlsKept'
  BY <1>4 DEF IInv, Forward, TypeOK, TextsUsed, XmlsKept, Edit, Writes
<1>5. ASSUME NEW f \in Files, OpenPacked(f) \/ Deflate(f) \/ ConvertFile(f) \/ ToolFails(f)
             \/ DeflateFailsSilently(f)
     PROVE  XmlsKept'
  BY <1>5 DEF IInv, Forward, XmlsKept, OpenPacked, Deflate, ConvertFile, ToolFails,
     DeflateFailsSilently, Trouble, disk
<1>6. CASE StartBuild \/ StageFails \/ StageEnds \/ TrustExisting \/ RemoveExisting
           \/ CreateFile \/ ConverterEnds \/ ConverterEndsWithout \/ CreateFailsSilently
           \/ RecordResources \/ ConverterFails \/ Interrupt \/ RemoveCpp
  BY <1>6 DEF IInv, Forward, XmlsKept, StartBuild, StageFails, StageEnds, TrustExisting,
     RemoveExisting, CreateFile, ConverterEnds, ConverterEndsWithout, CreateFailsSilently,
     Trouble, RecordResources, ConverterFails, Interrupt, RemoveCpp, BuildFails, disk
<1>r. ASSUME NEW f \in Files, Restore(f) PROVE XmlsKept'
  BY <1>r DEF Restore
<1> QED
  BY <1>r, <1>1, <1>2, <1>3, <1>4, <1>5, <1>6 DEF Next, BuildStep

\* A record is written after the packed file it is for.
LEMMA PackedWholeNext == ASSUME IInv, Next, ~restored, ~restored' PROVE PackedWhole'
<1>1. CASE StartBuild
  BY <1>1 DEF IInv, Forward, PackedWhole, StartBuild, disk, Files, StageOf
<1>2. ASSUME NEW f \in Files, TakeDigest(f) PROVE PackedWhole'
  BY <1>2 DEF IInv, Forward, TypeOK, PackedWhole, TakeDigest, On, Current, disk, Content, None,
     Absent, Partial, Cut
<1>3. ASSUME NEW f \in Files, OpenPacked(f) PROVE PackedWhole'
  BY <1>3 DEF IInv, Forward, TypeOK, PackedWhole, OpenPacked, On, StageOf
<1>4. ASSUME NEW f \in Files, Deflate(f) PROVE PackedWhole'
  BY <1>4 DEF IInv, Forward, TypeOK, PackedWhole, Deflate, On, Content, Absent, Partial, Cut
<1>5. ASSUME NEW f \in Files, Reformat(f) PROVE PackedWhole'
  BY <1>5, FilesAssumption DEF IInv, Forward, PackedWhole, Reformat, On
<1>6. ASSUME NEW f \in Files, RecordDigest(f) PROVE PackedWhole'
  <2>1. \A g \in Files : g # f => digest'[g] = digest[g] /\ task'[g] = task[g]
    BY <1>6 DEF IInv, TypeOK, RecordDigest, On
  <2>2. CASE f \in Plists
    BY <2>1, <2>2, <1>6, FilesAssumption DEF IInv, Forward, PackedWhole, RecordDigest, Files,
       history
  <2>3. CASE f \in Xmls
    <3>1. /\ pc = "pack" /\ task[f] = "made" /\ task'[f] = "done"
          /\ digest'[f] = seen[f]
      BY <2>3, <1>6 DEF IInv, TypeOK, RecordDigest, On, StageOf
    <3>2. /\ packed[f] \notin {Absent, Partial}
          /\ seen[f] = content[f] => packed[f] \in {content[f].text, Cut}
      BY <2>3, <3>1 DEF IInv, Forward, PackedWhole
    <3> QED
      BY <2>1, <3>1, <3>2, <1>6 DEF IInv, Forward, PackedWhole, RecordDigest, Files, history
  <2> QED
    BY <2>2, <2>3 DEF Files
<1>7. CASE StageEnds
  BY <1>7 DEF IInv, Forward, PackedWhole, StageEnds, disk
<1>8. ASSUME NEW f \in Files, Edit(f) PROVE PackedWhole'
  BY <1>8 DEF IInv, Forward, TypeOK, TextsUsed, PackedWhole, Edit, Writes, StageOf
<1>9. ASSUME NEW f \in Files, ConvertFile(f) PROVE PackedWhole'
  BY <1>9 DEF IInv, Forward, PackedWhole, ConvertFile, StageOf
<1>10. CASE StageFails
  BY <1>10 DEF IInv, Forward, PackedWhole, StageFails, BuildFails, disk
<1>11. CASE TrustExisting
  BY <1>11 DEF IInv, Forward, PackedWhole, StagesDone, TrustExisting, disk, StageOf
<1>12. CASE RemoveExisting
  BY <1>12 DEF IInv, Forward, PackedWhole, RemoveExisting, StageOf
<1>13. CASE CreateFile
  BY <1>13 DEF IInv, Forward, PackedWhole, CreateFile, StageOf
<1>14. CASE ConverterEnds
  BY <1>14 DEF IInv, Forward, PackedWhole, ConverterEnds, StageOf
<1>15. CASE RecordResources
  BY <1>15 DEF IInv, Forward, PackedWhole, StagesDone, RecordResources, StageOf
<1>16. ASSUME NEW f \in Files, ToolFails(f) PROVE PackedWhole'
  BY <1>16 DEF IInv, Forward, PackedWhole, ToolFails, On, disk
<1>17. CASE ConverterFails
  BY <1>17 DEF IInv, Forward, PackedWhole, ConverterFails, BuildFails, disk, StageOf
<1>18. CASE Interrupt
  BY <1>18 DEF IInv, Forward, PackedWhole, Interrupt, disk, StageOf
<1>19. CASE RemoveCpp
  BY <1>19 DEF IInv, Forward, PackedWhole, RemoveCpp, StageOf
<1>r. ASSUME NEW f \in Files, Restore(f) PROVE PackedWhole'
  BY <1>r DEF Restore
<1>s. ASSUME NEW f \in Files, DeflateFailsSilently(f) PROVE PackedWhole'
  BY <1>s, BoundsAssumption DEF IInv, Forward, TypeOK, PackedWhole, DeflateFailsSilently, On,
     Absent, Partial, Cut
<1>t. CASE CreateFailsSilently \/ ConverterEndsWithout
  BY <1>t DEF IInv, Forward, PackedWhole, CreateFailsSilently, ConverterEndsWithout, disk, StageOf
<1> QED
  BY <1>s, <1>t, <1>r, <1>1, <1>2, <1>3, <1>4, <1>5, <1>6, <1>7, <1>8, <1>9, <1>10, <1>11,
     <1>12, <1>13, <1>14, <1>15, <1>16, <1>17, <1>18, <1>19
     DEF Next, BuildStep

\* A stage ends when all its files are done, and each is recorded by then.
LEMMA StagesDoneNext == ASSUME IInv, Next PROVE StagesDone'
<1>1. CASE StartBuild
  BY <1>1 DEF StagesDone, StartBuild, Files, InWork
<1>2. ASSUME NEW f \in Files, TakeDigest(f) PROVE StagesDone'
  BY <1>2, FilesAssumption DEF IInv, TypeOK, StagesDone, TakeDigest, On, Current, disk, Content,
     None, StageOf, InWork
<1>3. ASSUME NEW f \in Files, Reformat(f) PROVE StagesDone'
  BY <1>3 DEF IInv, StagesDone, Reformat, On, InWork
<1>4. ASSUME NEW f \in Files, RecordDigest(f) PROVE StagesDone'
  BY <1>4 DEF IInv, TypeOK, StagesDone, RecordDigest, On, InWork
<1>5. CASE StageEnds
  BY <1>5 DEF IInv, StagesDone, StageEnds, StageFiles, disk, Files, StageOf, InWork
<1>6. ASSUME NEW f \in Files, Edit(f) PROVE StagesDone'
  BY <1>6 DEF IInv, StagesDone, Edit, Writes, InWork
<1>7. ASSUME NEW f \in Files, OpenPacked(f) \/ Deflate(f) \/ ConvertFile(f) \/ ToolFails(f)
             \/ DeflateFailsSilently(f)
     PROVE  StagesDone'
  BY <1>7 DEF IInv, TypeOK, Content, Absent, Partial, Cut, StagesDone, OpenPacked, Deflate,
     ConvertFile, ToolFails, DeflateFailsSilently, Trouble, On, disk, Files, InWork
<1>8. CASE StageFails \/ TrustExisting \/ RemoveExisting \/ CreateFile \/ ConverterEnds
           \/ ConverterEndsWithout \/ CreateFailsSilently \/ RecordResources \/ ConverterFails
           \/ Interrupt \/ RemoveCpp
  BY <1>8 DEF IInv, StagesDone, StageFails, TrustExisting, RemoveExisting, CreateFile,
     ConverterEnds, ConverterEndsWithout, CreateFailsSilently, Trouble, RecordResources,
     ConverterFails, Interrupt, RemoveCpp, BuildFails, EndWell, disk, StageOf, InWork
<1>r. ASSUME NEW f \in Files, Restore(f) PROVE StagesDone'
  BY <1>r DEF IInv, StagesDone, Restore, Writes, InWork
<1> QED
  BY <1>r, <1>1, <1>2, <1>3, <1>4, <1>5, <1>6, <1>7, <1>8 DEF Next, BuildStep

\* Laying out keeps the text; only an edit changes it.
LEMMA UndisturbedNext == ASSUME IInv, Next PROVE Undisturbed'
<1>1. CASE StartBuild
  BY <1>1 DEF Undisturbed, StartBuild, InWork
<1>2. ASSUME NEW f \in Files, TakeDigest(f) PROVE Undisturbed'
  BY <1>2 DEF IInv, TypeOK, Undisturbed, TakeDigest, On, Current, disk, history, InWork
<1>3. ASSUME NEW f \in Files, Reformat(f) PROVE Undisturbed'
  BY <1>3, FilesAssumption DEF IInv, TypeOK, Undisturbed, Reformat, On, history, InWork
<1>4. ASSUME NEW f \in Files, RecordDigest(f) PROVE Undisturbed'
  BY <1>4 DEF IInv, TypeOK, Undisturbed, RecordDigest, On, history, InWork
<1>5. CASE StageEnds
  BY <1>5 DEF IInv, Undisturbed, StagesDone, StageEnds, disk, history, Files, StageOf, InWork
<1>6. ASSUME NEW f \in Files, Edit(f) PROVE Undisturbed'
  BY <1>6 DEF Undisturbed, Edit, Writes
<1>7. ASSUME NEW f \in Files, OpenPacked(f) \/ Deflate(f) \/ ConvertFile(f) \/ ToolFails(f)
             \/ DeflateFailsSilently(f)
     PROVE  Undisturbed'
  BY <1>7 DEF IInv, TypeOK, Undisturbed, OpenPacked, Deflate, ConvertFile, ToolFails,
     DeflateFailsSilently, Trouble, On, disk, history, InWork
<1>8. CASE StageFails \/ TrustExisting \/ RemoveExisting \/ CreateFile \/ ConverterEnds
           \/ ConverterEndsWithout \/ CreateFailsSilently \/ RecordResources \/ ConverterFails
           \/ Interrupt \/ RemoveCpp
  BY <1>8 DEF IInv, Undisturbed, StagesDone, StageFails, TrustExisting, RemoveExisting,
     CreateFile, ConverterEnds, ConverterEndsWithout, CreateFailsSilently, Trouble,
     RecordResources, ConverterFails, Interrupt, RemoveCpp, BuildFails, EndWell, history, InWork
<1>r. ASSUME NEW f \in Files, Restore(f) PROVE Undisturbed'
  BY <1>r DEF Undisturbed, Restore, Writes
<1> QED
  BY <1>r, <1>1, <1>2, <1>3, <1>4, <1>5, <1>6, <1>7, <1>8 DEF Next, BuildStep

\* Resources.md5 is written last, when the output is made.
LEMMA OutputKnownNext == ASSUME IInv, Next, ~restored, ~restored' PROVE OutputKnown'
<1>1. ASSUME NEW f \in Files, Reformat(f) PROVE OutputKnown'
  BY <1>1 DEF IInv, Forward, OutputKnown, Reformat, history, Made
<1>2. ASSUME NEW f \in Files, RecordDigest(f) PROVE OutputKnown'
  <2>1. digest' = resourcesDigest => digest' = digest
    BY <1>2, RecordingKeepsApart DEF IInv, Forward
  <2>2. /\ UNCHANGED <<content, packed, cpp, resourcesDigest, orphaned, pc>>
        /\ pc \in {"pack", "format"}
    BY <1>2 DEF RecordDigest, On, StageOf, history
  <2> QED
    BY <2>1, <2>2 DEF IInv, Forward, OutputKnown, Made
<1>3. CASE StageEnds
  BY <1>3 DEF IInv, Forward, OutputKnown, StageEnds, disk, history, Made
<1>4. CASE RemoveExisting
  <2>1. /\ UNCHANGED <<content, digest, resourcesDigest, orphaned>>
        /\ cpp' = NoCpp /\ pc = "collect" /\ pc' = "convert"
    BY <1>4 DEF RemoveExisting, history
  <2>2. digest # resourcesDigest \/ orphaned
    <3>1. CASE cpp.state = "absent"
      <4>1. PICK f \in Plists : TRUE
        BY FilesAssumption
      <4>2. digest[f] # None /\ NoDigests[f] = None
        BY <2>1, <4>1 DEF IInv, StagesDone, NoDigests, Files
      <4> QED
        BY <3>1, <4>2 DEF IInv, Forward, OutputKnown
    <3> QED
      BY <3>1, <1>4 DEF RemoveExisting, Trusted
  <2> QED
    BY <2>1, <2>2 DEF OutputKnown, NoCpp
<1>5. CASE CreateFile
  BY <1>5 DEF IInv, Forward, OutputKnown, CreateFile, history, StageOf, Made
<1>6. ASSUME NEW f \in Files, ConvertFile(f) PROVE OutputKnown'
  BY <1>6 DEF IInv, Forward, XmlsKept, PackedWhole, OutputKnown, ConvertFile, history,
     StagesDone, StageOf, Made
<1>7. CASE ConverterEnds
  BY <1>7 DEF IInv, Forward, OutputKnown, ConverterEnds, StageOf, Made
<1>8. CASE RecordResources
  BY <1>8 DEF IInv, Forward, OutputKnown, RecordResources, EndWell, StageOf, Made
<1>9. ASSUME NEW f \in Files, Edit(f) PROVE OutputKnown'
  BY <1>9 DEF IInv, Forward, TypeOK, TextsUsed, OutputKnown, Edit, Writes, StageOf, Made
<1>10. CASE RemoveCpp
  BY <1>10 DEF IInv, Forward, OutputKnown, RemoveCpp, NoCpp
<1>11. ASSUME NEW f \in Files, TakeDigest(f) \/ ToolFails(f) PROVE OutputKnown'
  BY <1>11 DEF IInv, Forward, OutputKnown, TakeDigest, ToolFails, Trouble, disk, history, Made
<1>p. ASSUME NEW f \in Files, OpenPacked(f) \/ Deflate(f) \/ DeflateFailsSilently(f)
     PROVE  OutputKnown'
  \* The record of a file that is being packed is not current.
  <2>1. /\ f \in Xmls /\ pc = "pack" /\ task[f] \in {"stale", "writing"}
        /\ UNCHANGED <<content, digest, cpp, resourcesDigest, pc, orphaned>>
        /\ \A g \in Xmls : g # f => packed'[g] = packed[g]
    BY <1>p DEF IInv, TypeOK, OpenPacked, Deflate, DeflateFailsSilently, On, StageOf, history
  <2>2. digest[f].text # content[f].text
    BY <2>1 DEF IInv, Forward, XmlsKept, PackedWhole
  <2>3. \A g \in Files : Made(g) => Made(g)'
    BY <2>1, <2>2 DEF Made
  <2> QED
    BY <2>1, <2>3 DEF IInv, Forward, OutputKnown
<1>12. CASE StartBuild \/ StageFails \/ TrustExisting \/ ConverterFails \/
          Interrupt
  BY <1>12 DEF IInv, Forward, OutputKnown, StartBuild, StageFails, TrustExisting,
     ConverterFails, Interrupt, BuildFails, EndWell, disk, Made
<1>r. ASSUME NEW f \in Files, Restore(f) PROVE OutputKnown'
  BY <1>r DEF Restore
<1>t. CASE CreateFailsSilently \/ ConverterEndsWithout
  BY <1>t DEF IInv, Forward, OutputKnown, CreateFailsSilently, ConverterEndsWithout, disk,
     history, Made
<1> QED
  BY <1>p, <1>t, <1>r, <1>1, <1>2, <1>3, <1>4, <1>5, <1>6, <1>7, <1>8, <1>9, <1>10, <1>11,
     <1>12
     DEF Next, BuildStep

\* A build ends well by trusting or by recording.
LEMMA TrustEarnedNext == ASSUME IInv, Next PROVE TrustEarned'
<1>1. CASE StartBuild
  BY <1>1 DEF TrustEarned, StartBuild
<1>2. ASSUME NEW f \in Files, Reformat(f) PROVE TrustEarned'
  BY <1>2 DEF IInv, TrustEarned, Reformat, history, CppFresh
<1>3. CASE StageFails
  BY <1>3 DEF TrustEarned, StageFails, BuildFails
<1>4. CASE TrustExisting
  BY <1>4 DEF IInv, Forward, StagesDone, Undisturbed, OutputKnown, TrustEarned, TrustExisting,
     EndWell, Trusted, disk, CppFresh, Made
<1>5. CASE RemoveExisting
  BY <1>5 DEF TrustEarned, RemoveExisting
<1>6. CASE CreateFile
  BY <1>6 DEF TrustEarned, CreateFile
<1>7. ASSUME NEW f \in Files, ConvertFile(f) PROVE TrustEarned'
  BY <1>7 DEF TrustEarned, ConvertFile
<1>8. CASE ConverterEnds
  BY <1>8 DEF TrustEarned, ConverterEnds
<1>9. CASE RecordResources
  BY <1>9 DEF IInv, Forward, StagesDone, Undisturbed, OutputKnown, TrustEarned, RecordResources,
     EndWell, CppFresh, Made
<1>10. ASSUME NEW f \in Files, Edit(f) PROVE TrustEarned'
  BY <1>10 DEF TrustEarned, Edit, Writes
<1>11. CASE RemoveCpp
  BY <1>11 DEF TrustEarned, RemoveCpp
<1>12. ASSUME NEW f \in Files,
             TakeDigest(f) \/ OpenPacked(f) \/ Deflate(f) \/ DeflateFailsSilently(f)
               \/ RecordDigest(f) \/ ToolFails(f)
     PROVE  TrustEarned'
  BY <1>12 DEF TrustEarned, TakeDigest, OpenPacked, Deflate, DeflateFailsSilently, RecordDigest,
     ToolFails, On, StageOf
<1>13. CASE StageEnds \/ ConverterFails \/ Interrupt
  BY <1>13 DEF TrustEarned, StageEnds, ConverterFails, Interrupt, BuildFails
<1>r. ASSUME NEW f \in Files, Restore(f) PROVE TrustEarned'
  BY <1>r DEF TrustEarned, Restore, Writes
<1>t. CASE CreateFailsSilently \/ ConverterEndsWithout
  BY <1>t DEF TrustEarned, CreateFailsSilently, ConverterEndsWithout
<1> QED
  BY <1>r, <1>t, <1>1, <1>2, <1>3, <1>4, <1>5, <1>6, <1>7, <1>8, <1>9, <1>10, <1>11,
     <1>12, <1>13
     DEF Next, BuildStep

-----------------------------------------------------------------------------

LEMMA InitIInv == Init => IInv
<1> SUFFICES ASSUME Init PROVE IInv
  OBVIOUS
<1> USE FilesAssumption, BoundsAssumption
      DEF Init, Files, Content, None, NoDigests, NoCpp, Absent, Partial, Unread
<1>1. TypeOK
  <2>1. 0 \in 0 .. MaxEdits /\ 0 \in 0 .. MaxTroubles /\ 0 \in 0 .. 3
    OBVIOUS
  <2>2. content \in [Files -> Content]
    BY <2>1
  <2>3. packed \in [Xmls -> Zlib]
    BY DEF Zlib
  <2>4. /\ cpp \in [state : {"absent", "partial", "complete"}, from : [Files -> {Unread} \cup Zlib]]
        /\ \A f \in Files : cpp.from[f] \notin {Absent, Partial}
    OBVIOUS
  <2>5. NoDigests \in [Files -> Content \cup {None}]
    OBVIOUS
  <2>6. task \in [Files -> {"waiting", "stale", "writing", "made", "done", "failed"}]
    OBVIOUS
  <2> QED
    BY <2>1, <2>2, <2>3, <2>4, <2>5, <2>6 DEF TypeOK
<1>2. TextsUsed /\ Ordered /\ XmlsKept
  BY DEF TextsUsed, Ordered, XmlsKept, Leq, InWork, StageOf
<1>3. PackedWhole /\ StagesDone /\ Undisturbed
  BY DEF PackedWhole, StagesDone, Undisturbed, InWork, StageOf
<1>4. OutputKnown /\ TrustEarned
  BY DEF OutputKnown, TrustEarned
<1> QED
  BY <1>1, <1>2, <1>3, <1>4 DEF IInv, Forward

\* Nothing undoes a restoration.
LEMMA ForwardBefore == ASSUME TypeOK, Next, ~restored' PROVE ~restored
<1>1. ASSUME NEW f \in Files PROVE ~Restore(f)
  BY DEF Restore
<1>2. CASE BuildStep
  BY <1>2 DEF BuildStep, StartBuild, TakeDigest, OpenPacked, Deflate, Reformat, RecordDigest,
     ConvertFile, StageFails, BuildFails, StageEnds, TrustExisting, RemoveExisting, CreateFile,
     ConverterEnds, ConverterEndsWithout, RecordResources, EndWell, history
<1>3. CASE CreateFailsSilently \/ ConverterFails \/ Interrupt \/ RemoveCpp
  BY <1>3 DEF CreateFailsSilently, ConverterFails, BuildFails, Interrupt, RemoveCpp
<1>4. CASE \E f \in Files : ToolFails(f) \/ DeflateFailsSilently(f) \/ Edit(f)
  BY <1>4 DEF ToolFails, DeflateFailsSilently, Edit
<1> QED
  BY <1>1, <1>2, <1>3, <1>4 DEF Next

LEMMA StepIInv == IInv /\ [Next]_vars => IInv'
<1> SUFFICES ASSUME IInv, [Next]_vars PROVE IInv'
  OBVIOUS
<1>1. CASE Next
  <2>1. TypeOK' /\ TextsUsed' /\ StagesDone' /\ Undisturbed' /\ TrustEarned'
    BY <1>1, TypeOKNext, TextsUsedNext, StagesDoneNext, UndisturbedNext, TrustEarnedNext
  <2>2. ASSUME ~restored' PROVE Forward'
    <3>1. ~restored
      BY <1>1, <2>2, ForwardBefore DEF IInv
    <3> QED
      BY <1>1, <2>2, <3>1, OrderedNext, XmlsKeptNext, PackedWholeNext, OutputKnownNext DEF Forward
  <2> QED
    BY <2>1, <2>2 DEF IInv
<1>2. CASE UNCHANGED vars
  <2> USE <1>2 DEF vars, disk, history
  <2>1. TypeOK' /\ TextsUsed' /\ StagesDone' /\ Undisturbed'
    BY DEF IInv, TypeOK, TextsUsed, StagesDone, Undisturbed, InWork
  <2>2. TrustEarned'
    BY DEF IInv, TrustEarned, CppFresh
  <2>3. ASSUME ~restored' PROVE Forward'
    <3> USE <2>3 DEF IInv, Forward
    <3>1. Ordered' /\ XmlsKept'
      BY DEF Ordered, XmlsKept, InWork
    <3>2. PackedWhole' /\ OutputKnown'
      BY DEF PackedWhole, OutputKnown, Made
    <3> QED
      BY <3>1, <3>2
  <2> QED
    BY <2>1, <2>2, <2>3 DEF IInv
<1> QED
  BY <1>1, <1>2

(* The invariant that holds the others: see its parts above.                  *)
THEOREM BuildInvariant == Spec => []IInv
<1> QED
  BY InitIInv, StepIInv, PTL DEF Spec

(* Every variable keeps its type; and while no file goes back to an older     *)
(* content, no .zlib is converted that is missing or that a dying zlib.pl or a  *)
(* killed build left half written, for any files, edits and troubles.         *)
THEOREM BuildTypeCorrect == Spec => []TypeOK
<1>1. IInv => TypeOK
  BY DEF IInv, Forward
<1> QED
  BY <1>1, BuildInvariant, PTL

(* A build that ends well and undisturbed leaves a whole kern_resources.cpp    *)
(* made of the sources as they are, wherever builds before it failed or were  *)
(* killed, for any files, edits and troubles; but for the files zlib.pl cut   *)
(* silently, and while neither the output was lost under a Resources.md5 that *)
(* still vouches for it nor any file was ever put back to an older content.   *)
THEOREM TrustCorrect == Spec => []TrustEarned
<1>1. IInv => TrustEarned
  BY DEF IInv, Forward
<1> QED
  BY <1>1, BuildInvariant, PTL

-----------------------------------------------------------------------------
(* How the records settle.                                                     *)

\* What the next build will do with a file: nothing, or to a plist nothing but
\* record it, because it is laid out already.
LaidOut(f) == Current(f) \/ (f \in Plists /\ content[f].styled)

\* A file that an undisturbed build is done with.
DoneOnce(f) ==
  pc # "idle" /\ ~disturbed =>
    /\ task[f] = "done" => LaidOut(f)
    /\ pc = "format" /\ f \in Plists /\ task[f] = "made" => content[f].styled

\* After one undisturbed build only plists are recorded, as they are; and the
\* build that does so leaves nothing to do.
SettledOnce(f) ==
  /\ LaidOut(f)
  /\ InWork(f) => f \in Plists /\ content[f].styled /\ seen[f] = content[f]
  /\ pc # "idle" /\ task[f] = "done" => Current(f)

\* After two, all records are current, and Resources.md5 is made of them.
SettledTwice ==
  /\ \A f \in Files : Current(f) /\ ~InWork(f)
  /\ digest = resourcesDigest /\ cpp.state # "absent" /\ pc \notin {"convert", "append", "record"}

SettleInv ==
  /\ \A f \in Files : DoneOnce(f)
  /\ quiet >= 1 => \A f \in Files : SettledOnce(f)
  /\ quiet >= 2 => SettledTwice
  /\ quiet >= 3 => outcome = "trusted"

LEMMA DoneOnceNext ==
  ASSUME IInv, SettleInv, Next, NEW g \in Files
  PROVE  DoneOnce(g)'
<1>0. DoneOnce(g)
  BY DEF SettleInv
<1>1. CASE StartBuild
  BY <1>1 DEF DoneOnce, StartBuild
<1>2. ASSUME NEW f \in Files, TakeDigest(f) PROVE DoneOnce(g)'
  BY <1>0, <1>2 DEF IInv, TypeOK, DoneOnce, TakeDigest, On, Current, LaidOut, disk, history
<1>3. ASSUME NEW f \in Files, Reformat(f) PROVE DoneOnce(g)'
  BY <1>0, <1>3 DEF IInv, TypeOK, DoneOnce, Reformat, On, Current, LaidOut, history
<1>4. ASSUME NEW f \in Files, RecordDigest(f) PROVE DoneOnce(g)'
  <2>1. CASE f # g
    BY <1>0, <1>4, <2>1 DEF IInv, TypeOK, DoneOnce, RecordDigest, On, Current, LaidOut, history
  <2>2. CASE f = g /\ g \in Plists
    BY <1>0, <1>4, <2>2, FilesAssumption DEF IInv, TypeOK, DoneOnce, RecordDigest, On, LaidOut,
       StageOf, history
  <2>3. CASE f = g /\ g \in Xmls
    <3>1. /\ pc = "pack" /\ task[g] = "made" /\ digest'[g] = seen[g] /\ task'[g] = "done"
          /\ UNCHANGED <<content, packed, pc, disturbed>>
      BY <1>4, <2>3 DEF IInv, TypeOK, RecordDigest, On, StageOf, history
    <3>2. ~disturbed => seen[g] = content[g]
      BY <2>3, <3>1 DEF IInv, Undisturbed, InWork, StageOf
    <3>3. packed[g] # Absent
      BY <2>3, <3>1 DEF IInv, StagesDone
    <3> QED
      BY <3>1, <3>2, <3>3 DEF DoneOnce, LaidOut, Current
  <2> QED
    BY <2>1, <2>2, <2>3 DEF Files
<1>5. ASSUME NEW f \in Files, OpenPacked(f) \/ Deflate(f) \/ DeflateFailsSilently(f) PROVE
             DoneOnce(g)'
  <2>1. /\ UNCHANGED <<content, digest, pc, disturbed>> /\ f \in Xmls /\ f \notin Plists
        /\ task[f] # "done" /\ task'[f] # "done"
        /\ g # f => task'[g] = task[g] /\ (g \in Xmls => packed'[g] = packed[g])
    BY <1>5, FilesAssumption DEF IInv, TypeOK, OpenPacked, Deflate, DeflateFailsSilently, On,
       history
  <2> QED
    BY <1>0, <2>1 DEF DoneOnce, LaidOut, Current
<1>6. ASSUME NEW f \in Files, ToolFails(f) PROVE DoneOnce(g)'
  BY <1>0, <1>6 DEF IInv, TypeOK, DoneOnce, ToolFails, On, Current, LaidOut, disk
<1>7. ASSUME NEW f \in Files, Edit(f) \/ Restore(f) PROVE DoneOnce(g)'
  BY <1>7 DEF DoneOnce, Edit, Restore, Writes
<1>8. CASE StageEnds
  BY <1>0, <1>8 DEF IInv, DoneOnce, StagesDone, StageEnds, Current, LaidOut, disk, history
<1>9. CASE StageFails \/ TrustExisting \/ RecordResources \/ ConverterFails \/ Interrupt \/
           RemoveCpp
  BY <1>9 DEF DoneOnce, StageFails, TrustExisting, RecordResources, ConverterFails, Interrupt,
     RemoveCpp, BuildFails, EndWell
<1>10. CASE RemoveExisting \/ CreateFile \/ ConverterEnds \/ ConverterEndsWithout \/
            CreateFailsSilently \/ \E f \in Files : ConvertFile(f)
  BY <1>0, <1>10 DEF DoneOnce, RemoveExisting, CreateFile, ConverterEnds, ConverterEndsWithout,
     CreateFailsSilently, ConvertFile, Current, LaidOut, disk, history
<1> QED
  BY <1>1, <1>2, <1>3, <1>4, <1>5, <1>6, <1>7, <1>8, <1>9, <1>10 DEF Next, BuildStep

\* An undisturbed build ends with every file done.
LEMMA EndsSettled ==
  ASSUME IInv, SettleInv, TrustExisting \/ RecordResources, ~disturbed, NEW g \in Files
  PROVE  LaidOut(g) /\ (quiet >= 1 => Current(g)) /\ ~InWork(g)
<1>1. pc \in {"collect", "record"}
  BY DEF TrustExisting, RecordResources
<1>2. task[g] = "done"
  BY <1>1 DEF IInv, StagesDone
<1>3. LaidOut(g)
  BY <1>1, <1>2 DEF SettleInv, DoneOnce
<1>4. quiet >= 1 => Current(g)
  BY <1>1, <1>2 DEF SettleInv, SettledOnce
<1> QED
  BY <1>2, <1>3, <1>4 DEF InWork

LEMMA SettledOnceNext ==
  ASSUME IInv, SettleInv, Next, quiet' >= 1, NEW g \in Files
  PROVE  SettledOnce(g)'
<1>t. quiet \in 0 .. 3
  BY DEF IInv, TypeOK
<1>1. CASE StartBuild
  <2>1. SettledOnce(g)
    BY <1>1 DEF SettleInv, StartBuild
  <2> QED
    BY <1>1, <2>1 DEF SettledOnce, StartBuild, LaidOut, Current, InWork, disk
<1>2. CASE TrustExisting \/ RecordResources
  <2>1. ~disturbed /\ pc' = "idle"
    BY <1>2 DEF TrustExisting, RecordResources, EndWell
  <2>2. LaidOut(g) /\ ~InWork(g)
    BY <1>2, <2>1, EndsSettled
  <2>3. UNCHANGED <<content, packed, digest>>
    BY <1>2 DEF TrustExisting, RecordResources, disk
  <2>4. ~InWork(g)'
    BY <2>1 DEF InWork, StageOf
  <2> QED
    BY <2>1, <2>2, <2>3, <2>4 DEF SettledOnce, LaidOut, Current
<1>3. CASE StageFails \/ ConverterFails \/ Interrupt \/ RemoveCpp \/ \E f \in Files : Edit(f) \/
           Restore(f)
  BY <1>3 DEF StageFails, ConverterFails, Interrupt, RemoveCpp, Edit, Restore, Writes, BuildFails
<1>4. ASSUME NEW f \in Files, TakeDigest(f) PROVE SettledOnce(g)'
  <2>1. SettledOnce(g) /\ seen \in [Files -> Record] /\ task \in [Files -> Tasks]
    BY <1>4 DEF SettleInv, TakeDigest, history, IInv, TypeOK, Record, Tasks
  <2>2. CASE f # g
    BY <1>4, <2>1, <2>2 DEF SettledOnce, TakeDigest, On, LaidOut, Current, InWork, disk, history
  <2>3. CASE f = g
    <3>1. /\ UNCHANGED <<content, packed, digest, pc>> /\ seen'[g] = content[g]
          /\ task'[g] = IF Current(g) THEN "done" ELSE "stale"
      BY <1>4, <2>1, <2>3 DEF TakeDigest, On, disk
    <3>2. LaidOut(g) => (g \in Plists /\ content[g].styled) \/ Current(g)
      BY DEF LaidOut
    <3>3. (LaidOut(g) <=> LaidOut(g)') /\ (Current(g) <=> Current(g)')
      BY <3>1 DEF LaidOut, Current
    <3> QED
      BY <2>1, <3>1, <3>2, <3>3 DEF SettledOnce, InWork
  <2> QED
    BY <2>2, <2>3
<1>5. ASSUME NEW f \in Files, OpenPacked(f) \/ Deflate(f) \/ DeflateFailsSilently(f) PROVE FALSE
  <2>1. SettledOnce(f) /\ InWork(f) /\ f \in Xmls
    BY <1>5 DEF SettleInv, OpenPacked, Deflate, DeflateFailsSilently, On, InWork, history
  <2> QED
    BY <2>1, FilesAssumption DEF SettledOnce
<1>6. ASSUME NEW f \in Files, Reformat(f) PROVE SettledOnce(g)'
  <2>1. SettledOnce(g) /\ SettledOnce(f) /\ content \in [Files -> Content] /\ task \in [Files -> Tasks]
    BY <1>6 DEF SettleInv, Reformat, history, IInv, TypeOK, Tasks
  <2>2. InWork(f) /\ task[f] = "stale" /\ f \in Plists
    BY <1>6 DEF Reformat, On, InWork
  <2>3. content[f].styled
    BY <2>1, <2>2 DEF SettledOnce
  <2>4. content' = content
    BY <1>6, <2>1, <2>3 DEF Reformat, Content
  <2> QED
    BY <1>6, <2>1, <2>2, <2>4 DEF SettledOnce, Reformat, On, LaidOut, Current, InWork, history
<1>7. ASSUME NEW f \in Files, RecordDigest(f) PROVE SettledOnce(g)'
  <2>1. SettledOnce(g) /\ SettledOnce(f) /\ digest \in [Files -> Record] /\ task \in [Files -> Tasks]
    BY <1>7 DEF SettleInv, RecordDigest, history, IInv, TypeOK, Record, Tasks
  <2>2. InWork(f)
    BY <1>7 DEF RecordDigest, On, InWork
  <2>3. f \in Plists /\ f \notin Xmls /\ seen[f] = content[f]
    BY <2>1, <2>2, FilesAssumption DEF SettledOnce
  <2> QED
    BY <1>7, <2>1, <2>2, <2>3 DEF SettledOnce, RecordDigest, On, LaidOut, Current, InWork, history
<1>8. ASSUME NEW f \in Files, ToolFails(f) PROVE SettledOnce(g)'
  <2>1. SettledOnce(g) /\ task \in [Files -> Tasks]
    BY <1>8 DEF SettleInv, ToolFails, IInv, TypeOK, Tasks
  <2> QED
    BY <1>8, <2>1 DEF SettledOnce, ToolFails, On, LaidOut, Current, InWork, disk
<1>9. CASE StageEnds
  <2>1. SettledOnce(g)
    BY <1>9 DEF SettleInv, StageEnds, history
  <2>2. pc' \in {"format", "collect"} /\ UNCHANGED <<content, packed, digest, task, seen>> /\ pc \in {"pack", "format"}
    BY <1>9 DEF StageEnds, disk
  <2>3. ~InWork(g)'
    <3>1. pc = "pack" => pc' = "format" /\ (g \in Plists => task[g] = "waiting")
      BY <1>9 DEF StageEnds, IInv, StagesDone
    <3>2. pc = "format" => pc' = "collect"
      BY <1>9 DEF StageEnds
    <3> QED
      BY <2>2, <3>1, <3>2 DEF InWork, StageOf, Files
  <2> QED
    BY <2>1, <2>2, <2>3 DEF SettledOnce, LaidOut, Current
<1>10. CASE RemoveExisting \/ CreateFile \/ ConverterEnds \/ ConverterEndsWithout \/
            CreateFailsSilently \/ \E f \in Files : ConvertFile(f)
  <2>1. SettledOnce(g)
    BY <1>10 DEF SettleInv, RemoveExisting, CreateFile, ConverterEnds, ConverterEndsWithout,
       CreateFailsSilently, ConvertFile, history
  <2>2. /\ UNCHANGED <<content, packed, digest, task, seen>>
        /\ pc \in {"collect", "convert", "append"}
        /\ pc' \in {"convert", "append", "record"}
    BY <1>10 DEF RemoveExisting, CreateFile, ConverterEnds, ConverterEndsWithout,
       CreateFailsSilently, ConvertFile, disk
  <2> QED
    BY <2>1, <2>2 DEF SettledOnce, LaidOut, Current, InWork, StageOf
<1> QED
  BY <1>1, <1>2, <1>3, <1>4, <1>5, <1>6, <1>7, <1>8, <1>9, <1>10 DEF Next, BuildStep

\* The third build finds nothing to do.
LEMMA SettledTwiceNext ==
  ASSUME IInv, SettleInv, Next, quiet' >= 2
  PROVE  SettledTwice' /\ (quiet' >= 3 => outcome' = "trusted")
<1>t. quiet \in 0 .. 3
  BY DEF IInv, TypeOK
<1>0. quiet >= 2 => SettledTwice /\ (quiet >= 3 => outcome = "trusted")
  BY DEF SettleInv
<1>1. CASE TrustExisting \/ RecordResources
  <2>1. ~disturbed /\ pc' = "idle" /\ quiet >= 1 /\ (quiet' >= 3 => quiet >= 2)
    BY <1>1, <1>t DEF TrustExisting, RecordResources, EndWell
  <2>2. UNCHANGED <<content, packed, digest, cpp>>
    BY <1>1 DEF TrustExisting, RecordResources, disk
  <2>3. \A g \in Files : Current(g)
    BY <1>1, <2>1, EndsSettled
  <2>4. ASSUME NEW g \in Files PROVE Current(g)' /\ ~InWork(g)'
    BY <2>1, <2>2, <2>3 DEF Current, InWork, StageOf
  <2>5. digest' = resourcesDigest' /\ cpp'.state # "absent"
    <3>1. CASE TrustExisting
      BY <3>1 DEF TrustExisting, Trusted, disk
    <3>2. CASE RecordResources
      BY <3>2, <2>1 DEF RecordResources, IInv, StagesDone, Undisturbed
    <3> QED
      BY <1>1, <3>1, <3>2
  <2>6. quiet' >= 3 => outcome' = "trusted"
    <3>1. CASE TrustExisting
      BY <3>1 DEF TrustExisting, EndWell
    <3>2. CASE RecordResources
      BY <3>2, <2>1, <1>0 DEF RecordResources, SettledTwice
    <3> QED
      BY <1>1, <3>1, <3>2
  <2> QED
    BY <2>1, <2>4, <2>5, <2>6 DEF SettledTwice
<1>2. CASE StageFails \/ ConverterFails \/ Interrupt \/ RemoveCpp \/ \E f \in Files : Edit(f) \/
           Restore(f)
  BY <1>2 DEF StageFails, ConverterFails, Interrupt, RemoveCpp, Edit, Restore, Writes, BuildFails
<1>3. CASE StartBuild
  <2>1. /\ SettledTwice /\ (quiet >= 3 => outcome = "trusted")
        /\ UNCHANGED <<content, packed, digest, cpp, resourcesDigest, quiet, outcome>> /\ pc' = "pack"
        /\ task' = [f \in Files |-> "waiting"]
    BY <1>0, <1>3 DEF StartBuild, disk
  <2> QED
    BY <2>1 DEF SettledTwice, Current, InWork
<1>4. ASSUME NEW f \in Files, TakeDigest(f) PROVE SettledTwice' /\ (quiet' >= 3 => outcome' = "trusted")
  <2>1. /\ SettledTwice /\ (quiet >= 3 => outcome = "trusted")
        /\ UNCHANGED <<content, packed, digest, cpp, resourcesDigest, quiet, outcome, pc>>
        /\ task' = [task EXCEPT ![f] = "done"]
    BY <1>0, <1>4 DEF TakeDigest, On, SettledTwice, disk, history
  <2>2. task \in [Files -> Tasks]
    BY DEF IInv, TypeOK, Tasks
  <2> QED
    BY <2>1, <2>2 DEF SettledTwice, Current, InWork
<1>5. ASSUME NEW f \in Files, OpenPacked(f) \/ Deflate(f) \/ DeflateFailsSilently(f)
             \/ Reformat(f) \/ RecordDigest(f) PROVE FALSE
  <2>1. InWork(f) /\ SettledTwice
    BY <1>0, <1>5 DEF OpenPacked, Deflate, DeflateFailsSilently, Reformat, RecordDigest, On,
       InWork, history
  <2> QED
    BY <2>1 DEF SettledTwice
<1>6. ASSUME NEW f \in Files, ToolFails(f) PROVE FALSE
  <2>1. InWork(f) /\ SettledTwice
    BY <1>0, <1>6 DEF ToolFails, On, InWork
  <2> QED
    BY <2>1 DEF SettledTwice
<1>7. CASE StageEnds
  <2>1. /\ SettledTwice /\ (quiet >= 3 => outcome = "trusted")
        /\ UNCHANGED <<content, packed, digest, cpp, resourcesDigest, quiet, outcome, task>>
        /\ pc' \in {"format", "collect"}
    BY <1>0, <1>7 DEF StageEnds, disk, history
  <2>2. ASSUME NEW g \in Files PROVE ~InWork(g)'
    <3>1. pc = "pack" => pc' = "format" /\ (g \in Plists => task[g] = "waiting")
      BY <1>7 DEF StageEnds, IInv, StagesDone
    <3>2. pc = "format" => pc' = "collect"
      BY <1>7 DEF StageEnds
    <3> QED
      BY <1>7, <2>1, <3>1, <3>2 DEF InWork, StageOf, Files, StageEnds
  <2> QED
    BY <2>1, <2>2 DEF SettledTwice, Current
<1>8. CASE RemoveExisting \/ CreateFile \/ ConverterEnds \/ ConverterEndsWithout \/
           CreateFailsSilently \/ \E f \in Files : ConvertFile(f)
  <2>1. SettledTwice
    BY <1>0, <1>8 DEF RemoveExisting, CreateFile, ConverterEnds, ConverterEndsWithout,
       CreateFailsSilently, ConvertFile, history
  <2> QED
    BY <1>8, <2>1 DEF SettledTwice, RemoveExisting, Trusted, CreateFile, ConverterEnds,
       ConverterEndsWithout, CreateFailsSilently, ConvertFile
<1> QED
  BY <1>1, <1>2, <1>3, <1>4, <1>5, <1>6, <1>7, <1>8 DEF Next, BuildStep

LEMMA SettleInvInit == Init => SettleInv
BY DEF Init, SettleInv, DoneOnce

LEMMA SettleInvStep == IInv /\ SettleInv /\ [Next]_vars => SettleInv'
<1> SUFFICES ASSUME IInv, SettleInv, [Next]_vars PROVE SettleInv'
  OBVIOUS
<1>1. CASE Next
  <2>1. \A g \in Files : DoneOnce(g)'
    BY <1>1, DoneOnceNext
  <2>2. quiet' >= 1 => \A g \in Files : SettledOnce(g)'
    BY <1>1, SettledOnceNext
  <2>3. quiet' >= 2 => SettledTwice' /\ (quiet' >= 3 => outcome' = "trusted")
    BY <1>1, SettledTwiceNext
  <2>4. quiet' \in 0 .. 3
    BY <1>1, TypeOKNext DEF TypeOK
  <2> QED
    BY <2>1, <2>2, <2>3, <2>4 DEF SettleInv
<1>2. CASE UNCHANGED vars
  BY <1>2 DEF vars, disk, history, SettleInv, DoneOnce, SettledOnce, SettledTwice, LaidOut,
     Current, InWork
<1> QED
  BY <1>1, <1>2

(* Of three undisturbed builds in a row the last has nothing to do, for any    *)
(* files and whatever was cut, lost, killed or put back before: the first may  *)
(* record the md5 of plists as they were before it laid them out, and the      *)
(* second may convert anew, but it leaves every record current (generate.sh,   *)
(* zlib_pack.command).                                                         *)
THEOREM SettleCorrect == Spec => []RecordsSettle
<1>1. SettleInv => RecordsSettle
  BY DEF SettleInv, RecordsSettle
<1> QED
  BY <1>1, BuildInvariant, SettleInvInit, SettleInvStep, PTL DEF Spec
=============================================================================
