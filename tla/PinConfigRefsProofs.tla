------------------------ MODULE PinConfigRefsProofs ------------------------
(***************************************************************************)
(* Proofs about PinConfigRefs, for any set of codecs.                       *)
(***************************************************************************)
EXTENDS PinConfigRefs, FiniteSetTheorems, TLAPS

USE PersonalityAssumption

-----------------------------------------------------------------------------
(* The objects, and what releasing one does to the counts.                    *)

LEMMA ObjectsApart ==
  ASSUME NEW o \in Owners, NEW p \in Owners
  PROVE  /\ List(o) \in Objects /\ Entry(o) \in Objects /\ OwnList(o) \in Objects /\ OwnEntry(o) \in Objects
         /\ List(o) = List(p) <=> o = p
         /\ Entry(o) = Entry(p) <=> o = p
         /\ OwnList(o) = OwnList(p) <=> o = p
         /\ OwnEntry(o) = OwnEntry(p) <=> o = p
         /\ List(o) # Entry(p) /\ List(o) # OwnList(p) /\ List(o) # OwnEntry(p)
         /\ Entry(o) # OwnList(p) /\ Entry(o) # OwnEntry(p) /\ OwnList(o) # OwnEntry(p)
BY DEF Objects, List, Entry, OwnList, OwnEntry

LEMMA ObjectsAre ==
  \A x \in Objects : \E o \in Owners : x \in {List(o), Entry(o), OwnList(o), OwnEntry(o)}
BY DEF Objects, List, Entry, OwnList, OwnEntry

Counts == [Objects -> Int]

LEMMA ReleasedList ==
  ASSUME NEW r \in Counts, NEW o \in Owners
  PROVE  /\ Released(r, List(o)) \in Counts
         /\ \A p \in Owners :
              /\ Released(r, List(o))[List(p)] = IF p = o THEN r[List(p)] - 1 ELSE r[List(p)]
              /\ Released(r, List(o))[Entry(p)] =
                   IF p = o /\ r[List(o)] = 1 THEN r[Entry(p)] - 1 ELSE r[Entry(p)]
              /\ Released(r, List(o))[OwnList(p)] = r[OwnList(p)]
              /\ Released(r, List(o))[OwnEntry(p)] = r[OwnEntry(p)]
<1>1. List(o)[1] = "list" /\ Content(List(o)) = Entry(o)
  BY DEF List, Content
<1>2. Released(r, List(o)) = IF r[List(o)] = 1
                             THEN [r EXCEPT ![List(o)] = 0, ![Entry(o)] = @ - 1]
                             ELSE [r EXCEPT ![List(o)] = @ - 1]
  BY <1>1 DEF Released
<1> QED
  BY <1>2, ObjectsApart DEF Counts

LEMMA ReleasedOwnList ==
  ASSUME NEW r \in Counts, NEW o \in Owners
  PROVE  /\ Released(r, OwnList(o)) \in Counts
         /\ \A p \in Owners :
              /\ Released(r, OwnList(o))[OwnList(p)] = IF p = o THEN r[OwnList(p)] - 1 ELSE r[OwnList(p)]
              /\ Released(r, OwnList(o))[OwnEntry(p)] =
                   IF p = o /\ r[OwnList(o)] = 1 THEN r[OwnEntry(p)] - 1 ELSE r[OwnEntry(p)]
              /\ Released(r, OwnList(o))[List(p)] = r[List(p)]
              /\ Released(r, OwnList(o))[Entry(p)] = r[Entry(p)]
<1>1. OwnList(o)[1] = "ownList" /\ Content(OwnList(o)) = OwnEntry(o)
  BY DEF OwnList, OwnEntry, Content
<1>2. Released(r, OwnList(o)) = IF r[OwnList(o)] = 1
                                THEN [r EXCEPT ![OwnList(o)] = 0, ![OwnEntry(o)] = @ - 1]
                                ELSE [r EXCEPT ![OwnList(o)] = @ - 1]
  BY <1>1 DEF Released
<1> QED
  BY <1>2, ObjectsApart DEF Counts

LEMMA ReleasedEntry ==
  ASSUME NEW r \in Counts, NEW o \in Owners
  PROVE  /\ Released(r, Entry(o)) = [r EXCEPT ![Entry(o)] = @ - 1]
         /\ Released(r, OwnEntry(o)) = [r EXCEPT ![OwnEntry(o)] = @ - 1]
BY DEF Released, Entry, OwnEntry

LEMMA WithObjectIs ==
  ASSUME NEW r, NEW o
  PROVE  /\ WithObject(r, List(o)) = [r EXCEPT ![List(o)] = 1, ![Entry(o)] = @ + 1]
         /\ WithObject(r, OwnList(o)) = [r EXCEPT ![OwnList(o)] = 1, ![OwnEntry(o)] = @ + 1]
BY DEF WithObject, Content, List, OwnList, Entry, OwnEntry

-----------------------------------------------------------------------------
(* The invariant: every count, exactly.                                       *)

One(b) == IF b THEN 1 ELSE 0

HasCopy == {"data", "list", "publish", "retain", "release", "reinit"}
HasList == {"publish", "retain", "release"}
Later == {"retain", "release", "reinit", "ownList", "own", "releaseOwn", "done"}

\* The list configDevice started with, and its entry.
FirstCounts ==
  /\ refs[List(Personality)] = elsewhere + One(current = Personality)
  /\ refs[Entry(Personality)] = One(refs[List(Personality)] > 0)
  /\ refs[OwnList(Personality)] = 0 /\ refs[OwnEntry(Personality)] = 0

\* What a hook has made: held by the hook while it works, by the property tables,
\* and, without end, by the retain that no release answers.
HookCounts(c) ==
  /\ refs[List(c)] = One(pc[c] \in HasList) + One(current = c)
  /\ pc[c] # "undefined" =>
       refs[Entry(c)] = One(pc[c] \in HasCopy) + One(c \in published /\ pc[c] # "retain")
                        + One(refs[List(c)] > 0)
  /\ pc[c] = "undefined" => refs[Entry(c)] >= 0
  /\ refs[OwnList(c)] = One(pc[c] \in {"own", "releaseOwn"}) + One(c \in own)
  /\ refs[OwnEntry(c)] = One(pc[c] \in {"ownList", "own"} \/ c \in own) + One(refs[OwnList(c)] > 0)

\* When a hook's lists are published, and whose list is read.
HookOrder(c) ==
  /\ c \in published => pc[c] \in Later
  /\ pc[c] \in {"retain", "release"} => c \in published
  /\ c \in own => pc[c] \in {"releaseOwn", "done"}
  /\ pc[c] = "releaseOwn" => c \in own
  /\ read[c] \in published \cup {Personality}
  /\ pc[c] = "undefined" =>
       IF read[c] = Personality THEN elsewhere = 0 /\ published \ {c} # {}
       ELSE Cardinality(published \ {c}) >= 2

Tables ==
  /\ refs \in Counts
  /\ elsewhere \in {0, 1}
  /\ published \subseteq Codecs /\ IsFiniteSet(published)
  /\ own \subseteq Codecs /\ renumbered \subseteq Codecs /\ reinit \in BOOLEAN
  /\ read \in [Codecs -> Owners] /\ pc \in [Codecs -> Pcs]
  /\ current \in published \cup {Personality}
  /\ current = Personality => published = {}

RefsInv ==
  /\ Tables
  /\ FirstCounts
  /\ \A c \in Codecs : HookCounts(c) /\ HookOrder(c)

-----------------------------------------------------------------------------
(* What the invariant says at once.                                           *)

\* Every count is a number, and what a hook still works on is there.
LEMMA CountsBounded ==
  ASSUME RefsInv, NEW o \in Owners
  PROVE  /\ refs[List(o)] >= 0 /\ refs[Entry(o)] >= 0
         /\ refs[OwnList(o)] >= 0 /\ refs[OwnEntry(o)] >= 0
<1>1. CASE o = Personality
  BY <1>1, ObjectsApart DEF RefsInv, Tables, FirstCounts, One, Counts
<1>2. CASE o \in Codecs
  <2>1. HookCounts(o) /\ refs \in Counts
    BY <1>2 DEF RefsInv, Tables
  <2> QED
    BY <2>1, ObjectsApart DEF HookCounts, One, Counts
<1> QED
  BY <1>1, <1>2 DEF Owners

\* What another hook has published keeps its entry.
LEMMA PublishedEntry ==
  ASSUME RefsInv, NEW o \in published
  PROVE  refs[Entry(o)] > 0
<1>1. o \in Codecs /\ HookCounts(o) /\ HookOrder(o) /\ refs \in Counts
  BY DEF RefsInv, Tables
<1>2. pc[o] \in Later
  BY <1>1 DEF HookOrder
<1> QED
  BY <1>1, <1>2, ObjectsApart DEF HookCounts, One, Counts, Later, HasCopy, Owners

\* A hook that has not published yet is not the one whose list it reads, and not
\* the one whose list configDevice has.
LEMMA NotYetPublished ==
  ASSUME RefsInv, NEW c \in Codecs, pc[c] \notin Later
  PROVE  c \notin published /\ current # c /\ read[c] # c
<1>1. c \notin published
  BY DEF RefsInv, HookOrder
<1>2. read[c] \in published \cup {Personality} /\ current \in published \cup {Personality}
  BY DEF RefsInv, HookOrder, Tables
<1> QED
  BY <1>1, <1>2

\* When the list a hook has in hand is gone, so is the claim that nobody
\* overtook it.
LEMMA ListGone ==
  ASSUME RefsInv, NEW c \in Codecs, pc[c] \notin Later, refs[List(read[c])] = 0
  PROVE  IF read[c] = Personality THEN elsewhere = 0 /\ published \ {c} # {}
         ELSE Cardinality(published \ {c}) >= 2
<1>1. c \notin published /\ current # c /\ read[c] # c
  BY NotYetPublished
<1>2. read[c] \in published \cup {Personality} /\ current \in published \cup {Personality}
  BY DEF RefsInv, HookOrder, Tables
<1>3. CASE read[c] = Personality
  <2>1. elsewhere = 0 /\ current # Personality
    BY <1>3 DEF RefsInv, FirstCounts, Tables, One
  <2> QED
    BY <2>1, <1>1, <1>2, <1>3
<1>4. CASE read[c] # Personality
  <2> DEFINE o == read[c]
  <2>1. o \in published /\ o \in Codecs /\ published # {}
    BY <1>2, <1>4 DEF RefsInv, Tables
  <2>2. HookCounts(o)
    BY <2>1 DEF RefsInv
  <2>3. current # o
    BY <2>2 DEF HookCounts, One
  <2>4. current \in published
    BY <2>1, <1>2 DEF RefsInv, Tables
  <2>5. {o, current} \subseteq published \ {c}
    BY <2>1, <2>4, <1>1
  <2>6. IsFiniteSet(published \ {c})
    BY FS_Difference DEF RefsInv, Tables
  <2>7. Cardinality({o, current}) = 2
    <3>1. IsFiniteSet({o}) /\ Cardinality({o}) = 1
      BY FS_Singleton
    <3>2. Cardinality({o} \cup {current}) = Cardinality({o}) + 1
      BY <3>1, <2>3, FS_AddElement
    <3>3. {o} \cup {current} = {o, current}
      OBVIOUS
    <3> QED
      BY <3>1, <3>2, <3>3
  <2>8. Cardinality({o, current}) <= Cardinality(published \ {c})
    BY <2>5, <2>6, FS_Subset
  <2>9. Cardinality(published \ {c}) \in Nat
    BY <2>6, FS_CardinalityType
  <2> QED
    BY <2>7, <2>8, <2>9, <1>4
<1> QED
  BY <1>3, <1>4

\* An entry a hook has found is gone only if it was that of the first list.
LEMMA EntryGone ==
  ASSUME RefsInv, NEW c \in Codecs, pc[c] \notin Later, refs[Entry(read[c])] = 0
  PROVE  read[c] = Personality /\ elsewhere = 0 /\ published \ {c} # {}
<1>1. read[c] \in published \cup {Personality}
  BY DEF RefsInv, HookOrder
<1>2. read[c] \notin published
  <2> SUFFICES ASSUME read[c] \in published PROVE FALSE
    OBVIOUS
  <2>1. refs[Entry(read[c])] > 0
    BY PublishedEntry
  <2> QED
    BY <2>1
<1>3. read[c] = Personality
  BY <1>1, <1>2
<1>4. refs[List(read[c])] = 0
  <2>1. ~(refs[List(Personality)] > 0)
    BY <1>3 DEF RefsInv, FirstCounts, One
  <2>2. refs[List(Personality)] >= 0 /\ refs[List(Personality)] \in Int
    BY CountsBounded, ObjectsApart DEF RefsInv, Tables, Counts, Owners
  <2> QED
    BY <2>1, <2>2, <1>3
<1> QED
  BY <1>3, <1>4, ListGone

-----------------------------------------------------------------------------
(* The invariant is inductive.                                                *)

LEMMA RefsInvInit == Init => RefsInv
<1> SUFFICES ASSUME Init PROVE RefsInv
  OBVIOUS
<1>1. refs \in Counts
  BY DEF Init, Counts
<1>2. \A o \in Owners : /\ refs[List(o)] = IF o = Personality THEN 1 + elsewhere ELSE 0
                        /\ refs[Entry(o)] = IF o = Personality THEN 1 ELSE 0
                        /\ refs[OwnList(o)] = 0 /\ refs[OwnEntry(o)] = 0
  <2> TAKE o \in Owners
  <2>1. List(o) = List(Personality) <=> o = Personality
    BY ObjectsApart DEF Owners
  <2>2. Entry(o) = Entry(Personality) <=> o = Personality
    BY ObjectsApart DEF Owners
  <2> QED
    BY <2>1, <2>2, ObjectsApart DEF Init, Owners
<1>3. Tables
  BY <1>1, FS_EmptySet DEF Init, Tables, Pcs, Owners
<1>4. FirstCounts
  BY <1>2 DEF Init, FirstCounts, One, Owners
<1>5. ASSUME NEW c \in Codecs PROVE HookCounts(c) /\ HookOrder(c)
  BY <1>2 DEF Init, HookCounts, HookOrder, One, HasCopy, HasList, Later, Owners
<1> QED
  BY <1>3, <1>4, <1>5 DEF RefsInv

\* A step that touches the place and the objects of one codec alone.
HookAlone(c, to) ==
  /\ pc' = [pc EXCEPT ![c] = to] /\ refs' \in Counts
  /\ elsewhere' = elsewhere /\ current' = current /\ published' = published /\ reinit' = reinit
  /\ own' \subseteq Codecs /\ \A d \in Codecs : d # c => (d \in own' <=> d \in own)
  /\ renumbered' \subseteq Codecs
  /\ read' \in [Codecs -> Owners] /\ \A d \in Codecs : d # c => read'[d] = read[d]
  /\ \A o \in Owners : o # c =>
       /\ refs'[List(o)] = refs[List(o)] /\ refs'[Entry(o)] = refs[Entry(o)]
       /\ refs'[OwnList(o)] = refs[OwnList(o)] /\ refs'[OwnEntry(o)] = refs[OwnEntry(o)]

LEMMA OneHook ==
  ASSUME RefsInv, NEW c \in Codecs, NEW to \in Pcs, HookAlone(c, to), HookCounts(c)', HookOrder(c)'
  PROVE  RefsInv'
<1>1. Tables'
  BY DEF RefsInv, Tables, HookAlone
<1>2. FirstCounts'
  <2>1. Personality \in Owners /\ Personality # c
    BY DEF Owners
  <2> QED
    BY <2>1 DEF RefsInv, FirstCounts, HookAlone
<1>3. ASSUME NEW d \in Codecs PROVE HookCounts(d)' /\ HookOrder(d)'
  <2>1. CASE d = c
    BY <2>1
  <2>2. CASE d # c
    <3>1. pc'[d] = pc[d] /\ d \in Owners
      BY <2>2 DEF RefsInv, Tables, Owners, HookAlone
    <3>2. HookCounts(d) /\ HookOrder(d)
      BY DEF RefsInv
    <3>3. HookCounts(d)'
      BY <2>2, <3>1, <3>2 DEF HookCounts, HookAlone
    <3>4. HookOrder(d)'
      BY <2>2, <3>1, <3>2 DEF HookOrder, HookAlone
    <3> QED
      BY <3>3, <3>4
  <2> QED
    BY <2>1, <2>2
<1> QED
  BY <1>1, <1>2, <1>3 DEF RefsInv

LEMMA RefsInvReads ==
  ASSUME RefsInv, NEW c \in Codecs, ReadList(c) \/ SearchList(c) \/ ReadData(c)
  PROVE  RefsInv'
<1>1. HookCounts(c) /\ HookOrder(c) /\ refs \in Counts /\ pc \in [Codecs -> Pcs]
  BY DEF RefsInv, Tables
<1>2. read \in [Codecs -> Owners] /\ own \subseteq Codecs /\ renumbered \subseteq Codecs
  BY DEF RefsInv, Tables
<1>3. current \in published \cup {Personality} /\ published \subseteq Codecs
  BY DEF RefsInv, Tables
<1>4. PICK to \in {"search", "done", "copy", "list"} :
         /\ pc' = [pc EXCEPT ![c] = to]
         /\ to = "list" <=> pc[c] = "data"
         /\ pc[c] \in {"start", "search", "data"}
  BY DEF ReadList, SearchList, ReadData, Step
<1>5. /\ read' \in [Codecs -> Owners] /\ \A d \in Codecs : d # c => read'[d] = read[d]
      /\ read'[c] \in published \cup {Personality}
  BY <1>1, <1>2, <1>3 DEF ReadList, SearchList, ReadData, HookOrder, Owners
<1>6. UNCHANGED <<refs, elsewhere, current, published, own, renumbered, reinit>>
  BY DEF ReadList, SearchList, ReadData
<1>7. pc'[c] = to /\ to \in Pcs
  BY <1>1, <1>4 DEF Pcs
<1>8. HookCounts(c)'
  BY <1>1, <1>4, <1>6, <1>7 DEF HookCounts, HasCopy, HasList, One
<1>9. HookOrder(c)'
  BY <1>1, <1>4, <1>5, <1>6, <1>7, NotYetPublished DEF HookOrder, Later
<1>alone. HookAlone(c, to)
  BY <1>1, <1>2, <1>4, <1>5, <1>6, <1>7 DEF HookAlone
<1> QED
  BY <1>alone, <1>7, <1>8, <1>9, OneHook

LEMMA RefsInvUseFreed ==
  ASSUME RefsInv, NEW c \in Codecs, UseFreed(c)
  PROVE  RefsInv'
<1>1. HookCounts(c) /\ HookOrder(c) /\ refs \in Counts /\ pc \in [Codecs -> Pcs]
  BY DEF RefsInv, Tables
<1>2. read \in [Codecs -> Owners] /\ own \subseteq Codecs /\ renumbered \subseteq Codecs
  BY DEF RefsInv, Tables
<1>3. /\ pc' = [pc EXCEPT ![c] = "undefined"] /\ pc'[c] = "undefined"
      /\ pc[c] \in {"search", "copy", "data"} /\ "undefined" \in Pcs
  BY <1>1 DEF UseFreed, Step, Pcs
<1>4. UNCHANGED <<refs, elsewhere, current, published, own, renumbered, reinit, read>>
  BY DEF UseFreed
<1>5. pc[c] \notin Later
  BY <1>3 DEF Later
<1>6. IF read[c] = Personality THEN elsewhere = 0 /\ published \ {c} # {}
      ELSE Cardinality(published \ {c}) >= 2
  BY <1>5, ListGone, EntryGone DEF UseFreed
<1>7. HookCounts(c)'
  <2>1. c \in Owners
    BY DEF Owners
  <2>2. refs[Entry(c)] >= 0
    BY <2>1, CountsBounded
  <2> QED
    BY <1>1, <1>3, <1>4, <2>2 DEF HookCounts, HasCopy, HasList, One
<1>8. HookOrder(c)'
  BY <1>1, <1>3, <1>4, <1>5, <1>6, NotYetPublished DEF HookOrder, Later
<1>alone. HookAlone(c, "undefined")
  BY <1>1, <1>2, <1>3, <1>4 DEF HookAlone
<1> QED
  BY <1>alone, <1>3, <1>7, <1>8, OneHook

LEMMA RefsInvCopyEntry ==
  ASSUME RefsInv, NEW c \in Codecs, CopyEntry(c)
  PROVE  RefsInv'
<1>1. HookCounts(c) /\ HookOrder(c) /\ refs \in Counts /\ pc \in [Codecs -> Pcs]
  BY DEF RefsInv, Tables
<1>2. read \in [Codecs -> Owners] /\ own \subseteq Codecs /\ renumbered \subseteq Codecs
  BY DEF RefsInv, Tables
<1>3. c \in Owners
  BY DEF Owners
<1>4. PICK to \in {"data", "done"} :
         /\ pc' = [pc EXCEPT ![c] = to] /\ pc[c] = "copy"
         /\ refs' = IF to = "data" THEN [refs EXCEPT ![Entry(c)] = 1] ELSE refs
  BY DEF CopyEntry, Step
<1>5. UNCHANGED <<elsewhere, current, published, own, renumbered, reinit, read>>
  BY DEF CopyEntry
<1>6. pc'[c] = to /\ to \in Pcs
  BY <1>1, <1>4 DEF Pcs
<1>7. c \notin published /\ current # c
  BY <1>4, NotYetPublished DEF Later
<1>8. refs' \in Counts
  BY <1>1, <1>3, <1>4, ObjectsApart DEF Counts
<1>9. \A o \in Owners :
        /\ refs'[List(o)] = refs[List(o)]
        /\ refs'[Entry(o)] = IF o = c /\ to = "data" THEN 1 ELSE refs[Entry(o)]
        /\ refs'[OwnList(o)] = refs[OwnList(o)] /\ refs'[OwnEntry(o)] = refs[OwnEntry(o)]
  BY <1>1, <1>3, <1>4, ObjectsApart DEF Counts
<1>10. HookCounts(c)'
  BY <1>1, <1>3, <1>4, <1>5, <1>6, <1>7, <1>9 DEF HookCounts, HasCopy, HasList, One
<1>11. HookOrder(c)'
  BY <1>1, <1>4, <1>5, <1>6, <1>7 DEF HookOrder, Later
<1>alone. HookAlone(c, to)
  BY <1>1, <1>2, <1>4, <1>5, <1>6, <1>8, <1>9 DEF HookAlone
<1> QED
  BY <1>alone, <1>6, <1>10, <1>11, OneHook

LEMMA RefsInvMakeList ==
  ASSUME RefsInv, NEW c \in Codecs, MakeList(c)
  PROVE  RefsInv'
<1>1. HookCounts(c) /\ HookOrder(c) /\ refs \in Counts /\ pc \in [Codecs -> Pcs]
  BY DEF RefsInv, Tables
<1>2. read \in [Codecs -> Owners] /\ own \subseteq Codecs /\ renumbered' \subseteq Codecs
  BY DEF RefsInv, Tables, MakeList
<1>3. c \in Owners
  BY DEF Owners
<1>4. PICK to \in {"publish", "reinit"} :
         /\ pc' = [pc EXCEPT ![c] = to] /\ pc[c] = "list"
         /\ refs' = IF to = "publish" THEN [refs EXCEPT ![List(c)] = 1, ![Entry(c)] = @ + 1] ELSE refs
  BY WithObjectIs DEF MakeList, Step
<1>5. UNCHANGED <<elsewhere, current, published, own, reinit, read>>
  BY DEF MakeList
<1>6. pc'[c] = to /\ to \in Pcs
  BY <1>1, <1>4 DEF Pcs
<1>7. c \notin published /\ current # c
  BY <1>4, NotYetPublished DEF Later
<1>8. refs' \in Counts
  BY <1>1, <1>3, <1>4, ObjectsApart DEF Counts
<1>9. \A o \in Owners :
        /\ refs'[List(o)] = IF o = c /\ to = "publish" THEN 1 ELSE refs[List(o)]
        /\ refs'[Entry(o)] = IF o = c /\ to = "publish" THEN refs[Entry(c)] + 1 ELSE refs[Entry(o)]
        /\ refs'[OwnList(o)] = refs[OwnList(o)] /\ refs'[OwnEntry(o)] = refs[OwnEntry(o)]
  BY <1>1, <1>3, <1>4, ObjectsApart DEF Counts
<1>10. HookCounts(c)'
  <2>1. refs[List(c)] = 0 /\ refs[Entry(c)] = 1
    BY <1>1, <1>4, <1>7 DEF HookCounts, HasCopy, HasList, One
  <2>2. refs'[List(c)] = One(to = "publish") /\ refs'[Entry(c)] = 1 + One(to = "publish")
    BY <1>3, <1>9, <2>1 DEF One
  <2>3. refs'[OwnList(c)] = refs[OwnList(c)] /\ refs'[OwnEntry(c)] = refs[OwnEntry(c)]
    BY <1>3, <1>9
  <2>4. /\ refs[OwnList(c)] = One(c \in own)
        /\ refs[OwnEntry(c)] = One(c \in own) + One(refs[OwnList(c)] > 0)
    BY <1>1, <1>4 DEF HookCounts, One
  <2> QED
    BY <1>5, <1>6, <1>7, <2>2, <2>3, <2>4 DEF HookCounts, HasCopy, HasList, One
<1>11. HookOrder(c)'
  BY <1>1, <1>4, <1>5, <1>6, <1>7 DEF HookOrder, Later
<1>alone. HookAlone(c, to)
  BY <1>1, <1>2, <1>4, <1>5, <1>6, <1>8, <1>9 DEF HookAlone
<1> QED
  BY <1>alone, <1>6, <1>10, <1>11, OneHook

\* The hook that publishes takes the count of the list configDevice had.
LEMMA RefsInvPublish ==
  ASSUME RefsInv, NEW c \in Codecs, Publish(c)
  PROVE  RefsInv'
<1> DEFINE r == [refs EXCEPT ![List(c)] = @ + 1]
<1>1. HookCounts(c) /\ HookOrder(c) /\ refs \in Counts /\ pc \in [Codecs -> Pcs]
  BY DEF RefsInv, Tables
<1>2. read \in [Codecs -> Owners] /\ published \subseteq Codecs /\ IsFiniteSet(published)
  BY DEF RefsInv, Tables
<1>3. c \in Owners /\ c # Personality /\ current \in Owners /\ current \in published \cup {Personality}
  BY DEF RefsInv, Tables, Owners
<1>4. /\ pc[c] = "publish" /\ pc' = [pc EXCEPT ![c] = "retain"] /\ "retain" \in Pcs
      /\ refs' = Released(r, List(current)) /\ current' = c /\ published' = published \cup {c}
      /\ UNCHANGED <<elsewhere, own, renumbered, reinit, read>>
  BY DEF Publish, Step, Pcs
<1>5. c \notin published /\ current # c
  BY <1>4, NotYetPublished DEF Later
<1>6. r \in Counts
  BY <1>1, <1>3, ObjectsApart DEF Counts
<1>7. \A o \in Owners : /\ r[List(o)] = IF o = c THEN refs[List(c)] + 1 ELSE refs[List(o)]
                        /\ r[Entry(o)] = refs[Entry(o)]
                        /\ r[OwnList(o)] = refs[OwnList(o)] /\ r[OwnEntry(o)] = refs[OwnEntry(o)]
  BY <1>1, <1>3, ObjectsApart DEF Counts
<1>8. refs' \in Counts
  BY <1>3, <1>4, <1>6, ReleasedList
<1>9. \A o \in Owners :
        /\ refs'[List(o)] = IF o = current THEN refs[List(o)] - 1
                            ELSE IF o = c THEN refs[List(o)] + 1 ELSE refs[List(o)]
        /\ refs'[Entry(o)] = IF o = current /\ refs[List(o)] = 1 THEN refs[Entry(o)] - 1 ELSE refs[Entry(o)]
        /\ refs'[OwnList(o)] = refs[OwnList(o)] /\ refs'[OwnEntry(o)] = refs[OwnEntry(o)]
  <2> TAKE o \in Owners
  <2> HIDE DEF r
  <2>1. /\ refs'[List(o)] = IF o = current THEN r[List(o)] - 1 ELSE r[List(o)]
        /\ refs'[Entry(o)] = IF o = current /\ r[List(current)] = 1 THEN r[Entry(o)] - 1 ELSE r[Entry(o)]
        /\ refs'[OwnList(o)] = r[OwnList(o)] /\ refs'[OwnEntry(o)] = r[OwnEntry(o)]
    BY <1>3, <1>4, <1>6, ReleasedList
  <2> QED
    BY <1>3, <1>5, <1>7, <2>1
<1>10. IsFiniteSet(published')
  BY <1>2, <1>4, FS_AddElement
<1>11. Tables'
  BY <1>1, <1>3, <1>4, <1>8, <1>10 DEF RefsInv, Tables
<1>12. FirstCounts'
  <2>1. Personality \in Owners
    BY DEF Owners
  <2>2. elsewhere \in {0, 1} /\ FirstCounts
    BY DEF RefsInv, Tables
  <2>3. /\ refs[List(Personality)] = elsewhere + One(current = Personality)
        /\ refs[Entry(Personality)] = One(refs[List(Personality)] > 0)
    BY <2>2 DEF FirstCounts
  <2>4. refs'[List(Personality)] = elsewhere
    BY <1>3, <1>9, <2>1, <2>2, <2>3 DEF One
  <2>5. refs'[Entry(Personality)] = One(elsewhere > 0)
    BY <1>3, <1>9, <2>1, <2>2, <2>3 DEF One
  <2>6. refs'[OwnList(Personality)] = 0 /\ refs'[OwnEntry(Personality)] = 0
    BY <1>9, <2>1, <2>2 DEF FirstCounts
  <2>7. One(current' = Personality) = 0
    BY <1>3, <1>4 DEF One
  <2> QED
    BY <1>4, <2>2, <2>4, <2>5, <2>6, <2>7 DEF FirstCounts
<1>13. ASSUME NEW d \in Codecs PROVE HookCounts(d)'
  <2>1. HookCounts(d) /\ HookOrder(d) /\ d \in Owners /\ d # Personality
    BY DEF RefsInv, Owners
  <2>2. CASE d = c
    <3>1. refs[List(c)] = 1 /\ refs[Entry(c)] = 2
      BY <1>1, <1>4, <1>5 DEF HookCounts, HasCopy, HasList, One
    <3>2. refs'[List(c)] = 2 /\ refs'[Entry(c)] = 2
      BY <1>3, <1>5, <1>9, <3>1
    <3>3. /\ refs[OwnList(c)] = One(c \in own)
          /\ refs[OwnEntry(c)] = One(c \in own) + One(refs[OwnList(c)] > 0)
      BY <1>1, <1>4 DEF HookCounts, One
    <3>4. pc'[c] = "retain"
      BY <1>1, <1>4
    <3>5. refs'[OwnList(c)] = refs[OwnList(c)] /\ refs'[OwnEntry(c)] = refs[OwnEntry(c)]
      BY <1>3, <1>9
    <3> QED
      BY <1>4, <2>2, <3>2, <3>3, <3>4, <3>5 DEF HookCounts, HasCopy, HasList, One
  <2>3. CASE d # c /\ d = current
    <3>1. d \in published /\ pc[d] \in Later /\ pc'[d] = pc[d] /\ d \in published'
      BY <1>1, <1>3, <1>4, <2>1, <2>3 DEF HookOrder
    <3>2. pc[d] # "undefined" /\ current' # d
      BY <1>4, <2>3, <3>1 DEF Later
    <3>3. /\ refs[List(d)] = One(pc[d] \in HasList) + 1
          /\ refs[Entry(d)] = One(pc[d] \in HasCopy) + One(d \in published /\ pc[d] # "retain") + 1
      BY <2>1, <2>3, <3>2 DEF HookCounts, One
    <3>4. /\ refs'[List(d)] = One(pc[d] \in HasList)
          /\ refs'[Entry(d)] = One(pc[d] \in HasCopy) + One(d \in published /\ pc[d] # "retain")
                               + One(refs'[List(d)] > 0)
      BY <1>9, <2>1, <2>3, <3>3 DEF One
    <3>5. refs'[OwnList(d)] = refs[OwnList(d)] /\ refs'[OwnEntry(d)] = refs[OwnEntry(d)]
      BY <1>9, <2>1
    <3>6. One(current' = d) = 0 /\ One(pc[d] \in HasList) \in Int
      BY <3>2 DEF One
    <3>7. (d \in published' /\ pc'[d] # "retain") <=> (d \in published /\ pc[d] # "retain")
      BY <3>1
    <3>8. /\ refs'[List(d)] = One(pc[d] \in HasList)' + One(current' = d)
          /\ refs'[Entry(d)] = One(pc[d] \in HasCopy)' + One(d \in published /\ pc[d] # "retain")'
                               + One(refs[List(d)] > 0)'
      BY <3>1, <3>4, <3>6, <3>7 DEF One
    <3>9. /\ refs'[OwnList(d)] = One(pc[d] \in {"own", "releaseOwn"})' + One(d \in own)'
          /\ refs'[OwnEntry(d)] = One(pc[d] \in {"ownList", "own"} \/ d \in own)' + One(refs[OwnList(d)] > 0)'
      BY <1>4, <2>1, <3>1, <3>5 DEF HookCounts
    <3> QED
      BY <3>1, <3>2, <3>8, <3>9 DEF HookCounts
  <2>4. CASE d # c /\ d # current
    <3>1. pc'[d] = pc[d] /\ (d \in published' <=> d \in published) /\ current' # d
      BY <1>1, <1>4, <2>4
    <3>2. /\ refs'[List(d)] = refs[List(d)] /\ refs'[Entry(d)] = refs[Entry(d)]
          /\ refs'[OwnList(d)] = refs[OwnList(d)] /\ refs'[OwnEntry(d)] = refs[OwnEntry(d)]
      BY <1>9, <2>1, <2>4
    <3> QED
      BY <1>4, <2>1, <2>4, <3>1, <3>2 DEF HookCounts, One
  <2> QED
    BY <2>2, <2>3, <2>4
<1>14. ASSUME NEW d \in Codecs PROVE HookOrder(d)'
  <2>1. HookOrder(d)
    BY DEF RefsInv
  <2>2. CASE d = c
    BY <1>1, <1>4, <2>1, <2>2 DEF HookOrder, Later
  <2>3. CASE d # c
    <3>1. pc'[d] = pc[d] /\ (d \in published' <=> d \in published)
      BY <1>1, <1>4, <2>3
    <3>2. published \ {d} \subseteq published' \ {d} /\ IsFiniteSet(published' \ {d})
      BY <1>4, <1>10, FS_Difference
    <3>3. /\ Cardinality(published \ {d}) \in Nat /\ Cardinality(published' \ {d}) \in Nat
          /\ Cardinality(published \ {d}) <= Cardinality(published' \ {d})
      BY <3>2, FS_Subset, FS_CardinalityType
    <3>4. (published \ {d} # {} => published' \ {d} # {})
          /\ (Cardinality(published \ {d}) >= 2 => Cardinality(published' \ {d}) >= 2)
      <4>1. published \ {d} # {} => published' \ {d} # {}
        BY <3>2
      <4>2. Cardinality(published \ {d}) >= 2 => Cardinality(published' \ {d}) >= 2
        BY <3>3
      <4> QED
        BY <4>1, <4>2
    <3> QED
      BY <1>4, <2>1, <3>1, <3>4 DEF HookOrder
  <2> QED
    BY <2>2, <2>3
<1> QED
  BY <1>11, <1>12, <1>13, <1>14 DEF RefsInv

LEMMA RefsInvRetainEntry ==
  ASSUME RefsInv, NEW c \in Codecs, RetainEntry(c)
  PROVE  RefsInv'
<1>1. HookCounts(c) /\ HookOrder(c) /\ refs \in Counts /\ pc \in [Codecs -> Pcs]
  BY DEF RefsInv, Tables
<1>2. read \in [Codecs -> Owners] /\ own \subseteq Codecs /\ renumbered \subseteq Codecs
  BY DEF RefsInv, Tables
<1>3. c \in Owners
  BY DEF Owners
<1>4. PICK to \in {"release"} :
         /\ pc' = [pc EXCEPT ![c] = to] /\ pc[c] = "retain"
         /\ refs' = [refs EXCEPT ![Entry(c)] = @ + 1]
  BY DEF RetainEntry, Step
<1>5. UNCHANGED <<elsewhere, current, published, own, renumbered, reinit, read>>
  BY DEF RetainEntry
<1>6. pc'[c] = to /\ to \in Pcs
  BY <1>1, <1>4 DEF Pcs
<1>7. refs' \in Counts
  BY <1>1, <1>3, <1>4, ObjectsApart DEF Counts
<1>8. \A o \in Owners :
        /\ refs'[List(o)] = refs[List(o)]
        /\ refs'[Entry(o)] = IF o = c THEN refs[Entry(o)] + 1 ELSE refs[Entry(o)]
        /\ refs'[OwnList(o)] = refs[OwnList(o)] /\ refs'[OwnEntry(o)] = refs[OwnEntry(o)]
  BY <1>1, <1>3, <1>4, ObjectsApart DEF Counts
<1>9. HookCounts(c)'
  <2>0. /\ c \in own => pc[c] \in {"releaseOwn", "done"}
        /\ pc[c] \in {"retain", "release"} => c \in published
        /\ refs[List(c)] = One(pc[c] \in HasList) + One(current = c)
        /\ refs[Entry(c)] = One(pc[c] \in HasCopy) + One(c \in published /\ pc[c] # "retain")
                            + One(refs[List(c)] > 0)
        /\ refs[OwnList(c)] = One(pc[c] \in {"own", "releaseOwn"}) + One(c \in own)
        /\ refs[OwnEntry(c)] = One(pc[c] \in {"ownList", "own"} \/ c \in own) + One(refs[OwnList(c)] > 0)
    BY <1>1, <1>4 DEF HookCounts, HookOrder
  <2>1. (refs[List(c)] = One(pc[c] \in HasList) + One(current = c))'
    BY <1>1, <1>3, <1>4, <1>5, <1>6, <1>8, <2>0 DEF HasCopy, HasList, One
  <2>2. (refs[Entry(c)] = One(pc[c] \in HasCopy) + One(c \in published /\ pc[c] # "retain")
                         + One(refs[List(c)] > 0))'
    BY <1>1, <1>3, <1>4, <1>5, <1>6, <1>8, <2>0 DEF HasCopy, HasList, One
  <2>3. (refs[OwnList(c)] = One(pc[c] \in {"own", "releaseOwn"}) + One(c \in own))'
    BY <1>1, <1>3, <1>4, <1>5, <1>6, <1>8, <2>0 DEF HasCopy, HasList, One
  <2>4. (refs[OwnEntry(c)] = One(pc[c] \in {"ownList", "own"} \/ c \in own) + One(refs[OwnList(c)] > 0))'
    BY <1>1, <1>3, <1>4, <1>5, <1>6, <1>8, <2>0 DEF HasCopy, HasList, One
  <2> QED
    BY <1>6, <2>1, <2>2, <2>3, <2>4 DEF HookCounts
<1>10. HookOrder(c)'
  BY <1>1, <1>4, <1>5, <1>6 DEF HookOrder, Later
<1>alone. HookAlone(c, to)
  BY <1>1, <1>2, <1>4, <1>5, <1>6, <1>7, <1>8 DEF HookAlone
<1> QED
  BY <1>alone, <1>6, <1>9, <1>10, OneHook

LEMMA RefsInvReleaseList ==
  ASSUME RefsInv, NEW c \in Codecs, ReleaseList(c)
  PROVE  RefsInv'
<1>1. HookCounts(c) /\ HookOrder(c) /\ refs \in Counts /\ pc \in [Codecs -> Pcs]
  BY DEF RefsInv, Tables
<1>2. read \in [Codecs -> Owners] /\ own \subseteq Codecs /\ renumbered \subseteq Codecs
  BY DEF RefsInv, Tables
<1>3. c \in Owners
  BY DEF Owners
<1>4. PICK to \in {"reinit"} :
         /\ pc' = [pc EXCEPT ![c] = to] /\ pc[c] = "release"
         /\ refs' = Released(refs, List(c))
  BY DEF ReleaseList, Step
<1>5. UNCHANGED <<elsewhere, current, published, own, renumbered, reinit, read>>
  BY DEF ReleaseList
<1>6. pc'[c] = to /\ to \in Pcs
  BY <1>1, <1>4 DEF Pcs
<1>7. refs' \in Counts
  BY <1>1, <1>3, <1>4, ReleasedList
<1>8. \A o \in Owners :
        /\ refs'[List(o)] = IF o = c THEN refs[List(o)] - 1 ELSE refs[List(o)]
        /\ refs'[Entry(o)] = IF o = c /\ refs[List(c)] = 1 THEN refs[Entry(o)] - 1 ELSE refs[Entry(o)]
        /\ refs'[OwnList(o)] = refs[OwnList(o)] /\ refs'[OwnEntry(o)] = refs[OwnEntry(o)]
  BY <1>1, <1>3, <1>4, ReleasedList
<1>9. HookCounts(c)'
  <2>0. /\ c \in own => pc[c] \in {"releaseOwn", "done"}
        /\ pc[c] \in {"retain", "release"} => c \in published
        /\ refs[List(c)] = One(pc[c] \in HasList) + One(current = c)
        /\ refs[Entry(c)] = One(pc[c] \in HasCopy) + One(c \in published /\ pc[c] # "retain")
                            + One(refs[List(c)] > 0)
        /\ refs[OwnList(c)] = One(pc[c] \in {"own", "releaseOwn"}) + One(c \in own)
        /\ refs[OwnEntry(c)] = One(pc[c] \in {"ownList", "own"} \/ c \in own) + One(refs[OwnList(c)] > 0)
    BY <1>1, <1>4 DEF HookCounts, HookOrder
  <2>1. (refs[List(c)] = One(pc[c] \in HasList) + One(current = c))'
    BY <1>1, <1>3, <1>4, <1>5, <1>6, <1>8, <2>0 DEF HasCopy, HasList, One
  <2>2. (refs[Entry(c)] = One(pc[c] \in HasCopy) + One(c \in published /\ pc[c] # "retain")
                         + One(refs[List(c)] > 0))'
    BY <1>1, <1>3, <1>4, <1>5, <1>6, <1>8, <2>0 DEF HasCopy, HasList, One
  <2>3. (refs[OwnList(c)] = One(pc[c] \in {"own", "releaseOwn"}) + One(c \in own))'
    BY <1>1, <1>3, <1>4, <1>5, <1>6, <1>8, <2>0 DEF HasCopy, HasList, One
  <2>4. (refs[OwnEntry(c)] = One(pc[c] \in {"ownList", "own"} \/ c \in own) + One(refs[OwnList(c)] > 0))'
    BY <1>1, <1>3, <1>4, <1>5, <1>6, <1>8, <2>0 DEF HasCopy, HasList, One
  <2> QED
    BY <1>6, <2>1, <2>2, <2>3, <2>4 DEF HookCounts
<1>10. HookOrder(c)'
  BY <1>1, <1>4, <1>5, <1>6 DEF HookOrder, Later
<1>alone. HookAlone(c, to)
  BY <1>1, <1>2, <1>4, <1>5, <1>6, <1>7, <1>8 DEF HookAlone
<1> QED
  BY <1>alone, <1>6, <1>9, <1>10, OneHook

LEMMA RefsInvNoReinit ==
  ASSUME RefsInv, NEW c \in Codecs, NoReinit(c)
  PROVE  RefsInv'
<1>1. HookCounts(c) /\ HookOrder(c) /\ refs \in Counts /\ pc \in [Codecs -> Pcs]
  BY DEF RefsInv, Tables
<1>2. read \in [Codecs -> Owners] /\ own \subseteq Codecs /\ renumbered \subseteq Codecs
  BY DEF RefsInv, Tables
<1>3. c \in Owners
  BY DEF Owners
<1>4. PICK to \in {"done"} :
         /\ pc' = [pc EXCEPT ![c] = to] /\ pc[c] = "reinit"
         /\ refs' = [refs EXCEPT ![Entry(c)] = @ - 1]
  BY <1>1, <1>3, ReleasedEntry DEF NoReinit, Step
<1>5. UNCHANGED <<elsewhere, current, published, own, renumbered, reinit, read>>
  BY DEF NoReinit
<1>6. pc'[c] = to /\ to \in Pcs
  BY <1>1, <1>4 DEF Pcs
<1>7. refs' \in Counts
  BY <1>1, <1>3, <1>4, ObjectsApart DEF Counts
<1>8. \A o \in Owners :
        /\ refs'[List(o)] = refs[List(o)]
        /\ refs'[Entry(o)] = IF o = c THEN refs[Entry(o)] - 1 ELSE refs[Entry(o)]
        /\ refs'[OwnList(o)] = refs[OwnList(o)] /\ refs'[OwnEntry(o)] = refs[OwnEntry(o)]
  BY <1>1, <1>3, <1>4, ObjectsApart DEF Counts
<1>9. HookCounts(c)'
  <2>0. /\ c \in own => pc[c] \in {"releaseOwn", "done"}
        /\ pc[c] \in {"retain", "release"} => c \in published
        /\ refs[List(c)] = One(pc[c] \in HasList) + One(current = c)
        /\ refs[Entry(c)] = One(pc[c] \in HasCopy) + One(c \in published /\ pc[c] # "retain")
                            + One(refs[List(c)] > 0)
        /\ refs[OwnList(c)] = One(pc[c] \in {"own", "releaseOwn"}) + One(c \in own)
        /\ refs[OwnEntry(c)] = One(pc[c] \in {"ownList", "own"} \/ c \in own) + One(refs[OwnList(c)] > 0)
    BY <1>1, <1>4 DEF HookCounts, HookOrder
  <2>1. (refs[List(c)] = One(pc[c] \in HasList) + One(current = c))'
    BY <1>1, <1>3, <1>4, <1>5, <1>6, <1>8, <2>0 DEF HasCopy, HasList, One
  <2>2. (refs[Entry(c)] = One(pc[c] \in HasCopy) + One(c \in published /\ pc[c] # "retain")
                         + One(refs[List(c)] > 0))'
    BY <1>1, <1>3, <1>4, <1>5, <1>6, <1>8, <2>0 DEF HasCopy, HasList, One
  <2>3. (refs[OwnList(c)] = One(pc[c] \in {"own", "releaseOwn"}) + One(c \in own))'
    BY <1>1, <1>3, <1>4, <1>5, <1>6, <1>8, <2>0 DEF HasCopy, HasList, One
  <2>4. (refs[OwnEntry(c)] = One(pc[c] \in {"ownList", "own"} \/ c \in own) + One(refs[OwnList(c)] > 0))'
    BY <1>1, <1>3, <1>4, <1>5, <1>6, <1>8, <2>0 DEF HasCopy, HasList, One
  <2> QED
    BY <1>6, <2>1, <2>2, <2>3, <2>4 DEF HookCounts
<1>10. HookOrder(c)'
  BY <1>1, <1>4, <1>5, <1>6 DEF HookOrder, Later
<1>alone. HookAlone(c, to)
  BY <1>1, <1>2, <1>4, <1>5, <1>6, <1>7, <1>8 DEF HookAlone
<1> QED
  BY <1>alone, <1>6, <1>9, <1>10, OneHook

LEMMA RefsInvCopyAgain ==
  ASSUME RefsInv, NEW c \in Codecs, CopyAgain(c)
  PROVE  RefsInv'
<1>1. HookCounts(c) /\ HookOrder(c) /\ refs \in Counts /\ pc \in [Codecs -> Pcs]
  BY DEF RefsInv, Tables
<1>2. read \in [Codecs -> Owners] /\ own \subseteq Codecs /\ renumbered \subseteq Codecs
  BY DEF RefsInv, Tables
<1>3. c \in Owners
  BY DEF Owners
<1> DEFINE r == [refs EXCEPT ![OwnEntry(c)] = 1]
<1>r. r \in Counts
  BY <1>1, <1>3, ObjectsApart DEF Counts
<1>4. PICK to \in {"ownList", "done"} :
         /\ pc' = [pc EXCEPT ![c] = to] /\ pc[c] = "reinit"
         /\ refs' = IF to = "ownList" THEN [r EXCEPT ![Entry(c)] = @ - 1]
                                      ELSE [refs EXCEPT ![Entry(c)] = @ - 1]
  <2>1. Released(r, Entry(c)) = [r EXCEPT ![Entry(c)] = @ - 1]
    BY <1>3, <1>r, ReleasedEntry
  <2>2. Released(refs, Entry(c)) = [refs EXCEPT ![Entry(c)] = @ - 1]
    BY <1>1, <1>3, ReleasedEntry
  <2> QED
    BY <2>1, <2>2 DEF CopyAgain, Step
<1>5. UNCHANGED <<elsewhere, current, published, own, renumbered, reinit, read>>
  BY DEF CopyAgain
<1>6. pc'[c] = to /\ to \in Pcs
  BY <1>1, <1>4 DEF Pcs
<1>7. refs' \in Counts
  BY <1>1, <1>3, <1>4, ObjectsApart DEF Counts
<1>8. \A o \in Owners :
        /\ refs'[List(o)] = refs[List(o)]
        /\ refs'[Entry(o)] = IF o = c THEN refs[Entry(o)] - 1 ELSE refs[Entry(o)]
        /\ refs'[OwnList(o)] = refs[OwnList(o)]
        /\ refs'[OwnEntry(o)] = IF o = c /\ to = "ownList" THEN 1 ELSE refs[OwnEntry(o)]
  BY <1>1, <1>3, <1>4, ObjectsApart DEF Counts
<1>9. HookCounts(c)'
  <2>0. /\ c \notin own /\ refs[OwnList(c)] = 0 /\ refs[OwnEntry(c)] = 0
        /\ refs[List(c)] = One(current = c)
        /\ refs[Entry(c)] = 1 + One(c \in published) + One(refs[List(c)] > 0)
    BY <1>1, <1>4 DEF HookCounts, HookOrder, HasCopy, HasList, One
  <2>5. /\ refs'[List(c)] = refs[List(c)] /\ refs'[Entry(c)] = refs[Entry(c)] - 1
        /\ refs'[OwnList(c)] = refs[OwnList(c)]
        /\ refs'[OwnEntry(c)] = IF to = "ownList" THEN 1 ELSE refs[OwnEntry(c)]
    BY <1>3, <1>8
  <2>1. (refs[List(c)] = One(pc[c] \in HasList) + One(current = c))'
    BY <1>4, <1>5, <1>6, <2>0, <2>5 DEF HasList, One
  <2>2. (refs[Entry(c)] = One(pc[c] \in HasCopy) + One(c \in published /\ pc[c] # "retain")
                         + One(refs[List(c)] > 0))'
    <3>1. refs'[Entry(c)] = One(c \in published) + One(refs[List(c)] > 0)
      BY <2>0, <2>5 DEF One
    <3>2. One(pc'[c] \in HasCopy) = 0 /\ One(c \in published' /\ pc'[c] # "retain") = One(c \in published)
      BY <1>4, <1>5, <1>6 DEF HasCopy, One
    <3>4. One(refs'[List(c)] > 0) = One(refs[List(c)] > 0)
      BY <2>5 DEF One
    <3>3. One(c \in published) + One(refs[List(c)] > 0) \in Int
      BY DEF One
    <3> QED
      BY <3>1, <3>2, <3>3, <3>4 DEF One, HasCopy
  <2>3. (refs[OwnList(c)] = One(pc[c] \in {"own", "releaseOwn"}) + One(c \in own))'
    BY <1>4, <1>5, <1>6, <2>0, <2>5 DEF One
  <2>4. (refs[OwnEntry(c)] = One(pc[c] \in {"ownList", "own"} \/ c \in own) + One(refs[OwnList(c)] > 0))'
    BY <1>4, <1>5, <1>6, <2>0, <2>5 DEF One
  <2> QED
    BY <1>6, <2>1, <2>2, <2>3, <2>4 DEF HookCounts
<1>10. HookOrder(c)'
  BY <1>1, <1>4, <1>5, <1>6 DEF HookOrder, Later
<1>alone. HookAlone(c, to)
  BY <1>1, <1>2, <1>4, <1>5, <1>6, <1>7, <1>8 DEF HookAlone
<1> QED
  BY <1>alone, <1>6, <1>9, <1>10, OneHook

LEMMA RefsInvMakeOwnList ==
  ASSUME RefsInv, NEW c \in Codecs, MakeOwnList(c)
  PROVE  RefsInv'
<1>1. HookCounts(c) /\ HookOrder(c) /\ refs \in Counts /\ pc \in [Codecs -> Pcs]
  BY DEF RefsInv, Tables
<1>2. read \in [Codecs -> Owners] /\ own \subseteq Codecs /\ renumbered \subseteq Codecs
  BY DEF RefsInv, Tables
<1>3. c \in Owners
  BY DEF Owners
<1>4. PICK to \in {"own", "done"} :
         /\ pc' = [pc EXCEPT ![c] = to] /\ pc[c] = "ownList"
         /\ refs' = IF to = "own" THEN [refs EXCEPT ![OwnList(c)] = 1, ![OwnEntry(c)] = @ + 1]
                                  ELSE [refs EXCEPT ![OwnEntry(c)] = @ - 1]
  <2>1. Released(refs, OwnEntry(c)) = [refs EXCEPT ![OwnEntry(c)] = @ - 1]
    BY <1>1, <1>3, ReleasedEntry
  <2> QED
    BY <2>1, WithObjectIs DEF MakeOwnList, Step
<1>5. UNCHANGED <<elsewhere, current, published, own, renumbered, reinit, read>>
  BY DEF MakeOwnList
<1>6. pc'[c] = to /\ to \in Pcs
  BY <1>1, <1>4 DEF Pcs
<1>7. refs' \in Counts
  BY <1>1, <1>3, <1>4, ObjectsApart DEF Counts
<1>8. \A o \in Owners :
        /\ refs'[List(o)] = refs[List(o)] /\ refs'[Entry(o)] = refs[Entry(o)]
        /\ refs'[OwnList(o)] = IF o = c /\ to = "own" THEN 1 ELSE refs[OwnList(o)]
        /\ refs'[OwnEntry(o)] = IF o # c THEN refs[OwnEntry(o)]
                                ELSE IF to = "own" THEN refs[OwnEntry(o)] + 1 ELSE refs[OwnEntry(o)] - 1
  BY <1>1, <1>3, <1>4, ObjectsApart DEF Counts
<1>9. HookCounts(c)'
  <2>0. /\ c \notin own /\ refs[OwnList(c)] = 0 /\ refs[OwnEntry(c)] = 1
        /\ refs[List(c)] = One(current = c)
        /\ refs[Entry(c)] = One(c \in published) + One(refs[List(c)] > 0)
    BY <1>1, <1>4 DEF HookCounts, HookOrder, HasCopy, HasList, One
  <2>5. /\ refs'[List(c)] = refs[List(c)] /\ refs'[Entry(c)] = refs[Entry(c)]
        /\ refs'[OwnList(c)] = IF to = "own" THEN 1 ELSE 0
        /\ refs'[OwnEntry(c)] = IF to = "own" THEN 2 ELSE 0
    BY <1>3, <1>8, <2>0
  <2>1. (refs[List(c)] = One(pc[c] \in HasList) + One(current = c))'
    BY <1>4, <1>5, <1>6, <2>0, <2>5 DEF HasList, One
  <2>2. (refs[Entry(c)] = One(pc[c] \in HasCopy) + One(c \in published /\ pc[c] # "retain")
                         + One(refs[List(c)] > 0))'
    BY <1>4, <1>5, <1>6, <2>0, <2>5 DEF HasCopy, One
  <2>3. (refs[OwnList(c)] = One(pc[c] \in {"own", "releaseOwn"}) + One(c \in own))'
    BY <1>4, <1>5, <1>6, <2>0, <2>5 DEF One
  <2>4. (refs[OwnEntry(c)] = One(pc[c] \in {"ownList", "own"} \/ c \in own) + One(refs[OwnList(c)] > 0))'
    BY <1>4, <1>5, <1>6, <2>0, <2>5 DEF One
  <2> QED
    BY <1>6, <2>1, <2>2, <2>3, <2>4 DEF HookCounts
<1>10. HookOrder(c)'
  BY <1>1, <1>4, <1>5, <1>6 DEF HookOrder, Later
<1>alone. HookAlone(c, to)
  BY <1>1, <1>2, <1>4, <1>5, <1>6, <1>7, <1>8 DEF HookAlone
<1> QED
  BY <1>alone, <1>6, <1>9, <1>10, OneHook

LEMMA RefsInvSetOwn ==
  ASSUME RefsInv, NEW c \in Codecs, SetOwn(c)
  PROVE  RefsInv'
<1>1. HookCounts(c) /\ HookOrder(c) /\ refs \in Counts /\ pc \in [Codecs -> Pcs]
  BY DEF RefsInv, Tables
<1>2. read \in [Codecs -> Owners] /\ own \subseteq Codecs /\ renumbered \subseteq Codecs
  BY DEF RefsInv, Tables
<1>3. c \in Owners
  BY DEF Owners
<1>4. /\ pc[c] = "own" /\ pc' = [pc EXCEPT ![c] = "releaseOwn"] /\ own' = own \cup {c}
      /\ refs' = [refs EXCEPT ![OwnList(c)] = @ + 1]
      /\ UNCHANGED <<elsewhere, current, published, renumbered, reinit, read>>
  BY DEF SetOwn, Step
<1>5. pc'[c] = "releaseOwn" /\ "releaseOwn" \in Pcs
  BY <1>1, <1>4 DEF Pcs
<1>6. refs' \in Counts
  BY <1>1, <1>3, <1>4, ObjectsApart DEF Counts
<1>7. \A o \in Owners :
        /\ refs'[List(o)] = refs[List(o)] /\ refs'[Entry(o)] = refs[Entry(o)]
        /\ refs'[OwnList(o)] = IF o = c THEN refs[OwnList(o)] + 1 ELSE refs[OwnList(o)]
        /\ refs'[OwnEntry(o)] = refs[OwnEntry(o)]
  BY <1>1, <1>3, <1>4, ObjectsApart DEF Counts
<1>8. HookCounts(c)'
  <2>1. /\ c \notin own /\ refs[OwnList(c)] = 1 /\ refs[OwnEntry(c)] = 2
        /\ refs[List(c)] = One(current = c)
        /\ refs[Entry(c)] = One(c \in published) + One(refs[List(c)] > 0)
    BY <1>1, <1>4 DEF HookCounts, HookOrder, HasCopy, HasList, One
  <2>2. /\ refs'[List(c)] = refs[List(c)] /\ refs'[Entry(c)] = refs[Entry(c)]
        /\ refs'[OwnList(c)] = 2 /\ refs'[OwnEntry(c)] = 2
    BY <1>3, <1>7, <2>1
  <2> QED
    BY <1>4, <1>5, <2>1, <2>2 DEF HookCounts, HasCopy, HasList, One
<1>9. HookOrder(c)'
  BY <1>1, <1>4, <1>5 DEF HookOrder, Later
<1>alone. HookAlone(c, "releaseOwn")
  BY <1>1, <1>2, <1>4, <1>5, <1>6, <1>7 DEF HookAlone
<1> QED
  BY <1>alone, <1>5, <1>8, <1>9, OneHook

\* The second copy keeps the reference that its list does not hold.
LEMMA RefsInvReleaseOwnList ==
  ASSUME RefsInv, NEW c \in Codecs, ReleaseOwnList(c)
  PROVE  RefsInv'
<1>1. HookCounts(c) /\ HookOrder(c) /\ refs \in Counts /\ pc \in [Codecs -> Pcs]
  BY DEF RefsInv, Tables
<1>2. read \in [Codecs -> Owners] /\ own \subseteq Codecs /\ renumbered \subseteq Codecs
  BY DEF RefsInv, Tables
<1>3. c \in Owners
  BY DEF Owners
<1>4. /\ pc[c] = "releaseOwn" /\ pc' = [pc EXCEPT ![c] = "done"]
      /\ refs' = Released(refs, OwnList(c))
      /\ UNCHANGED <<elsewhere, current, published, own, renumbered, reinit, read>>
  BY DEF ReleaseOwnList, Step
<1>5. pc'[c] = "done" /\ "done" \in Pcs
  BY <1>1, <1>4 DEF Pcs
<1>6. refs' \in Counts
  BY <1>1, <1>3, <1>4, ReleasedOwnList
<1>7. \A o \in Owners :
        /\ refs'[List(o)] = refs[List(o)] /\ refs'[Entry(o)] = refs[Entry(o)]
        /\ refs'[OwnList(o)] = IF o = c THEN refs[OwnList(o)] - 1 ELSE refs[OwnList(o)]
        /\ refs'[OwnEntry(o)] = IF o = c /\ refs[OwnList(c)] = 1 THEN refs[OwnEntry(o)] - 1 ELSE refs[OwnEntry(o)]
  BY <1>1, <1>3, <1>4, ReleasedOwnList
<1>8. HookCounts(c)'
  <2>1. /\ c \in own /\ refs[OwnList(c)] = 2 /\ refs[OwnEntry(c)] = 2
        /\ refs[List(c)] = One(current = c)
        /\ refs[Entry(c)] = One(c \in published) + One(refs[List(c)] > 0)
    BY <1>1, <1>4 DEF HookCounts, HookOrder, HasCopy, HasList, One
  <2>2. /\ refs'[List(c)] = refs[List(c)] /\ refs'[Entry(c)] = refs[Entry(c)]
        /\ refs'[OwnList(c)] = 1 /\ refs'[OwnEntry(c)] = 2
    BY <1>3, <1>7, <2>1
  <2> QED
    BY <1>4, <1>5, <2>1, <2>2 DEF HookCounts, HasCopy, HasList, One
<1>9. HookOrder(c)'
  BY <1>1, <1>4, <1>5 DEF HookOrder, Later
<1>alone. HookAlone(c, "done")
  BY <1>1, <1>2, <1>4, <1>5, <1>6, <1>7 DEF HookAlone
<1> QED
  BY <1>alone, <1>5, <1>8, <1>9, OneHook

LEMMA RefsInvStep == RefsInv /\ [Next]_vars => RefsInv'
<1> SUFFICES ASSUME RefsInv, [Next]_vars PROVE RefsInv'
  OBVIOUS
<1>1. CASE Next
  BY <1>1, RefsInvReads, RefsInvUseFreed, RefsInvCopyEntry, RefsInvMakeList, RefsInvPublish,
     RefsInvRetainEntry, RefsInvReleaseList, RefsInvNoReinit, RefsInvCopyAgain, RefsInvMakeOwnList,
     RefsInvSetOwn, RefsInvReleaseOwnList DEF Next
<1>2. CASE UNCHANGED vars
  <2>1. Tables' /\ FirstCounts'
    BY <1>2 DEF vars, RefsInv, Tables, FirstCounts
  <2>2. ASSUME NEW c \in Codecs PROVE HookCounts(c)' /\ HookOrder(c)'
    BY <1>2 DEF vars, RefsInv, HookCounts, HookOrder
  <2> QED
    BY <2>1, <2>2 DEF RefsInv
<1> QED
  BY <1>1, <1>2

LEMMA RefsInvariant == Spec => []RefsInv
BY RefsInvInit, RefsInvStep, PTL DEF Spec

-----------------------------------------------------------------------------
(* The theorems.                                                              *)

\* No object is released more often than it is held, and every hook has the
\* copies and lists it works on until it is done with them, whatever the hooks
\* of the other codecs release meanwhile (kern_alc.cpp 430-493).
THEOREM RefsTypeCorrect == Spec => []TypeOK
<1>1. RefsInv => TypeOK
  <2> SUFFICES ASSUME RefsInv PROVE TypeOK
    OBVIOUS
  <2>1. refs \in [Objects -> Nat]
    <3>1. refs \in [Objects -> Int]
      BY DEF RefsInv, Tables, Counts
    <3>2. ASSUME NEW x \in Objects PROVE refs[x] >= 0
      <4>1. PICK o \in Owners : x \in {List(o), Entry(o), OwnList(o), OwnEntry(o)}
        BY ObjectsAre
      <4> QED
        BY <4>1, CountsBounded
    <3>3. \A x \in Objects : refs[x] \in Nat
      BY <3>1, <3>2
    <3> QED
      BY <3>1, <3>3
  <2>2. /\ elsewhere \in {0, 1} /\ current \in Owners
        /\ published \subseteq Codecs /\ own \subseteq Codecs /\ renumbered \subseteq Codecs
        /\ reinit \in BOOLEAN /\ read \in [Codecs -> Owners] /\ pc \in [Codecs -> Pcs]
    BY DEF RefsInv, Tables, Owners
  <2>3. ASSUME NEW c \in Codecs
        PROVE  /\ pc[c] \in {"data", "list", "publish", "retain", "release", "reinit"} => refs[Entry(c)] > 0
               /\ pc[c] \in {"publish", "retain", "release"} => refs[List(c)] > 0
               /\ pc[c] \in {"ownList", "own", "releaseOwn"} => refs[OwnEntry(c)] > 0
               /\ pc[c] \in {"own", "releaseOwn"} => refs[OwnList(c)] > 0
    <3>1. HookCounts(c) /\ HookOrder(c)
      BY DEF RefsInv
    <3>2. pc[c] \in {"data", "list", "publish", "retain", "release", "reinit"} => refs[Entry(c)] > 0
      BY <3>1 DEF HookCounts, HasCopy, One
    <3>3. pc[c] \in {"publish", "retain", "release"} => refs[List(c)] > 0
      BY <3>1 DEF HookCounts, HasList, One
    <3>4. pc[c] \in {"ownList", "own", "releaseOwn"} => refs[OwnEntry(c)] > 0
      BY <3>1 DEF HookCounts, HookOrder, One
    <3>5. pc[c] \in {"own", "releaseOwn"} => refs[OwnList(c)] > 0
      BY <3>1 DEF HookCounts, One
    <3> QED
      BY <3>2, <3>3, <3>4, <3>5
  <2> QED
    BY <2>1, <2>2, <2>3 DEF TypeOK
<1> QED
  BY <1>1, RefsInvariant, PTL

\* What a property or a list refers to is never freed, and once a hook is
\* through, its lists have no other references, and each copy that was put into
\* a property exactly one too many: that of the retain of kern_alc.cpp 458 for
\* the first, and for the second that of its own creation (430-493).
THEOREM CountsCorrect == Spec => []CountsMatch
<1>1. RefsInv => CountsMatch
  <2> SUFFICES ASSUME RefsInv PROVE CountsMatch
    OBVIOUS
  <2>1. ASSUME NEW o \in Owners
        PROVE  /\ Held(List(o)) = One(current = o) + (IF o = Personality THEN elsewhere ELSE 0)
               /\ Held(OwnList(o)) = One(o \in own)
               /\ Held(Entry(o)) = One(refs[List(o)] > 0)
               /\ Held(OwnEntry(o)) = One(refs[OwnList(o)] > 0)
    BY DEF Held, One, List, Entry, OwnList, OwnEntry
  <2>2. ASSUME NEW o \in Owners
        PROVE  /\ refs[List(o)] >= Held(List(o)) /\ refs[OwnList(o)] >= Held(OwnList(o))
               /\ refs[Entry(o)] >= Held(Entry(o)) /\ refs[OwnEntry(o)] >= Held(OwnEntry(o))
    <3>1. CASE o = Personality
      <4>1. Personality \notin own /\ elsewhere \in {0, 1} /\ FirstCounts
        BY DEF RefsInv, Tables
      <4> QED
        BY <2>1, <3>1, <4>1 DEF FirstCounts, One
    <3>2. CASE o \in Codecs
      <4>1. HookCounts(o) /\ HookOrder(o) /\ o # Personality
        BY <3>2 DEF RefsInv
      <4>2. refs[List(o)] >= Held(List(o)) /\ refs[OwnList(o)] >= Held(OwnList(o))
        BY <2>1, <4>1 DEF HookCounts, One
      <4>3. refs[OwnEntry(o)] >= Held(OwnEntry(o))
        BY <2>1, <4>1 DEF HookCounts, One
      <4>4. refs[Entry(o)] >= Held(Entry(o))
        <5>1. CASE pc[o] = "undefined"
          <6>1. current # o
            BY <3>2, <5>1, NotYetPublished DEF Later
          <6>2. Held(Entry(o)) = 0
            BY <2>1, <4>1, <5>1, <6>1 DEF HookCounts, HasList, One
          <6> QED
            BY <6>2, CountsBounded
        <5>2. CASE pc[o] # "undefined"
          BY <2>1, <4>1, <5>2 DEF HookCounts, One
        <5> QED
          BY <5>1, <5>2
      <4> QED
        BY <4>2, <4>3, <4>4
    <3> QED
      BY <3>1, <3>2 DEF Owners
  <2>3. ASSUME NEW x \in Objects PROVE refs[x] >= Held(x)
    <3>1. PICK o \in Owners : x \in {List(o), Entry(o), OwnList(o), OwnEntry(o)}
      BY ObjectsAre
    <3> QED
      BY <2>2, <3>1
  <2>4. ASSUME NEW c \in Codecs, pc[c] = "done"
        PROVE  /\ refs[List(c)] = Held(List(c)) /\ refs[OwnList(c)] = Held(OwnList(c))
               /\ refs[Entry(c)] = Held(Entry(c)) + (IF c \in published THEN 1 ELSE 0)
               /\ refs[OwnEntry(c)] = Held(OwnEntry(c)) + (IF c \in own THEN 1 ELSE 0)
    <3>1. HookCounts(c) /\ c \in Owners /\ c # Personality
      BY DEF RefsInv, Owners
    <3>2. /\ refs[List(c)] = One(current = c) /\ refs[OwnList(c)] = One(c \in own)
          /\ refs[Entry(c)] = One(c \in published) + One(refs[List(c)] > 0)
          /\ refs[OwnEntry(c)] = One(c \in own) + One(refs[OwnList(c)] > 0)
      BY <2>4, <3>1 DEF HookCounts, HasCopy, HasList, One
    <3> QED
      BY <2>1, <3>1, <3>2 DEF One
  <2> QED
    BY <2>3, <2>4 DEF CountsMatch
<1> QED
  BY <1>1, RefsInvariant, PTL

\* A hook that finds the list in its hand freed was overtaken by two others, or
\* by one that replaced a first list nobody else held; an entry it has found in
\* a list another hook made stays until it is copied and read (411-442).
THEOREM OvertakenCorrect == Spec => []OvertakenOnly
<1>1. RefsInv => OvertakenOnly
  <2> SUFFICES ASSUME RefsInv, NEW c \in Codecs
               PROVE  /\ pc[c] = "undefined" =>
                           IF read[c] = Personality THEN elsewhere = 0 /\ published \ {c} # {}
                           ELSE Cardinality(published \ {c}) >= 2
                      /\ pc[c] \in {"copy", "data"} /\ (read[c] = Personality => elsewhere = 1)
                           => refs[Entry(read[c])] > 0
    BY DEF OvertakenOnly
  <2>1. HookOrder(c)
    BY DEF RefsInv
  <2>2. ASSUME pc[c] \in {"copy", "data"}, read[c] = Personality => elsewhere = 1
        PROVE  refs[Entry(read[c])] > 0
    <3>1. read[c] \in Owners
      BY DEF RefsInv, Tables
    <3>2. refs[Entry(read[c])] # 0
      BY <2>2, EntryGone DEF Later
    <3>3. refs[Entry(read[c])] >= 0 /\ refs[Entry(read[c])] \in Int
      BY <3>1, CountsBounded, ObjectsApart DEF RefsInv, Tables, Counts
    <3> QED
      BY <3>2, <3>3
  <2> QED
    BY <2>1, <2>2 DEF HookOrder
<1> QED
  BY <1>1, RefsInvariant, PTL
=============================================================================
