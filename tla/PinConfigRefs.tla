---------------------------- MODULE PinConfigRefs ----------------------------
(***************************************************************************)
(* References in initializePinConfig.  From the moment it has the list of   *)
(* configDevice in hand, the hook of each codec copies an entry twice and    *)
(* puts each copy into a list of its own, counting references by hand over   *)
(* seven exits, while the hooks of other codecs replace the very list it is  *)
(* reading.  PinConfigPower says what the lists say; this module who holds   *)
(* them.                                                                     *)
(***************************************************************************)
EXTENDS Integers, FiniteSets

CONSTANTS
  Codecs,       \* the codecs whose hooks look at the list of configDevice
  Personality   \* stands for the maker of the list configDevice starts with

ASSUME PersonalityAssumption == Personality \notin Codecs

Owners == Codecs \cup {Personality}

\* The list of configDevice and its entry as each owner made them, and the list
\* and entry it made for its codec alone.
Objects == {"list", "entry", "ownList", "ownEntry"} \X Owners

List(o) == <<"list", o>>
Entry(o) == <<"entry", o>>
OwnList(c) == <<"ownList", c>>
OwnEntry(c) == <<"ownEntry", c>>

Content(list) == IF list[1] = "list" THEN Entry(list[2]) ELSE OwnEntry(list[2])

VARIABLES
  refs,       \* the reference count of each object, 0 when there is none
  elsewhere,  \* the references to the first list besides configDevice's
  current,    \* who made the list configDevice has
  published,  \* the codecs whose lists it has had
  own,        \* the codecs that have a list of their own
  renumbered, \* who made entries that have Apple's layout number
  reinit,     \* WakeVerbReinit of the entry
  read,       \* who made the list that each hook has in hand
  pc          \* where each hook is

vars == <<refs, elsewhere, current, published, own, renumbered, reinit, read, pc>>

Init ==
  /\ elsewhere \in {0, 1}
  /\ refs = [x \in Objects |-> CASE x = List(Personality) -> 1 + elsewhere
                                 [] x = Entry(Personality) -> 1
                                 [] OTHER -> 0]
  /\ current = Personality
  /\ published = {} /\ own = {} /\ renumbered = {}
  /\ reinit \in BOOLEAN
  /\ read = [c \in Codecs |-> Personality]
  /\ pc = [c \in Codecs |-> "start"]

\* release: a list that goes releases what it holds.
Released(r, x) ==
  IF x[1] \in {"list", "ownList"} /\ r[x] = 1
  THEN [r EXCEPT ![x] = 0, ![Content(x)] = @ - 1]
  ELSE [r EXCEPT ![x] = @ - 1]

\* withObjects: a new list, which retains what it holds.
WithObject(r, list) == [r EXCEPT ![list] = 1, ![Content(list)] = @ + 1]

Step(c, from, to) == pc[c] = from /\ pc' = [pc EXCEPT ![c] = to]

-----------------------------------------------------------------------------

\* getProperty does not retain.
ReadList(c) ==
  /\ Step(c, "start", "search")
  /\ read' = [read EXCEPT ![c] = current]
  /\ UNCHANGED <<refs, elsewhere, current, published, own, renumbered, reinit>>

\* An entry that has Apple's number already is not the one looked for.
SearchList(c) ==
  /\ refs[List(read[c])] > 0
  /\ Step(c, "search", IF read[c] \in renumbered THEN "done" ELSE "copy")
  /\ UNCHANGED <<refs, elsewhere, current, published, own, renumbered, reinit, read>>

\* The first copy, or none.
CopyEntry(c) ==
  /\ refs[Entry(read[c])] > 0
  /\ \/ Step(c, "copy", "data") /\ refs' = [refs EXCEPT ![Entry(c)] = 1]
     \/ Step(c, "copy", "done") /\ UNCHANGED refs
  /\ UNCHANGED <<elsewhere, current, published, own, renumbered, reinit, read>>

\* The data is read from the entry that was found; the copy holds it too.
ReadData(c) ==
  /\ refs[Entry(read[c])] > 0
  /\ Step(c, "data", "list")
  /\ UNCHANGED <<refs, elsewhere, current, published, own, renumbered, reinit, read>>

\* The list or the entry is gone: what happens from here is undefined.
UseFreed(c) ==
  /\ \/ Step(c, "search", "undefined") /\ refs[List(read[c])] = 0
     \/ Step(c, "copy", "undefined") /\ refs[Entry(read[c])] = 0
     \/ Step(c, "data", "undefined") /\ refs[Entry(read[c])] = 0
  /\ UNCHANGED <<refs, elsewhere, current, published, own, renumbered, reinit, read>>

\* setObject of the layout number, then withObjects.
MakeList(c) ==
  /\ \E allocated \in BOOLEAN : renumbered' = IF allocated THEN renumbered \cup {c} ELSE renumbered
  /\ \/ Step(c, "list", "publish") /\ refs' = WithObject(refs, List(c))
     \/ Step(c, "list", "reinit") /\ UNCHANGED refs
  /\ UNCHANGED <<elsewhere, current, published, own, reinit, read>>

\* setProperty retains the new list and releases the old one.
Publish(c) ==
  /\ Step(c, "publish", "retain")
  /\ current' = c /\ published' = published \cup {c}
  /\ refs' = Released([refs EXCEPT ![List(c)] = @ + 1], List(current))
  /\ UNCHANGED <<elsewhere, own, renumbered, reinit, read>>

Mut_RetainsNothing(c) ==
  /\ Step(c, "retain", "release")
  /\ UNCHANGED <<refs, elsewhere, current, published, own, renumbered, reinit, read>>

RetainEntry(c) ==
  /\ Step(c, "retain", "release")
  /\ refs' = [refs EXCEPT ![Entry(c)] = @ + 1]
  /\ UNCHANGED <<elsewhere, current, published, own, renumbered, reinit, read>>

ReleaseList(c) ==
  /\ Step(c, "release", "reinit")
  /\ refs' = Released(refs, List(c))
  /\ UNCHANGED <<elsewhere, current, published, own, renumbered, reinit, read>>

\* Without re-initialisation the hook is done with the entry.
Mut_ReleasesTheList(c) ==
  /\ Step(c, "reinit", "done") /\ ~reinit
  /\ refs' = Released(refs, List(c))
  /\ UNCHANGED <<elsewhere, current, published, own, renumbered, reinit, read>>

NoReinit(c) ==
  /\ Step(c, "reinit", "done") /\ ~reinit
  /\ refs' = Released(refs, Entry(c))
  /\ UNCHANGED <<elsewhere, current, published, own, renumbered, reinit, read>>

\* The second copy, or none; the first one is released in either case.
CopyAgain(c) ==
  /\ reinit
  /\ \/ Step(c, "reinit", "ownList") /\ refs' = Released([refs EXCEPT ![OwnEntry(c)] = 1], Entry(c))
     \/ Step(c, "reinit", "done") /\ refs' = Released(refs, Entry(c))
  /\ UNCHANGED <<elsewhere, current, published, own, renumbered, reinit, read>>

\* The second list; without it the second copy is released.
Mut_KeepsTheCopy(c) ==
  /\ \/ Step(c, "ownList", "own") /\ refs' = WithObject(refs, OwnList(c))
     \/ Step(c, "ownList", "done") /\ UNCHANGED refs
  /\ UNCHANGED <<elsewhere, current, published, own, renumbered, reinit, read>>

MakeOwnList(c) ==
  /\ \/ Step(c, "ownList", "own") /\ refs' = WithObject(refs, OwnList(c))
     \/ Step(c, "ownList", "done") /\ refs' = Released(refs, OwnEntry(c))
  /\ UNCHANGED <<elsewhere, current, published, own, renumbered, reinit, read>>

SetOwn(c) ==
  /\ Step(c, "own", "releaseOwn")
  /\ own' = own \cup {c}
  /\ refs' = [refs EXCEPT ![OwnList(c)] = @ + 1]
  /\ UNCHANGED <<elsewhere, current, published, renumbered, reinit, read>>

\* The list is released, the second copy is not.
ReleaseOwnList(c) ==
  /\ Step(c, "releaseOwn", "done")
  /\ refs' = Released(refs, OwnList(c))
  /\ UNCHANGED <<elsewhere, current, published, own, renumbered, reinit, read>>

Next ==
  \E c \in Codecs :
    \/ ReadList(c) \/ SearchList(c) \/ CopyEntry(c) \/ ReadData(c) \/ UseFreed(c)
    \/ MakeList(c) \/ Publish(c) \/ RetainEntry(c) \/ ReleaseList(c) \/ NoReinit(c)
    \/ CopyAgain(c) \/ MakeOwnList(c) \/ SetOwn(c) \/ ReleaseOwnList(c)

Spec == Init /\ [][Next]_vars

-----------------------------------------------------------------------------
(* Properties. *)

Pcs == {"start", "search", "copy", "data", "list", "publish", "retain", "release", "reinit",
        "ownList", "own", "releaseOwn", "done", "undefined"}

\* Every variable keeps its type, so that no object is released more often than
\* it is held; and each hook has the objects it works on, whatever the others
\* release meanwhile (kern_alc.cpp 430-493).
TypeOK ==
  /\ refs \in [Objects -> Nat]
  /\ elsewhere \in {0, 1} /\ current \in Owners
  /\ published \subseteq Codecs /\ own \subseteq Codecs /\ renumbered \subseteq Codecs
  /\ reinit \in BOOLEAN
  /\ read \in [Codecs -> Owners]
  /\ pc \in [Codecs -> Pcs]
  /\ \A c \in Codecs :
       /\ pc[c] \in {"data", "list", "publish", "retain", "release", "reinit"} => refs[Entry(c)] > 0
       /\ pc[c] \in {"publish", "retain", "release"} => refs[List(c)] > 0
       /\ pc[c] \in {"ownList", "own", "releaseOwn"} => refs[OwnEntry(c)] > 0
       /\ pc[c] \in {"own", "releaseOwn"} => refs[OwnList(c)] > 0

\* How many references there are to an object: of the property tables, of whoever
\* else has the first list, and of the list it is in.
Held(x) ==
  CASE x[1] = "list" -> (IF current = x[2] THEN 1 ELSE 0) + (IF x[2] = Personality THEN elsewhere ELSE 0)
    [] x[1] = "ownList" -> IF x[2] \in own THEN 1 ELSE 0
    [] x[1] = "entry" -> IF refs[List(x[2])] > 0 THEN 1 ELSE 0
    [] OTHER -> IF refs[OwnList(x[2])] > 0 THEN 1 ELSE 0

\* What a property or a list refers to is never freed.  Once a hook is through,
\* its lists are held by nothing else, and its copies are freed with them, but
\* for one reference that stays to each copy that was put into a property: to
\* the first by the retain of line 458, to the second because only its list is
\* released (430-493).
CountsMatch ==
  /\ \A x \in Objects : refs[x] >= Held(x)
  /\ \A c \in Codecs : pc[c] = "done" =>
       /\ refs[List(c)] = Held(List(c)) /\ refs[OwnList(c)] = Held(OwnList(c))
       /\ refs[Entry(c)] = Held(Entry(c)) + (IF c \in published THEN 1 ELSE 0)
       /\ refs[OwnEntry(c)] = Held(OwnEntry(c)) + (IF c \in own THEN 1 ELSE 0)

\* The list a hook reads is not retained, and another hook may free it.  A hook
\* that finds it gone was overtaken by two others, or by one that replaced a
\* first list nobody else held; and an entry another hook has made, once it is
\* found, stays until it is copied and read, although its list may not
\* (411-442).
OvertakenOnly ==
  \A c \in Codecs :
    LET first == read[c] = Personality
    IN  /\ pc[c] = "undefined" =>
             IF first THEN elsewhere = 0 /\ published \ {c} # {}
             ELSE Cardinality(published \ {c}) >= 2
        /\ pc[c] \in {"copy", "data"} /\ (first => elsewhere = 1) => refs[Entry(read[c])] > 0
=============================================================================
