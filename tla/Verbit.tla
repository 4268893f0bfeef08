------------------------------- MODULE Verbit -------------------------------
(***************************************************************************)
(* verbit.sh: turns the pin defaults of an ALSA codec dump into the verbs    *)
(* that configure the pins for AppleHDA, corrected by its rules.  A pin has   *)
(* four verbs: 71c association and sequence, 71d colour and misc, 71e device  *)
(* and connection, 71f port and location.  The digits no rule touches are     *)
(* left out, and the sequence, which becomes 0.  The arrays of the script are *)
(* sequences that start at 1.                                                 *)
(***************************************************************************)
EXTENDS Integers, Sequences

CONSTANT Dumps    \* the codec dumps, as the pins they list

Digit == 0 .. 15

\* "blacklisted": the pin has one of the two defaults of a pin without a jack, or
\* is the internal CD.
Pin == [blacklisted : BOOLEAN, assoc : Digit, misc : Digit, location : Digit]

ASSUME DumpsAssumption == Dumps \subseteq Seq(Pin)

NoDigit == -1    \* what an unset element of an array expands to

VARIABLES
  pc,
  lines,         \* the pins of the dump that are still to be read
  pins,          \* those that stay
  assoc,         \* their associations, as far as they are counted and corrected
  ihex,          \* the association that is looked for among them
  unused,        \* those that no pin has
  nextassoc,     \* how many of them are given away
  newassoclist,  \* the associations passed so far
  verbs          \* the corrected digits of each pin

vars == <<pc, lines, pins, assoc, ihex, unused, nextassoc, newassoclist, verbs>>

Init ==
  /\ pc = "read" /\ lines \in Dumps
  /\ pins = <<>> /\ assoc = <<>> /\ ihex = 1 /\ unused = <<>>
  /\ nextassoc = 0 /\ newassoclist = <<>> /\ verbs = <<>>

Elements(s) == {s[n] : n \in DOMAIN s}

-----------------------------------------------------------------------------

ReadPin ==
  /\ pc = "read" /\ lines # <<>>
  /\ lines' = Tail(lines)
  /\ pins' = IF Head(lines).blacklisted THEN pins ELSE Append(pins, Head(lines))
  /\ UNCHANGED <<pc, assoc, ihex, unused, nextassoc, newassoclist, verbs>>

EndOfDump ==
  /\ pc = "read" /\ lines = <<>>
  /\ pc' = "count"
  /\ UNCHANGED <<lines, pins, assoc, ihex, unused, nextassoc, newassoclist, verbs>>

\* Association 0 counts as 1; the verb itself is not changed here.
AsCounted(p) == IF p.assoc = 0 THEN 1 ELSE p.assoc

CountAssociation ==
  /\ pc = "count" /\ Len(assoc) < Len(pins)
  /\ assoc' = Append(assoc, AsCounted(pins[Len(assoc) + 1]))
  /\ UNCHANGED <<pc, lines, pins, ihex, unused, nextassoc, newassoclist, verbs>>

\* 15 is never handed out, though a pin may have it.
Mut_CountsTo15 == 15
LastHandedOut == 14

FindUnused ==
  /\ pc = "count" /\ Len(assoc) = Len(pins) /\ ihex <= LastHandedOut
  /\ unused' = IF ihex \in Elements(assoc) THEN unused ELSE Append(unused, ihex)
  /\ ihex' = ihex + 1
  /\ UNCHANGED <<pc, lines, pins, assoc, nextassoc, newassoclist, verbs>>

EndOfCount ==
  /\ pc = "count" /\ Len(assoc) = Len(pins) /\ ihex > LastHandedOut
  /\ pc' = "correct"
  /\ UNCHANGED <<lines, pins, assoc, ihex, unused, nextassoc, newassoclist, verbs>>

Current == Len(newassoclist) + 1

\* Another pin has the association now.
Duplicate == \E n \in DOMAIN assoc \ {Current} : assoc[n] = assoc[Current]

\* It was passed before.
SeenBefore == assoc[Current] \in Elements(newassoclist)

\* The pin keeps the digit its verb has, which may be the 0 that counted as 1.
KeepAssociation ==
  /\ pc = "correct" /\ Current <= Len(pins) /\ ~(Duplicate /\ SeenBefore)
  /\ verbs' = Append(verbs, pins[Current])
  /\ newassoclist' = Append(newassoclist, assoc[Current])
  /\ UNCHANGED <<pc, lines, pins, assoc, ihex, unused, nextassoc>>

\* The next unused association, or nothing once they are used up.
Mut_KeepsTheIndex ==
  /\ pc = "correct" /\ Current <= Len(pins) /\ Duplicate /\ SeenBefore
  /\ LET a == IF unused # <<>> THEN unused[1] ELSE NoDigit
     IN  /\ assoc' = [assoc EXCEPT ![Current] = a]
         /\ verbs' = Append(verbs, [pins[Current] EXCEPT !.assoc = a])
         /\ newassoclist' = Append(newassoclist, a)
  /\ UNCHANGED <<pc, lines, pins, ihex, unused, nextassoc>>

ReplaceAssociation ==
  /\ pc = "correct" /\ Current <= Len(pins) /\ Duplicate /\ SeenBefore
  /\ LET a == IF nextassoc < Len(unused) THEN unused[nextassoc + 1] ELSE NoDigit
     IN  /\ assoc' = [assoc EXCEPT ![Current] = a]
         /\ verbs' = Append(verbs, [pins[Current] EXCEPT !.assoc = a])
         /\ newassoclist' = Append(newassoclist, a)
  /\ nextassoc' = nextassoc + 1
  /\ UNCHANGED <<pc, lines, pins, ihex, unused>>

\* 71d misc becomes 0; 71f location 2, the front panel, becomes 1, and anything
\* that is not 1 then becomes 0.
CorrectRest ==
  /\ pc = "correct" /\ Current > Len(pins)
  /\ verbs' = [n \in DOMAIN verbs |->
       [verbs[n] EXCEPT !.misc = 0, !.location = IF @ \in {1, 2} THEN 1 ELSE 0]]
  /\ pc' = "done"
  /\ UNCHANGED <<lines, pins, assoc, ihex, unused, nextassoc, newassoclist>>

Next ==
  \/ ReadPin \/ EndOfDump \/ CountAssociation \/ FindUnused \/ EndOfCount
  \/ KeepAssociation \/ ReplaceAssociation \/ CorrectRest

Spec == Init /\ [][Next]_vars

-----------------------------------------------------------------------------
(* Properties. *)

\* Every array keeps its type and stays as long as the loops have come; no more
\* associations are given away than pins were passed, and an unused one is never
\* one that a pin of the dump has or counts as (verbit.sh 49-302).
TypeOK ==
  /\ pc \in {"read", "count", "correct", "done"}
  /\ lines \in Seq(Pin) /\ pins \in Seq(Pin)
  /\ assoc \in Seq(Digit \cup {NoDigit}) /\ Len(assoc) <= Len(pins)
  /\ ihex \in 1 .. 15 /\ unused \in Seq(1 .. 14)
  /\ Len(newassoclist) = Len(verbs) /\ Len(verbs) <= Len(assoc)
  /\ nextassoc <= Len(newassoclist)
  /\ \A n \in DOMAIN pins : AsCounted(pins[n]) \notin Elements(unused)
  /\ Elements(verbs) \subseteq [blacklisted : {FALSE}, assoc : Digit \cup {NoDigit},
                               misc : Digit, location : Digit]

\* verbit.sh 134, "Association needs to be unique!": no two corrected pins share
\* an association, every pin has one, and the first pin of each keeps its own, so
\* a pin that was alone with its association is never changed.  That holds for
\* the 14 pins the script has associations for, and 0 counts as 1 throughout: the
\* script notes "Changed 0 to 1" (152), yet the verb it prints for that pin still
\* has the 0 (218-232); the property leaves open which of the two is meant.
AssociationsUnique ==
  pc = "done" /\ Len(pins) <= 14 =>
    /\ \A m, n \in DOMAIN verbs : m # n => AsCounted(verbs[m]) # AsCounted(verbs[n])
    /\ \A n \in DOMAIN verbs :
         /\ verbs[n].assoc # NoDigit
         /\ (\A m \in 1 .. n - 1 : AsCounted(pins[m]) # AsCounted(pins[n]))
              => AsCounted(verbs[n]) = AsCounted(pins[n])
=============================================================================
