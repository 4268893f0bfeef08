---------------------------- MODULE VerbitProofs ----------------------------
(***************************************************************************)
(* Proofs about verbit.sh: its arrays keep their types and lengths, and the *)
(* associations of up to 14 pins come out unique, whatever the dump.        *)
(***************************************************************************)
EXTENDS Verbit, FiniteSets, FiniteSetTheorems, TLAPS

\* A pin without a jack is dropped, so the pins that stay have this type.
Jacks == [blacklisted : {FALSE}, assoc : Digit, misc : Digit, location : Digit]

Corrected == [blacklisted : {FALSE}, assoc : Digit \cup {NoDigit}, misc : Digit, location : Digit]

Typed ==
  /\ pc \in {"read", "count", "correct", "done"}
  /\ lines \in Seq(Pin) /\ pins \in Seq(Jacks)
  /\ assoc \in Seq(Digit \cup {NoDigit}) /\ ihex \in 1 .. 15 /\ unused \in Seq(1 .. 14)
  /\ nextassoc \in Nat
  /\ newassoclist \in Seq(Digit \cup {NoDigit}) /\ verbs \in Seq(Corrected)

\* How far each loop has come: one array after the other is filled.
Progress ==
  /\ Len(assoc) <= Len(pins)
  /\ Len(newassoclist) = Len(verbs) /\ Len(verbs) <= Len(assoc)
  /\ nextassoc <= Len(newassoclist)
  /\ pc = "read" => assoc = <<>>
  /\ Len(assoc) < Len(pins) \/ pc = "read" => ihex = 1 /\ unused = <<>>
  /\ pc \in {"read", "count"} => newassoclist = <<>> /\ nextassoc = 0
  /\ pc \in {"correct", "done"} => Len(assoc) = Len(pins) /\ ihex = 15
  /\ pc = "done" => Len(newassoclist) = Len(pins)

-----------------------------------------------------------------------------
(* What the arrays say of each other. *)

\* The associations of the dump.
Used == {AsCounted(pins[n]) : n \in DOMAIN pins}

\* assoc and verbs up to date: the pins that are passed have their new association
\* there, the others the one they were counted with.
InStep ==
  /\ \A n \in DOMAIN assoc : n >= Current => assoc[n] = AsCounted(pins[n])
  /\ \A n \in DOMAIN newassoclist :
       assoc[n] = newassoclist[n] /\ AsCounted(verbs[n]) = newassoclist[n]

\* unused has each association below ihex that no pin has, once.
UnusedListed ==
  /\ \A k \in DOMAIN unused : unused[k] < ihex /\ unused[k] \notin Used
  /\ \A k, l \in DOMAIN unused : k < l => unused[k] < unused[l]
  /\ Len(unused) + Cardinality(Used \cap (1 .. ihex - 1)) = ihex - 1

\* Every association of the pins that are passed was kept by the first of them;
\* the others got one that was not in the dump.
FirstKeeps ==
  /\ \A n \in DOMAIN newassoclist :
       /\ AsCounted(pins[n]) \in Elements(newassoclist)
       /\ newassoclist[n] = AsCounted(pins[n]) \/ newassoclist[n] \notin Used
       /\ (\A m \in 1 .. n - 1 : AsCounted(pins[m]) # AsCounted(pins[n]))
            => verbs[n].assoc = pins[n].assoc
  /\ Cardinality(Used \cap Elements(newassoclist)) + nextassoc = Len(newassoclist)

\* Up to 14 pins there is an unused association for each that must be replaced,
\* and none is given away twice.
NoneTwice ==
  Len(pins) <= 14 =>
    /\ nextassoc <= Len(unused)
    /\ \A n \in DOMAIN newassoclist :
         newassoclist[n] \in Used \/ \E k \in 1 .. nextassoc : newassoclist[n] = unused[k]
    /\ \A m, n \in DOMAIN newassoclist : m # n => newassoclist[m] # newassoclist[n]

VerbitInv == Typed /\ Progress /\ InStep /\ UnusedListed /\ FirstKeeps /\ NoneTwice

-----------------------------------------------------------------------------
(* Sequences and finite sets. *)

LEMMA ElementsOfAppend ==
  ASSUME NEW S, NEW s \in Seq(S), NEW x \in S
  PROVE  Elements(Append(s, x)) = Elements(s) \cup {x}
<1>1. /\ DOMAIN Append(s, x) = 1 .. Len(s) + 1 /\ DOMAIN s = 1 .. Len(s) /\ Len(s) \in Nat
      /\ Append(s, x)[Len(s) + 1] = x
      /\ \A n \in 1 .. Len(s) : Append(s, x)[n] = s[n]
  OBVIOUS
<1>2. ASSUME NEW e PROVE e \in Elements(Append(s, x)) <=> e \in Elements(s) \cup {x}
  <2>1. ASSUME e \in Elements(Append(s, x)) PROVE e \in Elements(s) \cup {x}
    <3>1. PICK n \in 1 .. Len(s) + 1 : e = Append(s, x)[n]
      BY <1>1, <2>1 DEF Elements
    <3>2. CASE n = Len(s) + 1
      BY <1>1, <3>1, <3>2
    <3>3. CASE n \in 1 .. Len(s)
      BY <1>1, <3>1, <3>3 DEF Elements
    <3> QED
      BY <1>1, <3>2, <3>3
  <2>2. ASSUME e \in Elements(s) PROVE e \in Elements(Append(s, x))
    <3>1. PICK n \in 1 .. Len(s) : e = s[n]
      BY <1>1, <2>2 DEF Elements
    <3>2. n \in 1 .. Len(s) + 1 /\ e = Append(s, x)[n]
      BY <1>1, <3>1
    <3> QED
      BY <1>1, <3>2 DEF Elements
  <2>3. x \in Elements(Append(s, x))
    BY <1>1, Len(s) + 1 \in 1 .. Len(s) + 1 DEF Elements
  <2> QED
    BY <2>1, <2>2, <2>3
<1> QED
  BY <1>2

LEMMA ElementsIn ==
  ASSUME NEW S, NEW s \in Seq(S)
  PROVE  Elements(s) \subseteq S
  BY DEF Elements

LEMMA PlaceIn ==
  ASSUME NEW S, NEW s \in Seq(S), NEW n \in 1 .. Len(s)
  PROVE  s[n] \in S
  OBVIOUS

LEMMA FunctionIsSeq ==
  ASSUME NEW S, NEW n \in Nat, NEW s \in [1 .. n -> S]
  PROVE  s \in Seq(S)
  BY DEF Seq

\* So many places hold at most so many values.
LEMMA ValuesCounted ==
  ASSUME NEW f, NEW a \in Nat, NEW b \in Nat, a <= b + 1
  PROVE  /\ IsFiniteSet({f[n] : n \in a .. b})
         /\ Cardinality({f[n] : n \in a .. b}) <= b + 1 - a
<1> DEFINE Values == {f[n] : n \in a .. b}
           part == [n \in a .. b |-> f[n]]
<1>1. part \in Surjection(a .. b, Values)
  BY DEF Surjection
<1>2. IsFiniteSet(a .. b) /\ Cardinality(a .. b) = b + 1 - a
  BY FS_Interval
<1> HIDE DEF Values, part
<1>3. IsFiniteSet(Values) /\ Cardinality(Values) <= Cardinality(a .. b)
  BY <1>1, <1>2, FS_Surjection
<1> QED
  BY <1>2, <1>3 DEF Values

-----------------------------------------------------------------------------
(* Types. *)

LEMMA DigitsOf ==
  ASSUME NEW p \in Jacks
  PROVE  /\ p.assoc \in Digit /\ p \in Corrected
         /\ \A a \in Digit \cup {NoDigit} :
              [p EXCEPT !.assoc = a] \in Corrected /\ [p EXCEPT !.assoc = a].assoc = a
  BY DEF Jacks, Corrected

LEMMA TypedInit == Init => Typed /\ Progress
  BY DumpsAssumption DEF Init, Typed, Progress

LEMMA TypedStep == Typed /\ Progress /\ [Next]_vars => Typed'
<1> SUFFICES ASSUME Typed, Progress, [Next]_vars PROVE Typed'
  OBVIOUS
<1> USE DEF Typed
<1>1. CASE ReadPin
  <2>1. Head(lines) \in Pin /\ Tail(lines) \in Seq(Pin)
    BY <1>1 DEF ReadPin
  <2>2. ~Head(lines).blacklisted => Head(lines) \in Jacks
    BY <2>1 DEF Pin, Jacks
  <2> QED
    BY <1>1, <2>1, <2>2 DEF ReadPin
<1>2. CASE EndOfDump
  BY <1>2 DEF EndOfDump
<1>3. CASE CountAssociation
  <2>1. Len(assoc) + 1 \in 1 .. Len(pins)
    BY <1>3 DEF CountAssociation
  <2>2. pins[Len(assoc) + 1].assoc \in Digit
    BY <2>1, DigitsOf
  <2> QED
    BY <1>3, <2>2 DEF CountAssociation, AsCounted, Digit
<1>4. CASE FindUnused
  <2>1. /\ ihex <= 14 /\ ihex' = ihex + 1
        /\ unused' = unused \/ unused' = Append(unused, ihex)
        /\ UNCHANGED <<pc, lines, pins, assoc, nextassoc, newassoclist, verbs>>
    BY <1>4 DEF FindUnused, LastHandedOut
  <2>2. ihex \in 1 .. 15 /\ unused \in Seq(1 .. 14)
    OBVIOUS
  <2>3. ihex \in 1 .. 14 /\ ihex' \in 1 .. 15
    <3> HIDE DEF Typed, Progress
    <3> QED
      BY <2>1, <2>2
  <2>4. unused' \in Seq(1 .. 14)
    <3> HIDE DEF Typed, Progress
    <3> DEFINE S == 1 .. 14
    <3>1. ihex \in S /\ unused \in Seq(S)
      BY <2>2, <2>3
    <3> HIDE DEF S
    <3>2. unused' \in Seq(S)
      BY <2>1, <3>1
    <3> QED
      BY <3>2 DEF S
  <2>5. Typed
    OBVIOUS
  <2> QED
    BY ONLY <2>1, <2>3, <2>4, <2>5 DEF Typed
<1>5. CASE EndOfCount
  BY <1>5 DEF EndOfCount
<1>6. CASE KeepAssociation
  <2>1. Current \in 1 .. Len(pins) /\ Current \in 1 .. Len(assoc)
    BY <1>6 DEF KeepAssociation, Progress, Current
  <2>2. pins[Current] \in Corrected
    BY <2>1, DigitsOf
  <2> QED
    BY <1>6, <2>1, <2>2 DEF KeepAssociation
<1>7. CASE ReplaceAssociation
  <2> DEFINE a == IF nextassoc < Len(unused) THEN unused[nextassoc + 1] ELSE NoDigit
  <2>1. Current \in 1 .. Len(pins) /\ Current \in 1 .. Len(assoc)
    BY <1>7 DEF ReplaceAssociation, Progress, Current
  <2>2. a \in Digit \cup {NoDigit}
    <3>1. unused \in Seq(1 .. 14) /\ nextassoc \in Nat
      OBVIOUS
    <3>2. nextassoc < Len(unused) => unused[nextassoc + 1] \in 1 .. 14
      <4> HIDE DEF Typed, Progress
      <4>1. Len(unused) \in Nat
        BY <3>1
      <4>2. nextassoc < Len(unused) => nextassoc + 1 \in 1 .. Len(unused)
        BY <3>1, <4>1
      <4> QED
        BY <3>1, <4>2, PlaceIn
    <3>3. 1 .. 14 \subseteq Digit
      BY DEF Digit
    <3> QED
      BY <3>2, <3>3
  <2> HIDE DEF a
  <2>3. [pins[Current] EXCEPT !.assoc = a] \in Corrected
    BY <2>1, <2>2, DigitsOf
  <2>4. /\ assoc' = [assoc EXCEPT ![Current] = a]
        /\ verbs' = Append(verbs, [pins[Current] EXCEPT !.assoc = a])
        /\ newassoclist' = Append(newassoclist, a)
        /\ nextassoc' = nextassoc + 1 /\ UNCHANGED <<pc, lines, pins, ihex, unused>>
    BY <1>7 DEF ReplaceAssociation, a
  <2>5. assoc' \in Seq(Digit \cup {NoDigit}) /\ newassoclist' \in Seq(Digit \cup {NoDigit})
    <3>1. assoc \in Seq(Digit \cup {NoDigit}) /\ newassoclist \in Seq(Digit \cup {NoDigit})
      OBVIOUS
    <3> QED
      BY ONLY <2>1, <2>2, <2>4, <3>1
  <2>6. verbs' \in Seq(Corrected)
    <3>1. verbs \in Seq(Corrected)
      OBVIOUS
    <3> QED
      BY ONLY <2>3, <2>4, <3>1
  <2>7. nextassoc' \in Nat
    <3>1. nextassoc \in Nat
      OBVIOUS
    <3> QED
      BY ONLY <2>4, <3>1
  <2>8. Typed
    OBVIOUS
  <2> QED
    BY ONLY <2>4, <2>5, <2>6, <2>7, <2>8 DEF Typed
<1>8. CASE CorrectRest
  <2>1. ASSUME NEW v \in Corrected
        PROVE  [v EXCEPT !.misc = 0, !.location = IF @ \in {1, 2} THEN 1 ELSE 0] \in Corrected
    <3> DEFINE l == IF v.location \in {1, 2} THEN 1 ELSE 0
    <3>1. l \in Digit /\ 0 \in Digit
      BY DEF Digit
    <3> HIDE DEF l
    <3>2. [v EXCEPT !.misc = 0, !.location = l] \in Corrected
      BY <3>1 DEF Corrected
    <3> QED
      BY <3>2 DEF l
  <2>2. verbs' \in Seq(Corrected)
    <3>1. DOMAIN verbs = 1 .. Len(verbs) /\ Len(verbs) \in Nat /\ \A n \in DOMAIN verbs : verbs[n] \in Corrected
      OBVIOUS
    <3>2. /\ DOMAIN verbs' = 1 .. Len(verbs)
          /\ \A n \in DOMAIN verbs' : verbs'[n] \in Corrected
          /\ verbs' = [n \in 1 .. Len(verbs) |-> verbs'[n]]
      BY <1>8, <2>1, <3>1 DEF CorrectRest
    <3>3. verbs' \in [1 .. Len(verbs) -> Corrected]
      BY <3>2
    <3> QED
      BY <3>1, <3>3, FunctionIsSeq
  <2> QED
    BY <1>8, <2>2 DEF CorrectRest
<1>9. CASE UNCHANGED vars
  BY <1>9 DEF vars
<1> QED
  BY <1>1, <1>2, <1>3, <1>4, <1>5, <1>6, <1>7, <1>8, <1>9 DEF Next

LEMMA ProgressStep == Typed /\ Progress /\ [Next]_vars => Progress'
<1> SUFFICES ASSUME Typed, Progress, [Next]_vars PROVE Progress'
  OBVIOUS
<1> USE DEF Progress
<1>0. /\ Len(assoc) \in Nat /\ Len(pins) \in Nat /\ Len(verbs) \in Nat /\ nextassoc \in Nat
      /\ ihex \in 1 .. 15
  BY DEF Typed
<1>1. CASE ReadPin
  <2>1. Len(pins') \in Nat /\ assoc = <<>> /\ ihex = 1 /\ unused = <<>>
    BY <1>1 DEF ReadPin, Typed
  <2> QED
    BY <1>0, <1>1, <2>1 DEF ReadPin
<1>2. CASE EndOfDump
  BY <1>0, <1>2 DEF EndOfDump
<1>3. CASE CountAssociation
  <2>1. Len(assoc') = Len(assoc) + 1
    BY <1>3 DEF CountAssociation, Typed
  <2> QED
    BY <1>0, <1>3, <2>1 DEF CountAssociation
<1>4. CASE FindUnused
  BY <1>0, <1>4 DEF FindUnused
<1>5. CASE EndOfCount
  BY <1>0, <1>5 DEF EndOfCount, LastHandedOut
<1>6. CASE KeepAssociation
  <2>1. Len(newassoclist') = Len(newassoclist) + 1 /\ Len(verbs') = Len(verbs) + 1
    BY <1>6 DEF KeepAssociation, Typed
  <2> QED
    BY <1>0, <1>6, <2>1 DEF KeepAssociation, Current
<1>7. CASE ReplaceAssociation
  <2>1. /\ Len(newassoclist') = Len(newassoclist) + 1 /\ Len(verbs') = Len(verbs) + 1
        /\ Len(assoc') = Len(assoc)
    BY <1>7 DEF ReplaceAssociation, Typed
  <2> QED
    BY <1>0, <1>7, <2>1 DEF ReplaceAssociation, Current
<1>8. CASE CorrectRest
  <2>1. Len(verbs') = Len(verbs)
    <3>1. verbs' \in Seq(Corrected) /\ verbs \in Seq(Corrected)
      BY TypedStep DEF Typed
    <3>2. DOMAIN verbs' = DOMAIN verbs
      BY <1>8 DEF CorrectRest
    <3>3. DOMAIN verbs = 1 .. Len(verbs) /\ Len(verbs') \in Nat /\ DOMAIN verbs' = 1 .. Len(verbs')
      BY <3>1
    <3> QED
      BY <1>0, <3>2, <3>3
  <2>2. /\ pc = "correct" /\ Len(newassoclist) + 1 > Len(pins)
        /\ pc' = "done" /\ UNCHANGED <<lines, pins, assoc, ihex, unused, nextassoc, newassoclist>>
    BY <1>8 DEF CorrectRest, Current
  <2> QED
    BY <1>0, <2>1, <2>2
<1>9. CASE UNCHANGED vars
  BY <1>9 DEF vars
<1> QED
  BY <1>1, <1>2, <1>3, <1>4, <1>5, <1>6, <1>7, <1>8, <1>9 DEF Next

-----------------------------------------------------------------------------
(* What the loop over the pins does to the one it has come to. *)

LEMMA Passed ==
  ASSUME Typed, Progress, InStep, UnusedListed, KeepAssociation \/ ReplaceAssociation
  PROVE  /\ Current \in Nat \ {0} /\ Len(pins) \in Nat /\ Current <= Len(pins) /\ Current' = Current + 1
         /\ DOMAIN pins = 1 .. Len(pins) /\ DOMAIN assoc = 1 .. Len(pins)
         /\ DOMAIN newassoclist = 1 .. Current - 1 /\ DOMAIN verbs = 1 .. Current - 1
         /\ Len(newassoclist) = Current - 1
         /\ DOMAIN assoc' = 1 .. Len(pins) /\ DOMAIN newassoclist' = 1 .. Current
         /\ \A n \in 1 .. Len(pins) : n # Current => assoc'[n] = assoc[n]
         /\ \A n \in 1 .. Current - 1 : newassoclist'[n] = newassoclist[n] /\ verbs'[n] = verbs[n]
         /\ assoc'[Current] = newassoclist'[Current]
         /\ AsCounted(verbs'[Current]) = newassoclist'[Current]
         /\ Elements(newassoclist') = Elements(newassoclist) \cup {newassoclist'[Current]}
         /\ UNCHANGED <<pins, ihex, unused>>
<1>1. /\ pc = "correct" /\ Current <= Len(pins) /\ UNCHANGED <<pins, ihex, unused>>
  BY DEF KeepAssociation, ReplaceAssociation
<1>2. /\ Current \in Nat \ {0} /\ Len(pins) \in Nat
      /\ DOMAIN pins = 1 .. Len(pins) /\ DOMAIN assoc = 1 .. Len(pins)
      /\ DOMAIN newassoclist = 1 .. Current - 1 /\ DOMAIN verbs = 1 .. Current - 1
      /\ Len(newassoclist) = Current - 1 /\ Len(verbs) = Current - 1
  BY <1>1 DEF Typed, Progress, Current
<1>3. Current \in DOMAIN pins /\ Current \in DOMAIN assoc
  BY <1>1, <1>2
<1>4. assoc[Current] = AsCounted(pins[Current]) /\ pins[Current] \in Jacks /\ pins[Current] \in Corrected
  BY <1>2, <1>3, DigitsOf DEF InStep, Typed
<1>5. \E v \in Corrected :
        /\ verbs' = Append(verbs, v) /\ newassoclist' = Append(newassoclist, AsCounted(v))
        /\ assoc' = [assoc EXCEPT ![Current] = AsCounted(v)]
  <2>1. CASE KeepAssociation
    <3>1. assoc = [assoc EXCEPT ![Current] = assoc[Current]]
      BY DEF Typed
    <3>2. assoc' = assoc /\ verbs' = Append(verbs, pins[Current]) /\ newassoclist' = Append(newassoclist, assoc[Current])
      BY <2>1 DEF KeepAssociation
    <3> QED
      BY <1>4, <3>1, <3>2
  <2>2. CASE ReplaceAssociation
    <3> DEFINE a == IF nextassoc < Len(unused) THEN unused[nextassoc + 1] ELSE NoDigit
               v == [pins[Current] EXCEPT !.assoc = a]
    <3>1. a \in Digit \cup {NoDigit} /\ a # 0
      <4>1. unused \in Seq(1 .. 14) /\ nextassoc \in Nat /\ Len(unused) \in Nat
        BY DEF Typed
      <4>2. nextassoc < Len(unused) => nextassoc + 1 \in 1 .. Len(unused)
        BY <4>1
      <4>3. nextassoc < Len(unused) => unused[nextassoc + 1] \in 1 .. 14
        BY <4>1, <4>2, PlaceIn
      <4>4. 1 .. 14 \subseteq Digit \ {0} /\ NoDigit # 0
        BY DEF Digit, NoDigit
      <4> QED
        BY <4>3, <4>4
    <3>2. /\ assoc' = [assoc EXCEPT ![Current] = a] /\ verbs' = Append(verbs, v)
          /\ newassoclist' = Append(newassoclist, a)
      BY <2>2 DEF ReplaceAssociation
    <3> HIDE DEF a
    <3>3. v \in Corrected /\ v.assoc = a
      BY <1>4, <3>1, DigitsOf
    <3> HIDE DEF v
    <3>4. AsCounted(v) = a
      BY <3>1, <3>3 DEF AsCounted
    <3> QED
      BY <3>2, <3>3, <3>4
  <2> QED
    BY <2>1, <2>2
<1>6. PICK v \in Corrected :
        /\ verbs' = Append(verbs, v) /\ newassoclist' = Append(newassoclist, AsCounted(v))
        /\ assoc' = [assoc EXCEPT ![Current] = AsCounted(v)]
  BY <1>5
<1>7. AsCounted(v) \in Digit \cup {NoDigit}
  BY DEF AsCounted, Corrected, Digit
<1>8. /\ DOMAIN newassoclist' = 1 .. Current /\ Len(newassoclist') = Current
      /\ newassoclist'[Current] = AsCounted(v)
      /\ \A n \in 1 .. Current - 1 : newassoclist'[n] = newassoclist[n]
  BY <1>2, <1>6, <1>7 DEF Typed
<1>9. verbs'[Current] = v /\ \A n \in 1 .. Current - 1 : verbs'[n] = verbs[n]
  BY <1>2, <1>6 DEF Typed
<1>10. /\ DOMAIN assoc' = 1 .. Len(pins) /\ assoc'[Current] = AsCounted(v)
       /\ \A n \in 1 .. Len(pins) : n # Current => assoc'[n] = assoc[n]
  BY <1>2, <1>3, <1>6
<1>11. Elements(newassoclist') = Elements(newassoclist) \cup {newassoclist'[Current]}
  <2>1. newassoclist \in Seq(Digit \cup {NoDigit})
    BY DEF Typed
  <2>2. Elements(Append(newassoclist, AsCounted(v))) = Elements(newassoclist) \cup {AsCounted(v)}
    BY <1>7, <2>1, ElementsOfAppend
  <2> QED
    BY <1>6, <1>8, <2>2
<1>12. Current' = Current + 1
  BY <1>2, <1>8 DEF Current
<1> QED
  BY <1>1, <1>2, <1>8, <1>9, <1>10, <1>11, <1>12

LEMMA UsedIsFinite ==
  ASSUME Typed
  PROVE  /\ Used \subseteq Digit /\ 0 \notin Used /\ IsFiniteSet(Used)
         /\ \A n \in DOMAIN pins : AsCounted(pins[n]) \in Used
<1>1. \A p \in Jacks : AsCounted(p) \in 1 .. 15
  BY DEF Jacks, AsCounted, Digit
<1>2. Used \subseteq 1 .. 15
  <2>1. \A n \in DOMAIN pins : pins[n] \in Jacks
    <3>1. pins \in Seq(Jacks)
      BY DEF Typed
    <3> QED
      BY <3>1
  <2> QED
    BY ONLY <1>1, <2>1 DEF Used
<1>3. IsFiniteSet(1 .. 15)
  BY 1 \in Int, 15 \in Int, FS_Interval
<1>4. IsFiniteSet(Used)
  BY <1>2, <1>3, FS_Subset
<1> QED
  BY <1>2, <1>4 DEF Used, Digit

\* A pin keeps its association only when no pin before has it: one that was passed
\* is a duplicate too.
LEMMA Kept ==
  ASSUME Typed, Progress, InStep, UnusedListed, KeepAssociation
  PROVE  /\ newassoclist'[Current] = AsCounted(pins[Current]) /\ verbs'[Current] = pins[Current]
         /\ AsCounted(pins[Current]) \notin Elements(newassoclist) /\ nextassoc' = nextassoc
<1>1. /\ Current \in 1 .. Len(pins) /\ DOMAIN assoc = 1 .. Len(pins)
      /\ DOMAIN newassoclist = 1 .. Current - 1 /\ DOMAIN verbs = 1 .. Current - 1
      /\ Len(pins) \in Nat
  BY Passed
<1>2. assoc[Current] = AsCounted(pins[Current])
  BY <1>1 DEF InStep
<1>3. /\ newassoclist' = Append(newassoclist, assoc[Current]) /\ verbs' = Append(verbs, pins[Current])
      /\ ~(Duplicate /\ SeenBefore) /\ nextassoc' = nextassoc
  BY DEF KeepAssociation
<1>4. newassoclist'[Current] = assoc[Current] /\ verbs'[Current] = pins[Current]
  <2>1. Current = Len(newassoclist) + 1 /\ Current = Len(verbs) + 1
    BY DEF Current, Progress
  <2> QED
    BY <1>3, <2>1 DEF Typed
<1>5. SeenBefore => Duplicate
  <2> SUFFICES ASSUME SeenBefore PROVE Duplicate
    OBVIOUS
  <2>1. PICK n \in 1 .. Current - 1 : assoc[Current] = newassoclist[n]
    BY <1>1 DEF SeenBefore, Elements
  <2>2. n \in DOMAIN assoc \ {Current} /\ assoc[n] = assoc[Current]
    BY <1>1, <2>1 DEF InStep
  <2> QED
    BY <2>2 DEF Duplicate
<1> QED
  BY <1>2, <1>3, <1>4, <1>5 DEF SeenBefore

LEMMA Replaced ==
  ASSUME Typed, Progress, InStep, UnusedListed, ReplaceAssociation
  PROVE  /\ newassoclist'[Current] \notin Used
         /\ nextassoc < Len(unused) => newassoclist'[Current] = unused[nextassoc + 1]
         /\ AsCounted(pins[Current]) \in Elements(newassoclist) /\ nextassoc' = nextassoc + 1
<1>1. Current \in 1 .. Len(pins) /\ DOMAIN assoc = 1 .. Len(pins)
  BY Passed
<1>2. assoc[Current] = AsCounted(pins[Current])
  BY <1>1 DEF InStep
<1> DEFINE a == IF nextassoc < Len(unused) THEN unused[nextassoc + 1] ELSE NoDigit
<1>3. newassoclist' = Append(newassoclist, a) /\ SeenBefore /\ nextassoc' = nextassoc + 1
  BY DEF ReplaceAssociation
<1>4. newassoclist'[Current] = a
  <2>1. Current = Len(newassoclist) + 1
    BY DEF Current
  <2> HIDE DEF a
  <2> QED
    BY <1>3, <2>1 DEF Typed
<1>5. a \notin Used
  <2>1. CASE nextassoc < Len(unused)
    <3>1. nextassoc + 1 \in DOMAIN unused
      BY <2>1 DEF Typed
    <3> QED
      BY <2>1, <3>1 DEF UnusedListed
  <2>2. CASE ~(nextassoc < Len(unused))
    BY <2>2, UsedIsFinite DEF NoDigit, Digit
  <2> QED
    BY <2>1, <2>2
<1> QED
  BY <1>2, <1>3, <1>4, <1>5 DEF SeenBefore

-----------------------------------------------------------------------------
(* One lemma per conjunct of the invariant. *)

Arrays == Typed /\ Progress /\ InStep /\ UnusedListed

\* CorrectRest leaves the associations of the verbs alone.
LEMMA RestCorrected ==
  ASSUME Typed, CorrectRest
  PROVE  DOMAIN verbs' = DOMAIN verbs /\ \A n \in DOMAIN verbs : verbs'[n].assoc = verbs[n].assoc
<1>1. ASSUME NEW v \in Corrected
      PROVE  [v EXCEPT !.misc = 0, !.location = IF @ \in {1, 2} THEN 1 ELSE 0].assoc = v.assoc
  BY DEF Corrected
<1>2. /\ DOMAIN verbs' = DOMAIN verbs
      /\ \A n \in DOMAIN verbs :
           verbs'[n] = [verbs[n] EXCEPT !.misc = 0, !.location = IF @ \in {1, 2} THEN 1 ELSE 0]
  BY DEF CorrectRest
<1>3. \A n \in DOMAIN verbs : verbs[n] \in Corrected
  BY DEF Typed
<1> QED
  BY <1>1, <1>2, <1>3

LEMMA InStepKept == Arrays /\ [Next]_vars => InStep'
<1> SUFFICES ASSUME Typed, Progress, InStep, UnusedListed, [Next]_vars PROVE InStep'
  BY DEF Arrays
<1>1. CASE ReadPin
  <2>1. assoc' = <<>> /\ newassoclist' = <<>>
    BY <1>1 DEF ReadPin, Progress
  <2> QED
    BY <2>1 DEF InStep
<1>2. CASE CountAssociation
  <2>1. /\ newassoclist = <<>> /\ newassoclist' = <<>> /\ pins' = pins
        /\ assoc' = Append(assoc, AsCounted(pins[Len(assoc) + 1]))
    BY <1>2 DEF CountAssociation, Progress, AsCounted
  <2>2. DOMAIN assoc = 1 .. Len(assoc) /\ Len(assoc) \in Nat /\ Current = 1
    BY <2>1 DEF Typed, Current
  <2>3. \A n \in DOMAIN assoc : assoc[n] = AsCounted(pins[n])
    BY <2>2 DEF InStep
  <2>4. \A n \in DOMAIN assoc' : assoc'[n] = AsCounted(pins'[n])
    <3> DEFINE a == AsCounted(pins[Len(assoc) + 1])
    <3>1. a \in Digit \cup {NoDigit}
      <4>1. Len(assoc) + 1 \in DOMAIN pins
        BY <1>2, <2>2 DEF CountAssociation, Typed
      <4> QED
        BY <4>1, UsedIsFinite
    <3>2. assoc' = Append(assoc, a)
      BY <2>1
    <3>3. /\ DOMAIN assoc' = 1 .. Len(assoc) + 1 /\ assoc'[Len(assoc) + 1] = a
          /\ \A n \in 1 .. Len(assoc) : assoc'[n] = assoc[n]
      <4> HIDE DEF a
      <4> QED
        BY <2>2, <3>1, <3>2 DEF Typed
    <3> QED
      BY <2>1, <2>2, <2>3, <3>3
  <2> QED
    BY <2>1, <2>4 DEF InStep
<1>3. CASE EndOfDump \/ FindUnused \/ EndOfCount \/ UNCHANGED vars
  <2>1. UNCHANGED <<pins, assoc, newassoclist, verbs>>
    BY <1>3 DEF EndOfDump, FindUnused, EndOfCount, vars
  <2> QED
    BY <2>1 DEF InStep, Current
<1>4. CASE KeepAssociation \/ ReplaceAssociation
  <2>1. ASSUME NEW n \in DOMAIN assoc', n >= Current' PROVE assoc'[n] = AsCounted(pins'[n])
    <3>1. /\ Current \in Nat \ {0} /\ Len(pins) \in Nat /\ Current' = Current + 1 /\ pins' = pins
          /\ DOMAIN assoc = 1 .. Len(pins) /\ DOMAIN assoc' = 1 .. Len(pins)
          /\ \A m \in 1 .. Len(pins) : m # Current => assoc'[m] = assoc[m]
      BY <1>4, Passed
    <3>2. n \in 1 .. Len(pins)
      BY <2>1, <3>1
    <3>3. n >= Current /\ n # Current
      BY <2>1, <3>1, <3>2
    <3>4. n \in DOMAIN assoc /\ assoc'[n] = assoc[n]
      BY <3>1, <3>2, <3>3
    <3> QED
      BY <3>1, <3>3, <3>4 DEF InStep
  <2>2. ASSUME NEW n \in DOMAIN newassoclist'
        PROVE  assoc'[n] = newassoclist'[n] /\ AsCounted(verbs'[n]) = newassoclist'[n]
    <3>1. CASE n = Current
      BY <1>4, <3>1, Passed
    <3>2. CASE n # Current
      <4>1. n \in 1 .. Current - 1 /\ n \in 1 .. Len(pins)
        <5>1. Current \in Nat /\ Len(pins) \in Nat /\ Current <= Len(pins) /\ DOMAIN newassoclist' = 1 .. Current
          BY <1>4, Passed
        <5> QED
          BY <3>2, <5>1
      <4>2. /\ n \in DOMAIN newassoclist /\ assoc'[n] = assoc[n]
            /\ newassoclist'[n] = newassoclist[n] /\ verbs'[n] = verbs[n]
        BY <1>4, <3>2, <4>1, Passed
      <4> QED
        BY <4>2 DEF InStep
    <3> QED
      BY <3>1, <3>2
  <2> QED
    BY <2>1, <2>2 DEF InStep
<1>5. CASE CorrectRest
  <2>1. UNCHANGED <<pins, assoc, newassoclist>>
    BY <1>5 DEF CorrectRest
  <2>2. DOMAIN newassoclist = DOMAIN verbs
    BY DEF Typed, Progress
  <2>3. \A n \in DOMAIN newassoclist : AsCounted(verbs'[n]) = AsCounted(verbs[n])
    BY <1>5, <2>2, RestCorrected DEF AsCounted
  <2> QED
    BY <2>1, <2>3 DEF InStep, Current
<1> QED
  BY <1>1, <1>2, <1>3, <1>4, <1>5 DEF Next

LEMMA UnusedListedKept == Arrays /\ [Next]_vars => UnusedListed'
<1> SUFFICES ASSUME Typed, Progress, InStep, UnusedListed, [Next]_vars PROVE UnusedListed'
  BY DEF Arrays
<1>1. CASE ReadPin
  <2>1. unused' = <<>> /\ ihex' = 1
    BY <1>1 DEF ReadPin, Progress
  <2>2. Used' \cap (1 .. ihex' - 1) = {}
    BY <2>1
  <2>3. Cardinality(Used' \cap (1 .. ihex' - 1)) = 0
    BY <2>2, FS_EmptySet
  <2> QED
    BY <2>1, <2>3 DEF UnusedListed
<1>2. CASE FindUnused
  <2>1. /\ Len(assoc) = Len(pins) /\ pins' = pins /\ ihex' = ihex + 1
        /\ unused' = IF ihex \in Elements(assoc) THEN unused ELSE Append(unused, ihex)
        /\ newassoclist = <<>> /\ ihex \in 1 .. 14
    BY <1>2 DEF FindUnused, Progress, LastHandedOut, Typed
  <2>2. Elements(assoc) = Used
    <3>1. DOMAIN assoc = DOMAIN pins /\ \A n \in DOMAIN assoc : n >= 1 /\ Current = 1
      BY <2>1 DEF Typed, Current
    <3>2. \A n \in DOMAIN assoc : assoc[n] = AsCounted(pins[n])
      BY <3>1 DEF InStep
    <3> QED
      BY <3>1, <3>2 DEF Elements, Used
  <2>3. Used' = Used
    BY <2>1 DEF Used
  <2> DEFINE Before == Used \cap (1 .. ihex - 1)
  <2>4. IsFiniteSet(Before) /\ Cardinality(Before) \in Nat
    BY UsedIsFinite, FS_Subset, FS_CardinalityType
  <2>5. Len(unused) \in Nat /\ DOMAIN unused = 1 .. Len(unused)
    BY DEF Typed
  <2>6. Len(unused) + Cardinality(Before) = ihex - 1
    BY DEF UnusedListed
  <2>7. \A k \in DOMAIN unused : unused[k] \in Nat /\ unused[k] < ihex
    <3>1. \A k \in DOMAIN unused : unused[k] \in 1 .. 14
      <4>1. unused \in Seq(1 .. 14)
        BY DEF Typed
      <4> QED
        BY <2>5, <4>1, PlaceIn
    <3>2. \A k \in DOMAIN unused : unused[k] < ihex
      BY DEF UnusedListed
    <3> QED
      BY <3>1, <3>2
  <2>8. CASE ihex \in Used
    <3>1. Used \cap (1 .. (ihex + 1) - 1) = Before \cup {ihex} /\ ihex \notin Before
      BY <2>1, <2>8
    <3>2. Cardinality(Used \cap (1 .. (ihex + 1) - 1)) = Cardinality(Before) + 1
      BY <2>4, <3>1, FS_AddElement
    <3>3. unused' = unused
      BY <2>1, <2>2, <2>8
    <3>4. \A k \in DOMAIN unused : unused[k] < ihex + 1
      BY <2>1, <2>7
    <3>5. Len(unused) + Cardinality(Used \cap (1 .. (ihex + 1) - 1)) = (ihex + 1) - 1
      BY <2>1, <2>4, <2>5, <2>6, <3>2
    <3> QED
      BY <2>1, <2>3, <3>3, <3>4, <3>5 DEF UnusedListed
  <2>9. CASE ihex \notin Used
    <3>1. Used \cap (1 .. (ihex + 1) - 1) = Before
      BY <2>1, <2>9
    <3>2. unused' = Append(unused, ihex)
      BY <2>1, <2>2, <2>9
    <3>3. /\ Len(unused') = Len(unused) + 1 /\ DOMAIN unused' = 1 .. Len(unused) + 1
          /\ unused'[Len(unused) + 1] = ihex /\ \A k \in DOMAIN unused : unused'[k] = unused[k]
      BY <2>1, <3>2 DEF Typed
    <3>5. ASSUME NEW k \in DOMAIN unused' PROVE unused'[k] < ihex + 1 /\ unused'[k] \notin Used
      <4>1. CASE k = Len(unused) + 1
        BY <2>1, <2>9, <3>3, <4>1
      <4>2. CASE k # Len(unused) + 1
        <5>1. k \in DOMAIN unused
          BY <2>5, <3>3, <4>2
        <5> QED
          BY <2>1, <2>7, <3>3, <5>1 DEF UnusedListed
      <4> QED
        BY <4>1, <4>2
    <3>6. ASSUME NEW k \in DOMAIN unused', NEW l \in DOMAIN unused', k < l PROVE unused'[k] < unused'[l]
      <4>1. k \in DOMAIN unused
        BY <2>5, <3>3, <3>6
      <4>2. CASE l = Len(unused) + 1
        BY <2>7, <3>3, <4>1, <4>2
      <4>3. CASE l # Len(unused) + 1
        <5>1. l \in DOMAIN unused
          BY <2>5, <3>3, <4>3
        <5> QED
          BY <3>3, <3>6, <4>1, <5>1 DEF UnusedListed
      <4> QED
        BY <4>2, <4>3
    <3>7. Len(unused') + Cardinality(Used \cap (1 .. (ihex + 1) - 1)) = (ihex + 1) - 1
      <4>1. Cardinality(Used \cap (1 .. (ihex + 1) - 1)) = Cardinality(Before)
        BY <3>1
      <4> QED
        BY <2>1, <2>4, <2>5, <2>6, <3>3, <4>1
    <3> QED
      BY <2>1, <2>3, <3>5, <3>6, <3>7 DEF UnusedListed
  <2> QED
    BY <2>8, <2>9
<1>3. CASE EndOfDump \/ CountAssociation \/ EndOfCount \/ CorrectRest \/ UNCHANGED vars
  <2>1. UNCHANGED <<pins, ihex, unused>>
    BY <1>3 DEF EndOfDump, CountAssociation, EndOfCount, CorrectRest, vars
  <2> QED
    BY <2>1 DEF UnusedListed, Used
<1>4. CASE KeepAssociation \/ ReplaceAssociation
  <2>1. UNCHANGED <<pins, ihex, unused>>
    BY <1>4 DEF KeepAssociation, ReplaceAssociation
  <2> QED
    BY <2>1 DEF UnusedListed, Used
<1> QED
  BY <1>1, <1>2, <1>3, <1>4 DEF Next

LEMMA FirstKeepsKept == Arrays /\ FirstKeeps /\ [Next]_vars => FirstKeeps'
<1> SUFFICES ASSUME Typed, Progress, InStep, UnusedListed, FirstKeeps, [Next]_vars PROVE FirstKeeps'
  BY DEF Arrays
<1> DEFINE Keeps(n) ==
             /\ AsCounted(pins[n]) \in Elements(newassoclist)
             /\ newassoclist[n] = AsCounted(pins[n]) \/ newassoclist[n] \notin Used
             /\ (\A m \in 1 .. n - 1 : AsCounted(pins[m]) # AsCounted(pins[n]))
                  => verbs[n].assoc = pins[n].assoc
<1>1. CASE ReadPin
  <2>1. newassoclist' = <<>> /\ nextassoc' = 0
    BY <1>1 DEF ReadPin, Progress
  <2>2. Used' \cap Elements(newassoclist') = {}
    BY <2>1 DEF Elements
  <2>3. Cardinality(Used' \cap Elements(newassoclist')) = 0 /\ Len(newassoclist') = 0
    BY <2>1, <2>2, FS_EmptySet
  <2> QED
    BY <2>1, <2>3 DEF FirstKeeps
<1>2. CASE EndOfDump \/ CountAssociation \/ FindUnused \/ EndOfCount \/ UNCHANGED vars
  <2>1. UNCHANGED <<pins, newassoclist, verbs, nextassoc>>
    BY <1>2 DEF EndOfDump, CountAssociation, FindUnused, EndOfCount, vars
  <2> QED
    BY <2>1 DEF FirstKeeps, Used, Elements
<1>3. CASE CorrectRest
  <2>1. UNCHANGED <<pins, newassoclist, nextassoc>>
    BY <1>3 DEF CorrectRest
  <2>2. \A n \in DOMAIN newassoclist : verbs'[n].assoc = verbs[n].assoc
    BY <1>3, RestCorrected DEF Typed, Progress
  <2> QED
    BY <2>1, <2>2 DEF FirstKeeps, Used, Elements
<1>4. CASE KeepAssociation \/ ReplaceAssociation
  <2>1. /\ Current \in Nat \ {0} /\ Current \in DOMAIN pins /\ DOMAIN newassoclist = 1 .. Current - 1
        /\ Len(newassoclist) = Current - 1 /\ DOMAIN newassoclist' = 1 .. Current /\ pins' = pins
        /\ Elements(newassoclist') = Elements(newassoclist) \cup {newassoclist'[Current]}
        /\ \A n \in 1 .. Current - 1 : newassoclist'[n] = newassoclist[n] /\ verbs'[n] = verbs[n]
    BY <1>4, Passed
  <2>2. Used' = Used
    BY <2>1 DEF Used
  <2>3. AsCounted(pins[Current]) \in Used
    BY <2>1, UsedIsFinite
  <2>4. /\ AsCounted(pins[Current]) \in Elements(newassoclist')
        /\ newassoclist'[Current] = AsCounted(pins[Current]) \/ newassoclist'[Current] \notin Used
        /\ (\A m \in 1 .. Current - 1 : AsCounted(pins[m]) # AsCounted(pins[Current]))
             => verbs'[Current].assoc = pins[Current].assoc
    <3>1. CASE KeepAssociation
      BY <2>1, <3>1, Kept
    <3>2. CASE ReplaceAssociation
      <4>1. AsCounted(pins[Current]) \in Elements(newassoclist) /\ newassoclist'[Current] \notin Used
        BY <3>2, Replaced
      <4>2. PICK m \in 1 .. Current - 1 : newassoclist[m] = AsCounted(pins[Current])
        BY <2>1, <4>1 DEF Elements
      <4>3. newassoclist[m] = AsCounted(pins[m])
        BY <2>1, <2>3, <4>2 DEF FirstKeeps
      <4> QED
        BY <2>1, <4>1, <4>2, <4>3
    <3> QED
      BY <1>4, <3>1, <3>2
  <2>5. ASSUME NEW n \in DOMAIN newassoclist' PROVE Keeps(n)'
    <3>1. CASE n = Current
      BY <2>1, <2>2, <2>4, <3>1
    <3>2. CASE n # Current
      <4>1. n \in 1 .. Current - 1
        BY <2>1, <3>2
      <4>2. Keeps(n)
        BY <2>1, <4>1 DEF FirstKeeps
      <4> QED
        BY <2>1, <2>2, <4>1, <4>2
    <3> QED
      BY <3>1, <3>2
  <2> DEFINE K == Used \cap Elements(newassoclist)
  <2>6. IsFiniteSet(K) /\ Cardinality(K) \in Nat /\ Cardinality(K) + nextassoc = Len(newassoclist)
        /\ nextassoc \in Nat
    BY UsedIsFinite, FS_Subset, FS_CardinalityType DEF FirstKeeps, Typed
  <2>7. Len(newassoclist') = Current
    BY <2>1, TypedStep DEF Typed
  <2>8. Cardinality(Used \cap Elements(newassoclist')) + nextassoc' = Len(newassoclist')
    <3>1. CASE KeepAssociation
      <4>1. /\ newassoclist'[Current] \in Used /\ newassoclist'[Current] \notin Elements(newassoclist)
            /\ nextassoc' = nextassoc
        BY <2>3, <3>1, Kept
      <4>2. Used \cap Elements(newassoclist') = K \cup {newassoclist'[Current]} /\ newassoclist'[Current] \notin K
        BY <2>1, <4>1
      <4>3. Cardinality(Used \cap Elements(newassoclist')) = Cardinality(K) + 1
        BY <2>6, <4>2, FS_AddElement
      <4> HIDE DEF K
      <4> QED
        BY <2>1, <2>6, <2>7, <4>1, <4>3
    <3>2. CASE ReplaceAssociation
      <4>1. newassoclist'[Current] \notin Used /\ nextassoc' = nextassoc + 1
        BY <3>2, Replaced
      <4>2. Used \cap Elements(newassoclist') = K
        BY <2>1, <4>1
      <4> HIDE DEF K
      <4>3. Cardinality(Used \cap Elements(newassoclist')) = Cardinality(K)
        BY <4>2
      <4>4. Len(newassoclist') = Len(newassoclist) + 1 /\ Len(newassoclist) \in Nat
        BY <2>7 DEF Current, Typed
      <4> QED
        BY ONLY <2>6, <4>1, <4>3, <4>4
    <3> QED
      BY <1>4, <3>1, <3>2
  <2> QED
    BY <2>2, <2>5, <2>8 DEF FirstKeeps
<1> QED
  BY <1>1, <1>2, <1>3, <1>4 DEF Next

\* The arithmetic of the script: when the pin at Current must get another
\* association, nextassoc of those before it did; the pins before hold the
\* associations of the dump that came up so far, and those behind it the rest.  As
\* there are at most 14 pins, one of the unused ones is left.
LEMMA EnoughUnused ==
  ASSUME Typed, Progress, InStep, UnusedListed, FirstKeeps, ReplaceAssociation, Len(pins) <= 14
  PROVE  nextassoc < Len(unused)
<1>1. /\ Current \in Nat \ {0} /\ Len(pins) \in Nat /\ Current <= Len(pins)
      /\ DOMAIN pins = 1 .. Len(pins) /\ DOMAIN newassoclist = 1 .. Current - 1
      /\ Len(newassoclist) = Current - 1
  BY Passed
<1>2. ihex = 15 /\ nextassoc \in Nat /\ Len(unused) \in Nat
  BY DEF ReplaceAssociation, Progress, Typed
<1>3. AsCounted(pins[Current]) \in Elements(newassoclist)
  BY Replaced
<1> DEFINE K == Used \cap Elements(newassoclist)
           counted == [n \in 1 .. Len(pins) |-> AsCounted(pins[n])]
           Rest == {counted[n] : n \in Current + 1 .. Len(pins)}
<1>4. IsFiniteSet(Used) /\ IsFiniteSet(K) /\ Cardinality(K) \in Nat /\ Cardinality(Used) \in Nat
  BY UsedIsFinite, FS_Subset, FS_CardinalityType
<1>5. IsFiniteSet(Rest) /\ Cardinality(Rest) <= Len(pins) + 1 - (Current + 1)
  <2>1. Current + 1 \in Nat /\ Current + 1 <= Len(pins) + 1
    BY <1>1
  <2> HIDE DEF counted
  <2> QED
    BY <1>1, <2>1, ValuesCounted
<1>6. Used \subseteq K \cup Rest
  <2> SUFFICES ASSUME NEW n \in 1 .. Len(pins), AsCounted(pins[n]) \notin Rest
               PROVE  AsCounted(pins[n]) \in Elements(newassoclist)
    BY <1>1 DEF Used
  <2>1. ~(n \in Current + 1 .. Len(pins))
    BY <1>1
  <2>2. n = Current \/ n \in 1 .. Current - 1
    BY <1>1, <2>1
  <2> QED
    BY <1>1, <1>3, <2>2 DEF FirstKeeps
<1> HIDE DEF K, Rest
<1>7. Cardinality(Used) <= Cardinality(K) + (Len(pins) - Current)
  <2>1. IsFiniteSet(K \cup Rest) /\ Cardinality(K \cup Rest) <= Cardinality(K) + Cardinality(Rest)
    <3>1. /\ IsFiniteSet(K \cup Rest) /\ IsFiniteSet(K \cap Rest)
          /\ Cardinality(K \cup Rest) = Cardinality(K) + Cardinality(Rest) - Cardinality(K \cap Rest)
      BY <1>4, <1>5, FS_Union, FS_Intersection
    <3>2. Cardinality(K \cap Rest) \in Nat /\ Cardinality(Rest) \in Nat
      BY <1>5, <3>1, FS_CardinalityType
    <3> QED
      BY <1>4, <3>1, <3>2
  <2>2. Cardinality(Used) <= Cardinality(K \cup Rest)
    BY <1>6, <2>1, FS_Subset
  <2>3. Cardinality(K \cup Rest) \in Nat /\ Cardinality(Rest) \in Nat
    BY <1>5, <2>1, FS_CardinalityType
  <2> QED
    BY <1>1, <1>4, <1>5, <2>1, <2>2, <2>3
<1>8. Cardinality(K) + nextassoc = Current - 1
  BY <1>1 DEF FirstKeeps, K
<1>9. Len(unused) >= 14 - Cardinality(Used)
  <2>1. Len(unused) + Cardinality(Used \cap (1 .. ihex - 1)) = ihex - 1
    BY DEF UnusedListed
  <2>2. /\ Cardinality(Used \cap (1 .. ihex - 1)) <= Cardinality(Used)
        /\ Cardinality(Used \cap (1 .. ihex - 1)) \in Nat
    BY <1>4, FS_Subset, FS_CardinalityType
  <2> QED
    BY <1>2, <1>4, <2>1, <2>2
<1> QED
  BY <1>1, <1>2, <1>4, <1>7, <1>8, <1>9

LEMMA NoneTwiceKept == Arrays /\ FirstKeeps /\ NoneTwice /\ [Next]_vars => NoneTwice'
<1> SUFFICES ASSUME Typed, Progress, InStep, UnusedListed, FirstKeeps, NoneTwice, [Next]_vars PROVE NoneTwice'
  BY DEF Arrays
<1>1. CASE ReadPin
  <2>1. newassoclist' = <<>> /\ nextassoc' = 0 /\ unused' = <<>>
    BY <1>1 DEF ReadPin, Progress
  <2> QED
    BY <2>1 DEF NoneTwice
<1>2. CASE FindUnused
  <2>1. newassoclist' = <<>> /\ nextassoc' = 0
    BY <1>2 DEF FindUnused, Progress
  <2>2. Len(unused') \in Nat
    BY TypedStep DEF Typed
  <2> QED
    BY <2>1, <2>2 DEF NoneTwice
<1>3. CASE EndOfDump \/ CountAssociation \/ EndOfCount \/ CorrectRest \/ UNCHANGED vars
  <2>1. UNCHANGED <<pins, newassoclist, nextassoc, unused>>
    BY <1>3 DEF EndOfDump, CountAssociation, EndOfCount, CorrectRest, vars
  <2> QED
    BY <2>1 DEF NoneTwice, Used
<1>4. CASE KeepAssociation \/ ReplaceAssociation
  <2> SUFFICES ASSUME Len(pins') <= 14
               PROVE  /\ nextassoc' <= Len(unused')
                      /\ \A n \in DOMAIN newassoclist' :
                           \/ newassoclist'[n] \in Used'
                           \/ \E k \in 1 .. nextassoc' : newassoclist'[n] = unused'[k]
                      /\ \A m, n \in DOMAIN newassoclist' :
                           m # n => newassoclist'[m] # newassoclist'[n]
    BY DEF NoneTwice
  <2>1. /\ Current \in Nat \ {0} /\ Current \in DOMAIN pins /\ DOMAIN newassoclist = 1 .. Current - 1
        /\ DOMAIN newassoclist' = 1 .. Current /\ pins' = pins /\ unused' = unused
        /\ \A n \in 1 .. Current - 1 : newassoclist'[n] = newassoclist[n]
    BY <1>4, Passed
  <2>2. Used' = Used
    BY <2>1 DEF Used
  <2>3. /\ nextassoc \in Nat /\ Len(unused) \in Nat /\ DOMAIN unused = 1 .. Len(unused)
        /\ nextassoc <= Len(unused)
    BY <2>1 DEF Typed, NoneTwice
  <2>4. /\ nextassoc' \in {nextassoc, nextassoc + 1} /\ nextassoc' <= Len(unused)
        /\ \/ newassoclist'[Current] \in Used
           \/ \E k \in 1 .. nextassoc' : newassoclist'[Current] = unused[k]
        /\ newassoclist'[Current] \notin Elements(newassoclist)
    <3>1. CASE KeepAssociation
      BY <2>1, <2>3, <3>1, Kept, UsedIsFinite
    <3>2. CASE ReplaceAssociation
      <4>1. nextassoc < Len(unused)
        BY <2>1, <3>2, EnoughUnused
      <4>2. /\ newassoclist'[Current] = unused[nextassoc + 1] /\ nextassoc' = nextassoc + 1
            /\ newassoclist'[Current] \notin Used
        BY <3>2, <4>1, Replaced
      <4>3. ASSUME NEW n \in DOMAIN newassoclist PROVE newassoclist[n] # newassoclist'[Current]
        <5>1. CASE newassoclist[n] \in Used
          BY <4>2, <5>1
        <5>2. CASE newassoclist[n] \notin Used
          <6>1. PICK k \in 1 .. nextassoc : newassoclist[n] = unused[k]
            BY <2>1, <5>2 DEF NoneTwice
          <6>2. k \in DOMAIN unused /\ nextassoc + 1 \in DOMAIN unused /\ k < nextassoc + 1
            BY <2>3, <4>1, <6>1
          <6>3. unused[k] < unused[nextassoc + 1]
            BY <6>2 DEF UnusedListed
          <6>4. unused[k] \in Nat
            <7>1. unused \in Seq(1 .. 14)
              BY DEF Typed
            <7>2. unused[k] \in 1 .. 14
              BY ONLY <2>3, <6>2, <7>1, PlaceIn
            <7> QED
              BY ONLY <7>2
          <6> QED
            BY <4>2, <6>1, <6>3, <6>4
        <5> QED
          BY <5>1, <5>2
      <4> QED
        BY <2>3, <4>1, <4>2, <4>3 DEF Elements
    <3> QED
      BY <1>4, <3>1, <3>2
  <2>5. ASSUME NEW n \in DOMAIN newassoclist'
        PROVE  newassoclist'[n] \in Used \/ \E k \in 1 .. nextassoc' : newassoclist'[n] = unused[k]
    <3>1. CASE n = Current
      BY <2>4, <3>1
    <3>2. CASE n # Current
      <4>1. n \in DOMAIN newassoclist /\ newassoclist'[n] = newassoclist[n]
        BY <2>1, <3>2
      <4>2. newassoclist[n] \in Used \/ \E k \in 1 .. nextassoc : newassoclist[n] = unused[k]
        BY <2>1, <4>1 DEF NoneTwice
      <4> QED
        BY <2>3, <2>4, <4>1, <4>2
    <3> QED
      BY <3>1, <3>2
  <2>6. ASSUME NEW m \in DOMAIN newassoclist', NEW n \in DOMAIN newassoclist', m < n
        PROVE  newassoclist'[m] # newassoclist'[n]
    <3>1. m \in DOMAIN newassoclist /\ newassoclist'[m] = newassoclist[m]
      BY <2>1, <2>6
    <3>2. CASE n = Current
      BY <2>4, <3>1, <3>2 DEF Elements
    <3>3. CASE n # Current
      <4>1. n \in DOMAIN newassoclist /\ newassoclist'[n] = newassoclist[n] /\ m # n
        BY <2>1, <2>6, <3>3
      <4> QED
        BY <2>1, <3>1, <4>1 DEF NoneTwice
    <3> QED
      BY <3>2, <3>3
  <2>7. \A m, n \in DOMAIN newassoclist' : m # n => newassoclist'[m] # newassoclist'[n]
    <3>1. \A m, n \in DOMAIN newassoclist' : m # n => m < n \/ n < m
      BY <2>1
    <3> QED
      BY <2>6, <3>1
  <2> QED
    BY <2>1, <2>2, <2>4, <2>5, <2>7
<1> QED
  BY <1>1, <1>2, <1>3, <1>4 DEF Next

-----------------------------------------------------------------------------

LEMMA VerbitInvInit == Init => VerbitInv
<1> SUFFICES ASSUME Init PROVE VerbitInv
  OBVIOUS
<1>1. Typed /\ Progress
  BY TypedInit
<1>2. pins = <<>> /\ assoc = <<>> /\ unused = <<>> /\ ihex = 1 /\ newassoclist = <<>> /\ nextassoc = 0
  BY DEF Init
<1>3. Cardinality(Used \cap (1 .. ihex - 1)) = 0 /\ Cardinality(Used \cap Elements(newassoclist)) = 0
  <2>1. Used \cap (1 .. ihex - 1) = {} /\ Used \cap Elements(newassoclist) = {}
    BY <1>2 DEF Elements
  <2> QED
    BY <2>1, FS_EmptySet
<1> QED
  BY <1>1, <1>2, <1>3 DEF VerbitInv, InStep, UnusedListed, FirstKeeps, NoneTwice

LEMMA VerbitInvKept == VerbitInv /\ [Next]_vars => VerbitInv'
  BY TypedStep, ProgressStep, InStepKept, UnusedListedKept, FirstKeepsKept, NoneTwiceKept
     DEF VerbitInv, Arrays

\* Every array keeps its type and is no longer than its loop has come, and an
\* unused association is never one of the dump (verbit.sh 49-302).
THEOREM VerbitTypeCorrect == Spec => []TypeOK
<1>1. VerbitInv => TypeOK
  <2> SUFFICES ASSUME VerbitInv PROVE TypeOK
    OBVIOUS
  <2> USE DEF VerbitInv
  <2>1. Elements(verbs) \subseteq Corrected
    BY ElementsIn DEF Typed
  <2>2. pins \in Seq(Pin)
    <3>1. Jacks \subseteq Pin
      BY DEF Jacks, Pin
    <3> QED
      BY <3>1 DEF Typed
  <2>3. \A n \in DOMAIN pins : AsCounted(pins[n]) \notin Elements(unused)
    BY DEF UnusedListed, Used, Elements
  <2> QED
    BY <2>1, <2>2, <2>3 DEF Typed, Progress, TypeOK, Corrected
<1> QED
  BY VerbitInvInit, VerbitInvKept, <1>1, PTL DEF Spec

\* No two of up to 14 corrected pins share an association, 0 counting as 1, and the
\* first pin of each keeps its own (verbit.sh 134).
THEOREM AssociationsCorrect == Spec => []AssociationsUnique
<1>1. VerbitInv => AssociationsUnique
  <2> SUFFICES ASSUME VerbitInv, pc = "done", Len(pins) <= 14
               PROVE  AssociationsUnique
    BY DEF AssociationsUnique
  <2>1. /\ DOMAIN verbs = DOMAIN pins /\ DOMAIN newassoclist = DOMAIN pins
        /\ DOMAIN pins = 1 .. Len(pins) /\ Len(pins) \in Nat
    BY DEF VerbitInv, Typed, Progress
  <2>2. /\ \A n \in DOMAIN verbs : verbs[n].assoc \in Digit \cup {NoDigit} /\ newassoclist[n] = AsCounted(verbs[n])
        /\ \A n \in DOMAIN verbs : pins[n].assoc \in Digit
    <3>1. \A n \in DOMAIN verbs : verbs[n] \in Corrected /\ pins[n] \in Jacks
      BY <2>1 DEF VerbitInv, Typed
    <3>2. \A n \in DOMAIN verbs : newassoclist[n] = AsCounted(verbs[n])
      BY <2>1 DEF VerbitInv, InStep
    <3> QED
      BY <3>1, <3>2 DEF Corrected, Jacks
  <2>3. ASSUME NEW m \in DOMAIN verbs, NEW n \in DOMAIN verbs, m # n
        PROVE  AsCounted(verbs[m]) # AsCounted(verbs[n])
    BY <2>1, <2>2, <2>3 DEF VerbitInv, NoneTwice
  <2>4. ASSUME NEW n \in DOMAIN verbs PROVE verbs[n].assoc # NoDigit
    <3>1. newassoclist[n] \in Used \/ \E k \in 1 .. nextassoc : newassoclist[n] = unused[k]
      BY <2>1 DEF VerbitInv, NoneTwice
    <3>2. Used \subseteq Nat
      BY UsedIsFinite DEF VerbitInv, Digit
    <3>3. \A k \in 1 .. nextassoc : unused[k] \in Nat
      <4>1. /\ unused \in Seq(1 .. 14) /\ nextassoc \in Nat /\ Len(unused) \in Nat
            /\ nextassoc <= Len(unused)
        BY DEF VerbitInv, NoneTwice, Typed
      <4> SUFFICES ASSUME NEW k \in 1 .. nextassoc PROVE unused[k] \in Nat
        OBVIOUS
      <4>2. k \in 1 .. Len(unused)
        BY ONLY <4>1, k \in 1 .. nextassoc
      <4>3. unused[k] \in 1 .. 14
        BY ONLY <4>1, <4>2, PlaceIn
      <4> QED
        BY ONLY <4>3
    <3>4. newassoclist[n] \in Nat
      <4>1. CASE newassoclist[n] \in Used
        BY <3>2, <4>1
      <4>2. CASE \E k \in 1 .. nextassoc : newassoclist[n] = unused[k]
        BY <3>3, <4>2
      <4> QED
        BY <3>1, <4>1, <4>2
    <3> QED
      BY <2>2, <3>4 DEF AsCounted, NoDigit
  <2>5. ASSUME NEW n \in DOMAIN verbs, \A m \in 1 .. n - 1 : AsCounted(pins[m]) # AsCounted(pins[n])
        PROVE  AsCounted(verbs[n]) = AsCounted(pins[n])
    <3>1. verbs[n].assoc = pins[n].assoc
      BY <2>1, <2>5 DEF VerbitInv, FirstKeeps
    <3> QED
      BY <3>1 DEF AsCounted
  <2> QED
    BY <2>3, <2>4, <2>5 DEF AssociationsUnique
<1> QED
  BY VerbitInvInit, VerbitInvKept, <1>1, PTL DEF Spec
=============================================================================
