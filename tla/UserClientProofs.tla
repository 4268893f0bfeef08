-------------------------- MODULE UserClientProofs --------------------------
(***************************************************************************)
(* Proofs about UserClient, for any number of tools, codecs and command     *)
(* lines.                                                                   *)
(***************************************************************************)
EXTENDS UserClient, FiniteSetTheorems, NaturalsInduction, WellFoundedInduction, TLAPS

-----------------------------------------------------------------------------
(* Sets of naturals.                                                          *)

LEMMA LeastNatural ==
  ASSUME NEW S, S \subseteq Nat, S # {}
  PROVE  \E n \in S : \A k \in S : n <= k
<1>1. IsWellFoundedOn(OpToRel(<, Nat), Nat)
  BY NatLessThanWellFounded
<1>2. PICK n \in S : \A k \in S : ~(<<k, n>> \in OpToRel(<, Nat))
  BY <1>1, WFMin
<1>3. OpToRel(<, Nat) = {ss \in Nat \X Nat : ss[1] < ss[2]}
  BY DEF OpToRel
<1>4. \A k \in S : ~(k < n)
  BY <1>2, <1>3
<1> QED
  BY <1>4

LEMMA GreatestNatural ==
  ASSUME NEW S, S \subseteq Nat, S # {}, NEW bound \in Nat, \A k \in S : k <= bound
  PROVE  \E n \in S : \A k \in S : k <= n
<1> DEFINE Bounds == {m \in Nat : \A k \in S : k <= m}
<1>1. PICK n \in Bounds : \A m \in Bounds : n <= m
  BY LeastNatural, bound \in Bounds
<1>2. CASE n \in S
  BY <1>1, <1>2
<1>3. CASE n \notin S
  <2>1. PICK k \in S : TRUE
    OBVIOUS
  <2>2. \A x \in S : x <= n - 1
    BY <1>1, <1>3
  <2>3. n - 1 \in Bounds
    BY <2>1, <2>2
  <2> QED
    BY <1>1, <2>3
<1> QED
  BY <1>2, <1>3

\* The part of a finite set of naturals below one of its elements, and with it.
LEMMA Counted ==
  ASSUME NEW S, S \subseteq Nat, NEW bound \in Nat, \A k \in S : k <= bound, NEW d \in S
  PROVE  /\ IsFiniteSet({k \in S : k < d}) /\ Cardinality({k \in S : k < d}) \in Nat
         /\ Cardinality({k \in S : k <= d}) = Cardinality({k \in S : k < d}) + 1
<1>1. IsFiniteSet({k \in S : k < d})
  BY FS_BoundedSetOfNaturals
<1>2. Cardinality({k \in S : k < d}) \in Nat
  BY <1>1, FS_CardinalityType
<1>3. {k \in S : k <= d} = {k \in S : k < d} \cup {d} /\ d \notin {k \in S : k < d}
  <2>1. \A k \in S : k <= d <=> k < d \/ k = d
    OBVIOUS
  <2>2. ~(d < d)
    OBVIOUS
  <2> QED
    BY <2>1, <2>2
<1> QED
  BY <1>1, <1>2, <1>3, FS_AddElement

-----------------------------------------------------------------------------
(* The numbers on a command line.                                             *)

LEMMA VerbsFit == \A n \in DOMAIN hda_verbs : hda_verbs[n] \in Nat /\ hda_verbs[n] <= 4095
BY DEF hda_verbs

LEMMA ParamsFit == \A n \in DOMAIN hda_params : hda_params[n] \in Nat /\ hda_params[n] <= 65535
<1>1. \A n \in DOMAIN hda_params : hda_params[n] \in 0 .. 20
  BY DEF hda_params
<1> QED
  BY <1>1

USE NumCodecsAssumption, CommandLinesAssumption, ResponsesAssumption

\* A name is looked up to the value of the only name it begins, or to -1.
LEMMA LookupIs ==
  ASSUME NEW tbl, NEW str, lookup_str(tbl, str) # -1
  PROVE  \E name \in DOMAIN tbl :
           /\ BeginsWith(name, str) /\ lookup_str(tbl, str) = tbl[name]
           /\ \A other \in DOMAIN tbl \ {name} : ~BeginsWith(other, str)
<1> DEFINE found == {n \in DOMAIN tbl : BeginsWith(n, str)}
<1>1. lookup_str(tbl, str) = IF \E n \in found : found = {n} THEN tbl[CHOOSE n \in found : TRUE] ELSE -1
  BY DEF lookup_str
<1>2. PICK name \in found : found = {name}
  BY <1>1
<1>3. (CHOOSE n \in found : TRUE) = name
  BY <1>2
<1>4. lookup_str(tbl, str) = tbl[name]
  BY <1>1, <1>2, <1>3
<1>5. \A n : n \in found <=> n \in DOMAIN tbl /\ BeginsWith(n, str)
  OBVIOUS
<1> HIDE DEF found
<1> QED
  BY <1>2, <1>4, <1>5

\* A word that is accepted stands for what it becomes, within its limit.
LEMMA WordAccepted ==
  ASSUME NEW tbl, NEW limit \in Nat, NEW word \in Word,
         \A n \in DOMAIN tbl : tbl[n] \in Nat /\ tbl[n] <= limit,
         NameOrNumber(tbl, word, limit) # -1
  PROVE  /\ NameOrNumber(tbl, word, limit) \in Nat /\ NameOrNumber(tbl, word, limit) <= limit
         /\ Means(tbl, word, NameOrNumber(tbl, word, limit))
<1>1. CASE word.digit
  BY <1>1 DEF NameOrNumber, Limited, Means, Word
<1>2. CASE ~word.digit
  BY <1>2, LookupIs DEF NameOrNumber, Means
<1> QED
  BY <1>1, <1>2

LEMMA VerbAccepted ==
  ASSUME NEW word \in Word, NameOrNumber(hda_verbs, word, 4095) # -1
  PROVE  /\ NameOrNumber(hda_verbs, word, 4095) \in Nat /\ NameOrNumber(hda_verbs, word, 4095) <= 4095
         /\ Means(hda_verbs, word, NameOrNumber(hda_verbs, word, 4095))
BY VerbsFit, WordAccepted

LEMMA ParamAccepted ==
  ASSUME NEW word \in Word, NameOrNumber(hda_params, word, 65535) # -1
  PROVE  /\ NameOrNumber(hda_params, word, 65535) \in Nat
         /\ NameOrNumber(hda_params, word, 65535) <= 65535
         /\ Means(hda_params, word, NameOrNumber(hda_params, word, 65535))
BY ParamsFit, WordAccepted

LEMMA LimitedIs ==
  ASSUME NEW n \in Int, NEW limit \in Nat, Limited(n, limit) # -1
  PROVE  Limited(n, limit) = n /\ 0 <= n /\ n <= limit
BY DEF Limited

\* -d gives a number: the last one, and 0 without any.
LEMMA DeviceTyped == ASSUME NEW options \in Seq(Option) PROVE Device(options) \in Int
<1> DEFINE given == {n \in DOMAIN options : options[n].flag = "d"}
<1>1. given \subseteq Nat /\ Len(options) \in Nat /\ \A k \in given : k <= Len(options)
  OBVIOUS
<1>2. Device(options) =
        IF given = {} THEN 0 ELSE options[CHOOSE n \in given : \A k \in given : k <= n].value
  BY DEF Device
<1>3. \A n \in given : options[n] \in Option
  OBVIOUS
<1> HIDE DEF given
<1>4. given # {} => (CHOOSE n \in given : \A k \in given : k <= n) \in given
  BY <1>1, GreatestNatural
<1> QED
  BY <1>2, <1>3, <1>4 DEF Option

-----------------------------------------------------------------------------
(* The invariant.                                                             *)

ToolState ==
  [pc : ToolPcs, line : [options : Seq(Option), words : Seq(Word)], nid : Int, verb : Int, params : Int,
   matches : SUBSET Codecs, place : Nat, index : Int, result : Int]

\* A tool has a connection only once it has opened one; a provider is ready
\* before it is published.
ToolsTyped ==
  /\ tool \in [Tools -> ToolState]
  /\ \A t \in Tools : tool[t].pc \in {"start", "match", "next", "open"} => userClient[t] = "none"
  /\ \A t \in Tools : tool[t].pc = "match" => tool[t].place = 0
  /\ \A d \in Codecs : provider[d] = "ready" => readyForVerbs[d]

Typed == TypeOK /\ ToolsTyped

\* What the tool keeps of the words is what they stand for, within the fields of
\* the call.
Accepted(tl) ==
  LET words == tl.line.words
  IN  /\ Len(words) >= 3
      /\ tl.nid = words[1].number /\ tl.nid \in Nat /\ tl.nid <= 255
      /\ Means(hda_verbs, words[2], tl.verb) /\ tl.verb \in Nat /\ tl.verb <= 4095
      /\ Means(hda_params, words[3], tl.params) /\ tl.params \in Nat /\ tl.params <= 65535

\* The loop over the services: the index counts down the services taken.
Counting(tl) ==
  /\ tl.index = Device(tl.line.options) - Cardinality({d \in tl.matches : d <= tl.place})
  /\ tl.place # 0 => tl.index >= 0

Picked(tl, codec) ==
  /\ codec \in tl.matches
  /\ LET dev == Device(tl.line.options)
     IN  Cardinality({d \in tl.matches : d < codec}) = IF dev < 0 THEN 0 ELSE dev

Running == {"match", "next", "open", "call", "send", "execute"}

ToolInv(t) ==
  /\ \A d \in tool[t].matches : VerbsEnabled(d)
  /\ tool[t].pc \in Running => Accepted(tool[t]) /\ ~Sent(t)
  /\ tool[t].pc = "start" => ~Sent(t)
  /\ tool[t].pc = "match" => tool[t].matches = {} /\ tool[t].place = 0
                             /\ tool[t].index = Device(tool[t].line.options)
  /\ tool[t].pc = "next" => Counting(tool[t])
  /\ tool[t].pc \in {"open", "call", "send", "execute"} => Picked(tool[t], tool[t].place)
  /\ Sent(t) =>
       /\ executed[t].codec \in Codecs
       /\ LET words == tool[t].line.words
          IN  /\ executed[t].nid = words[1].number /\ executed[t].nid <= 255
              /\ Means(hda_verbs, words[2], executed[t].verb) /\ executed[t].verb <= 4095
              /\ Means(hda_params, words[3], executed[t].param)
       /\ Picked(tool[t], executed[t].codec)

\* A provider comes up only where verbs are allowed.
Allowed == \A d \in Codecs : provider[d] \notin {"absent", "declined"} => VerbsEnabled(d)

UserInv == Typed /\ Allowed /\ \A t \in Tools : ToolInv(t)

-----------------------------------------------------------------------------
(* Types.                                                                     *)

KextTyped ==
  /\ alcVerbs \in [Codecs -> {0, 1}] /\ bootArg \in {None, 0, 1}
  /\ provider \in [Codecs -> ProviderStates] /\ readyForVerbs \in [Codecs -> BOOLEAN]
  /\ \A d \in Codecs : provider[d] = "ready" \/ Published(d) => readyForVerbs[d]
  /\ shared \in BOOLEAN /\ family \in {"absent", "routed", "failed", "unpatched"}

Clients == {"none", "active", "inactive"}
Executed == [codec : 0 .. NumCodecs, nid : Nat, verb : Nat, param : Nat]

ClientOK(tl, client) ==
  /\ tl.place \in tl.matches \cup {0}
  /\ tl.pc \in {"open", "call", "send", "execute"} => tl.place > 0
  /\ tl.pc \in {"call", "send", "execute"} => client # "none"
  /\ client = "active" => tl.place > 0 /\ Published(tl.place)
  /\ tl.pc \in {"start", "match", "next", "open"} => client = "none"
  /\ tl.pc = "match" => tl.place = 0

LEMMA TypedIs ==
  Typed <=> /\ KextTyped
            /\ tool \in [Tools -> ToolState] /\ userClient \in [Tools -> Clients]
            /\ executed \in [Tools -> Executed]
            /\ \A t \in Tools : ClientOK(tool[t], userClient[t])
<1>1. tool \in [Tools -> ToolState] =>
        \A t \in Tools : tool[t].pc \in ToolPcs /\ tool[t].matches \subseteq Codecs
  BY DEF ToolState
<1>2. Typed => /\ KextTyped /\ tool \in [Tools -> ToolState] /\ userClient \in [Tools -> Clients]
               /\ executed \in [Tools -> Executed]
  BY DEF Typed, TypeOK, ToolsTyped, KextTyped, Clients, Executed
<1>3. Typed => \A t \in Tools : ClientOK(tool[t], userClient[t])
  BY DEF Typed, TypeOK, ToolsTyped, ClientOK, Target
<1>4. ASSUME KextTyped, tool \in [Tools -> ToolState], userClient \in [Tools -> Clients],
             executed \in [Tools -> Executed], \A t \in Tools : ClientOK(tool[t], userClient[t])
      PROVE  Typed
  BY <1>1, <1>4 DEF Typed, TypeOK, ToolsTyped, KextTyped, Clients, Executed, ClientOK, Target
<1> QED
  BY <1>2, <1>3, <1>4

LEMMA TypedIsPrimed ==
  ASSUME KextTyped', tool' \in [Tools -> ToolState], userClient' \in [Tools -> Clients],
         executed' \in [Tools -> Executed], \A t \in Tools : ClientOK(tool[t], userClient[t])'
  PROVE  Typed'
<1>1. \A t \in Tools : tool'[t].pc \in ToolPcs /\ tool'[t].matches \subseteq Codecs
  BY DEF ToolState
<1> QED
  BY <1>1 DEF Typed, TypeOK, ToolsTyped, KextTyped, Clients, Executed, ClientOK, Target

LEMMA NoToolTyped == NoTool \in ToolState
BY DEF NoTool, ToolState, ToolPcs, None

LEMMA MatchTyped ==
  ASSUME NEW tl \in ToolState, NEW S \in SUBSET Codecs
  PROVE  [tl EXCEPT !.pc = "next", !.matches = S] \in ToolState
<1>1. "next" \in ToolPcs
  BY DEF ToolPcs
<1> QED
  BY <1>1 DEF ToolState

LEMMA PcTyped ==
  ASSUME NEW tl \in ToolState, NEW pc \in ToolPcs
  PROVE  [tl EXCEPT !.pc = pc] \in ToolState
BY DEF ToolState

LEMMA ResultTyped ==
  ASSUME NEW tl \in ToolState, NEW pc \in ToolPcs, NEW result \in Int
  PROVE  [tl EXCEPT !.pc = pc, !.result = result] \in ToolState
BY DEF ToolState

LEMMA TakeTyped ==
  ASSUME NEW tl \in ToolState, NEW pc \in ToolPcs, NEW d \in Nat
  PROVE  [tl EXCEPT !.pc = pc, !.place = d, !.index = @ - 1] \in ToolState
<1>1. tl.index - 1 \in Int
  BY DEF ToolState
<1>2. [tl EXCEPT !.pc = pc, !.place = d, !.index = @ - 1] =
        [tl EXCEPT !.pc = pc, !.place = d, !.index = tl.index - 1]
  BY DEF ToolState
<1>3. ASSUME NEW n \in Int PROVE [tl EXCEPT !.pc = pc, !.place = d, !.index = n] \in ToolState
  BY DEF ToolState
<1> QED
  BY <1>1, <1>2, <1>3

LEMMA UserTypeInit == Init => Typed
<1> SUFFICES ASSUME Init PROVE Typed
  OBVIOUS
<1>1. NoTool \in ToolState
  BY NoToolTyped
<1>2. KextTyped
  BY DEF Init, KextTyped, ProviderStates, Published
<1>3. /\ tool \in [Tools -> ToolState] /\ \A t \in Tools : tool[t] = NoTool
      /\ userClient \in [Tools -> Clients] /\ \A t \in Tools : userClient[t] = "none"
  BY <1>1 DEF Init, Clients
<1>4. executed \in [Tools -> Executed]
  BY DEF Init, NoVerb, Executed
<1>5. \A t \in Tools : ClientOK(tool[t], userClient[t])
  BY <1>3 DEF ClientOK, NoTool
<1> QED
  BY <1>2, <1>3, <1>4, <1>5, TypedIs

LEMMA ToolBecomes ==
  ASSUME Typed, NEW t \in Tools, NEW new \in ToolState, Becomes(t, new)
  PROVE  /\ tool' \in [Tools -> ToolState] /\ tool'[t] = new
         /\ \A x \in Tools \ {t} : tool'[x] = tool[x]
BY DEF Becomes, Typed, ToolsTyped

\* A step of one tool.
LEMMA ToolStepTyped ==
  ASSUME Typed, UNCHANGED kextVars, NEW t \in Tools, NEW new \in ToolState, Becomes(t, new),
         userClient' \in [Tools -> Clients], \A x \in Tools \ {t} : userClient'[x] = userClient[x],
         executed' \in [Tools -> Executed],
         ClientOK(new, userClient'[t])
  PROVE  Typed'
<1>1. KextTyped /\ \A x \in Tools : ClientOK(tool[x], userClient[x])
  BY TypedIs
<1>2. KextTyped'
  BY <1>1 DEF kextVars, KextTyped, Published
<1>3. /\ tool' \in [Tools -> ToolState] /\ tool'[t] = new
      /\ \A x \in Tools \ {t} : tool'[x] = tool[x]
  BY ToolBecomes
<1>4. provider' = provider
  BY DEF kextVars
<1>5. \A x \in Tools : ClientOK(tool'[x], userClient'[x])
  BY <1>1, <1>3
<1>6. \A x \in Tools : ClientOK(tool[x], userClient[x])'
  BY <1>4, <1>5 DEF ClientOK, Published
<1> QED
  BY <1>2, <1>3, <1>6, TypedIsPrimed

\* What the tool makes of a command line.
LEMMA AskedIs ==
  ASSUME NEW line \in CommandLines, ~Refused(line)
  PROVE  Asked(line) \in ToolState /\ Accepted(Asked(line))
<1> DEFINE words == line.words
           nid == Limited(words[1].number, 255)
           verb == NameOrNumber(hda_verbs, words[2], 4095)
           params == NameOrNumber(hda_params, words[3], 65535)
           dev == Device(line.options)
<1>1. line.options \in Seq(Option) /\ words \in Seq(Word) /\ line \in [options : Seq(Option), words : Seq(Word)]
  OBVIOUS
<1>2. Asked(line) = [NoTool EXCEPT !.pc = "match", !.line = line, !.index = dev,
                                  !.nid = nid, !.verb = verb, !.params = params]
  BY DEF Asked
<1>3. Asked(line).nid = nid /\ Asked(line).verb = verb /\ Asked(line).params = params
  BY <1>2 DEF NoTool
<1>4. Len(words) >= 3 /\ nid # -1 /\ verb # -1 /\ params # -1
  <2>1. ~(Len(words) < 3) /\ -1 \notin {nid, verb, params}
    BY <1>3 DEF Refused
  <2> QED
    BY <1>1, <2>1
<1>5. words[1] \in Word /\ words[2] \in Word /\ words[3] \in Word
  BY <1>1, <1>4
<1>6. nid \in Nat /\ nid <= 255 /\ nid = words[1].number
  <2>1. words[1].number \in Int /\ 255 \in Nat
    BY <1>5 DEF Word
  <2> QED
    BY <1>4, <2>1, LimitedIs
<1>7. verb \in Nat /\ verb <= 4095 /\ Means(hda_verbs, words[2], verb)
  BY <1>4, <1>5, VerbAccepted
<1>8. params \in Nat /\ params <= 65535 /\ Means(hda_params, words[3], params)
  BY <1>4, <1>5, ParamAccepted
<1>9. dev \in Int
  BY <1>1, DeviceTyped
<1> HIDE DEF words, nid, verb, params, dev
<1>10. Asked(line) \in ToolState
  <2>1. Asked(line) = [pc |-> "match", line |-> line, nid |-> nid, verb |-> verb, params |-> params,
                       matches |-> {}, place |-> 0, index |-> dev, result |-> None]
    BY <1>2 DEF NoTool
  <2>2. nid \in Int /\ verb \in Int /\ params \in Int /\ None \in Int
    BY <1>6, <1>7, <1>8 DEF None
  <2> QED
    BY <1>1, <1>9, <2>1, <2>2 DEF ToolState, ToolPcs
<1>11. Asked(line).line = line
  BY <1>2 DEF NoTool
<1>12. Accepted(Asked(line))
  BY <1>3, <1>4, <1>6, <1>7, <1>8, <1>11 DEF Accepted, words
<1> QED
  BY <1>10, <1>12

\* The steps of a tool that leave its connection alone and execute nothing.
LEMMA QuietStepTyped ==
  ASSUME Typed, UNCHANGED <<kextVars, userClient, executed>>, NEW t \in Tools, NEW new \in ToolState,
         Becomes(t, new), ClientOK(new, userClient[t])
  PROVE  Typed'
<1>1. userClient \in [Tools -> Clients] /\ executed \in [Tools -> Executed]
  BY TypedIs
<1> QED
  BY <1>1, ToolStepTyped

LEMMA UserTypeStep == Typed /\ [Next]_vars => Typed'
<1> SUFFICES ASSUME Typed, [Next]_vars PROVE Typed'
  OBVIOUS
<1>1. /\ KextTyped
      /\ tool \in [Tools -> ToolState] /\ userClient \in [Tools -> Clients]
      /\ executed \in [Tools -> Executed]
      /\ \A t \in Tools : ClientOK(tool[t], userClient[t])
  BY TypedIs
<1>2. \A t \in Tools : tool[t] \in ToolState
  BY <1>1
<1>3. CASE UNCHANGED vars
  <2>1. KextTyped' /\ UNCHANGED <<tool, userClient, executed, provider>>
    BY <1>1, <1>3 DEF vars, kextVars, toolVars, KextTyped, Published
  <2> QED
    BY <1>1, <2>1, TypedIsPrimed DEF ClientOK, Published
<1>4. ASSUME UNCHANGED toolVars, KextTyped',
             \A d \in Codecs : Published(d) => Published(d)'
      PROVE  Typed'
  <2>1. \A t \in Tools : tool[t].place \in Nat /\ tool[t].matches \subseteq Codecs
    BY <1>2 DEF ToolState
  <2>2. \A t \in Tools : ClientOK(tool[t], userClient[t])'
    BY <1>1, <1>4, <2>1 DEF toolVars, ClientOK
  <2> QED
    BY <1>1, <1>4, <2>2, TypedIsPrimed DEF toolVars
<1>5. CASE PluginStart
  BY <1>1, <1>4, <1>5 DEF PluginStart, KextTyped, Published
<1>6. CASE LoadFamily
  BY <1>1, <1>4, <1>6 DEF LoadFamily, KextTyped, Published
<1>7. ASSUME NEW d \in Codecs, Probe(d) PROVE Typed'
  <2>1. \E to \in {"probed", "declined"} : provider[d] = "absent" /\ provider' = [provider EXCEPT ![d] = to]
    BY <1>7 DEF Probe, Move
  <2> QED
    BY <1>1, <1>4, <1>7, <2>1 DEF Probe, KextTyped, Published, ProviderStates
<1>8. ASSUME NEW d \in Codecs, BecomeReady(d) PROVE Typed'
  <2>1. provider[d] = "probed" /\ provider' = [provider EXCEPT ![d] = "ready"]
    BY <1>8 DEF BecomeReady, Move
  <2> QED
    BY <1>1, <1>4, <1>8, <2>1 DEF BecomeReady, KextTyped, Published, ProviderStates
<1>9. ASSUME NEW d \in Codecs, RegisterService(d) PROVE Typed'
  <2>1. provider[d] = "ready" /\ provider' = [provider EXCEPT ![d] = "published"]
    BY <1>9 DEF RegisterService, Move
  <2> QED
    BY <1>1, <1>4, <1>9, <2>1 DEF RegisterService, KextTyped, Published, ProviderStates
<1>10. ASSUME NEW d \in Codecs, Stop(d) PROVE Typed'
  <2>1. /\ provider[d] = "published" /\ provider' = [provider EXCEPT ![d] = "stopped"]
        /\ UNCHANGED <<alcVerbs, bootArg, readyForVerbs, shared, family, tool, executed>>
        /\ userClient' = [t \in Tools |-> IF userClient[t] = "active" /\ tool[t].place = d
                                         THEN "inactive" ELSE userClient[t]]
    BY <1>10 DEF Stop, Move, Target
  <2>2. KextTyped'
    BY <1>1, <2>1 DEF KextTyped, Published, ProviderStates
  <2>3. userClient' \in [Tools -> Clients]
    BY <1>1, <2>1 DEF Clients
  <2>4. ASSUME NEW t \in Tools PROVE ClientOK(tool[t], userClient[t])'
    <3>1. ClientOK(tool[t], userClient[t]) /\ tool[t].matches \subseteq Codecs
      BY <1>1, <1>2 DEF ToolState
    <3>2. /\ userClient'[t] = "active" => userClient[t] = "active" /\ tool[t].place # d
          /\ userClient'[t] = "none" <=> userClient[t] = "none"
      BY <2>1
    <3>3. userClient'[t] = "active" => Published(tool[t].place)'
      BY <1>1, <2>1, <3>1, <3>2 DEF ClientOK, Published, KextTyped
    <3> QED
      BY <2>1, <3>1, <3>2, <3>3 DEF ClientOK
  <2> QED
    BY <1>1, <2>1, <2>2, <2>3, <2>4, TypedIsPrimed
<1>11. ASSUME NEW t \in Tools, ParseArguments(t) PROVE Typed'
  <2>1. PICK line \in CommandLines :
          Becomes(t, IF Refused(line) THEN [NoTool EXCEPT !.pc = "exit"] ELSE Asked(line))
    BY <1>11 DEF ParseArguments
  <2>2. userClient[t] = "none" /\ UNCHANGED <<kextVars, userClient, executed>>
    BY <1>1, <1>11 DEF ParseArguments, At, ClientOK
  <2>3. CASE Refused(line)
    <3>1. [NoTool EXCEPT !.pc = "exit"] \in ToolState
      <4>1. \A tl \in ToolState : [tl EXCEPT !.pc = "exit"] \in ToolState
        BY DEF ToolState, ToolPcs
      <4> QED
        BY <4>1, NoToolTyped
    <3>2. ClientOK([NoTool EXCEPT !.pc = "exit"], userClient[t])
      BY <2>2 DEF NoTool, ClientOK
    <3> QED
      BY <2>1, <2>2, <2>3, <3>1, <3>2, QuietStepTyped
  <2>4. CASE ~Refused(line)
    <3>1. Asked(line) \in ToolState
      BY <2>4, AskedIs
    <3>2. ClientOK(Asked(line), userClient[t])
      BY <2>2 DEF Asked, NoTool, ClientOK
    <3> QED
      BY <2>1, <2>2, <2>4, <3>1, <3>2, QuietStepTyped
  <2> QED
    BY <2>3, <2>4
<1>12. ASSUME NEW t \in Tools, Match(t) PROVE Typed'
  <2> DEFINE new == [tool[t] EXCEPT !.pc = "next", !.matches = {d \in Codecs : Published(d)}]
  <2>1. Becomes(t, new) /\ UNCHANGED <<kextVars, userClient, executed>> /\ tool[t].pc = "match"
    BY <1>12 DEF Match, At
  <2>2. tool[t].place = 0
    BY <1>1, <2>1 DEF ClientOK
  <2>3. new \in ToolState
    <3> DEFINE found == {d \in Codecs : Published(d)}
    <3>1. found \in SUBSET Codecs
      OBVIOUS
    <3>2. new = [tool[t] EXCEPT !.pc = "next", !.matches = found]
      OBVIOUS
    <3> HIDE DEF found, new
    <3> QED
      BY <1>2, <3>1, <3>2, MatchTyped
  <2>4. ClientOK(new, userClient[t])
    BY <1>1, <1>2, <2>1, <2>2 DEF ClientOK, ToolState
  <2> HIDE DEF new
  <2> QED
    BY <2>1, <2>3, <2>4, QuietStepTyped
<1>13. ASSUME NEW t \in Tools, NextService(t) PROVE Typed'
  <2>1. PICK d \in Untaken(t) :
          Becomes(t, [tool[t] EXCEPT !.pc = IF LastTurn(tool[t].index) THEN "open" ELSE "next",
                                     !.place = d, !.index = @ - 1])
    BY <1>13 DEF NextService
  <2> DEFINE new == [tool[t] EXCEPT !.pc = IF LastTurn(tool[t].index) THEN "open" ELSE "next",
                                    !.place = d, !.index = @ - 1]
  <2>2. tool[t].pc = "next" /\ UNCHANGED <<kextVars, userClient, executed>>
    BY <1>13 DEF NextService, At
  <2>3. d \in tool[t].matches /\ d \in Nat /\ d > 0
    BY <1>2 DEF Untaken, ToolState, Codecs
  <2>4. new \in ToolState
    <3> DEFINE pc == IF LastTurn(tool[t].index) THEN "open" ELSE "next"
    <3>1. pc \in ToolPcs /\ new = [tool[t] EXCEPT !.pc = pc, !.place = d, !.index = @ - 1]
      BY DEF ToolPcs
    <3> HIDE DEF pc, new
    <3> QED
      BY <1>2, <2>3, <3>1, TakeTyped
  <2>5. ClientOK(new, userClient[t])
    BY <1>1, <1>2, <2>2, <2>3 DEF ClientOK, ToolState
  <2> HIDE DEF new
  <2> QED
    BY <2>1, <2>2, <2>4, <2>5, QuietStepTyped DEF new
<1>14. ASSUME NEW t \in Tools, NEW result \in Int, Becomes(t, Fail(t, result)),
              UNCHANGED <<kextVars, userClient, executed>>, tool[t].pc \in {"match", "next", "open", "call", "send"}
       PROVE  Typed'
  <2>1. Fail(t, result) \in ToolState
    <3>1. "print" \in ToolPcs
      BY DEF ToolPcs
    <3> QED
      BY <1>2, <1>14, <3>1, ResultTyped DEF Fail
  <2>2. ClientOK(Fail(t, result), userClient[t])
    BY <1>1, <1>2 DEF ClientOK, ToolState, Fail
  <2> QED
    BY <1>14, <2>1, <2>2, QuietStepTyped
<1>15. kIOReturnError \in Int /\ CallFailed \in Int
  BY DEF kIOReturnError, CallFailed
<1>16. ASSUME NEW t \in Tools, MatchFails(t) \/ NoMoreServices(t) \/ CallLost(t) PROVE Typed'
  BY <1>14, <1>15, <1>16 DEF MatchFails, NoMoreServices, CallLost, At
<1>17. ASSUME NEW t \in Tools, NEW pc \in {"call", "send", "execute", "exit", "done", "print"},
              Becomes(t, [tool[t] EXCEPT !.pc = pc]), UNCHANGED <<kextVars, executed>>,
              userClient' \in [Tools -> Clients], \A x \in Tools \ {t} : userClient'[x] = userClient[x],
              ClientOK([tool[t] EXCEPT !.pc = pc], userClient'[t])
       PROVE  Typed'
  <2>1. [tool[t] EXCEPT !.pc = pc] \in ToolState
    <3>1. pc \in ToolPcs
      BY DEF ToolPcs
    <3> QED
      BY <1>2, <3>1, PcTyped
  <2> QED
    BY <1>1, <1>17, <2>1, ToolStepTyped
<1>18. ASSUME NEW t \in Tools, Open(t) PROVE Typed'
  <2>1. tool[t].pc = "open" /\ UNCHANGED <<kextVars, executed>>
    BY <1>18 DEF Open, At
  <2>2. CASE /\ Published(Target(t)) /\ Becomes(t, [tool[t] EXCEPT !.pc = "call"])
             /\ userClient' = [userClient EXCEPT ![t] = "active"]
    <3>1. userClient' \in [Tools -> Clients] /\ userClient'[t] = "active"
      BY <1>1, <2>2 DEF Clients
    <3>2. ClientOK([tool[t] EXCEPT !.pc = "call"], "active")
      BY <1>1, <1>2, <2>1, <2>2 DEF ClientOK, ToolState, Target
    <3> QED
      BY <1>1, <1>17, <2>1, <2>2, <3>1, <3>2
  <2>3. CASE Becomes(t, Fail(t, kIOReturnError)) /\ userClient' = [userClient EXCEPT ![t] = @]
    <3>1. userClient' = userClient
      BY <1>1, <2>3
    <3> QED
      BY <1>14, <1>15, <2>1, <2>3, <3>1
  <2> QED
    BY <1>18, <2>2, <2>3 DEF Open
<1>19. ASSUME NEW t \in Tools, ExternalMethod(t) PROVE Typed'
  <2>1. ClientOK([tool[t] EXCEPT !.pc = "send"], userClient[t])
    BY <1>1, <1>2, <1>19 DEF ExternalMethod, At, ClientOK, ToolState
  <2> QED
    BY <1>1, <1>17, <1>19, <2>1 DEF ExternalMethod
<1>20. ASSUME NEW t \in Tools, SendHdaCommand(t) PROVE Typed'
  <2>1. tool[t].pc = "send" /\ UNCHANGED <<kextVars, userClient, executed>>
    BY <1>20 DEF SendHdaCommand, At
  <2>2. ClientOK([tool[t] EXCEPT !.pc = "execute"], userClient[t])
    BY <1>1, <1>2, <2>1 DEF ClientOK, ToolState
  <2>3. \/ Becomes(t, [tool[t] EXCEPT !.pc = "execute"])
        \/ Becomes(t, Fail(t, kIOReturnError))
    BY <1>20 DEF SendHdaCommand
  <2> QED
    BY <1>1, <1>14, <1>15, <1>17, <2>1, <2>2, <2>3
<1>21. ASSUME NEW t \in Tools, ExecuteVerb(t) PROVE Typed'
  <2>1. PICK response \in Responses \cup {0} :
          Becomes(t, [tool[t] EXCEPT !.pc = "print", !.result = response])
    BY <1>21 DEF ExecuteVerb
  <2> DEFINE new == [tool[t] EXCEPT !.pc = "print", !.result = response]
  <2>2. /\ tool[t].pc = "execute" /\ UNCHANGED <<kextVars, userClient>>
        /\ executed' = [executed EXCEPT ![t] =
             [codec |-> tool[t].place, nid |-> Narrow(tool[t].nid), verb |-> Narrow(tool[t].verb),
              param |-> Narrow(tool[t].params)]]
    BY <1>21 DEF ExecuteVerb, At, Target
  <2>3. new \in ToolState
    <3>1. response \in Int /\ "print" \in ToolPcs
      BY DEF ToolPcs
    <3> QED
      BY <1>2, <3>1, ResultTyped
  <2>4. ClientOK(new, userClient[t])
    BY <1>1, <1>2, <2>2 DEF ClientOK, ToolState
  <2>5. executed' \in [Tools -> Executed]
    <3>1. \A n \in Int : Narrow(n) \in Nat
      BY DEF Narrow
    <3>2. tool[t].nid \in Int /\ tool[t].verb \in Int /\ tool[t].params \in Int
      BY <1>2 DEF ToolState
    <3>3. tool[t].place \in 0 .. NumCodecs
      <4>1. tool[t].place \in tool[t].matches \cup {0} /\ tool[t].matches \subseteq Codecs
        BY <1>1, <1>2 DEF ClientOK, ToolState
      <4> QED
        BY <4>1 DEF Codecs
    <3> QED
      BY <1>1, <2>2, <3>1, <3>2, <3>3 DEF Executed
  <2> HIDE DEF new
  <2> QED
    BY <1>1, <2>1, <2>2, <2>3, <2>4, <2>5, ToolStepTyped DEF new
<1>22. ASSUME NEW t \in Tools, PrintResult(t) \/ Interrupt(t) PROVE Typed'
  <2>1. /\ Becomes(t, [tool[t] EXCEPT !.pc = "exit"]) /\ UNCHANGED <<kextVars, userClient, executed>>
    BY <1>22 DEF PrintResult, Interrupt
  <2>2. ClientOK([tool[t] EXCEPT !.pc = "exit"], userClient[t])
    BY <1>1, <1>2 DEF ClientOK, ToolState
  <2> QED
    BY <1>1, <1>17, <2>1, <2>2
<1>23. ASSUME NEW t \in Tools, ClientClose(t) PROVE Typed'
  <2>1. /\ Becomes(t, [tool[t] EXCEPT !.pc = "done"]) /\ UNCHANGED <<kextVars, executed>>
        /\ userClient' = [userClient EXCEPT ![t] = IF @ = "active" THEN "inactive" ELSE @]
    BY <1>23 DEF ClientClose
  <2>2. /\ userClient' \in [Tools -> Clients] /\ \A x \in Tools \ {t} : userClient'[x] = userClient[x]
        /\ userClient'[t] # "active"
    BY <1>1, <2>1 DEF Clients
  <2>3. ClientOK([tool[t] EXCEPT !.pc = "done"], userClient'[t])
    BY <1>1, <1>2, <2>2 DEF ClientOK, ToolState
  <2> QED
    BY <1>17, <2>1, <2>2, <2>3
<1> QED
  BY <1>3, <1>5, <1>6, <1>7, <1>8, <1>9, <1>10, <1>11, <1>12, <1>13, <1>16, <1>18, <1>19, <1>20, <1>21,
     <1>22, <1>23
  DEF Next, RunTool

-----------------------------------------------------------------------------
(* The verb that is sent.                                                     *)

LEMMA UserInvInit == Init => UserInv
<1> SUFFICES ASSUME Init PROVE UserInv
  OBVIOUS
<1>1. Allowed
  BY DEF Init, Allowed
<1>2. \A t \in Tools : tool[t] = NoTool /\ ~Sent(t)
  BY DEF Init, NoVerb, Sent
<1>3. \A t \in Tools : ToolInv(t)
  BY <1>2 DEF NoTool, ToolInv, Running
<1> QED
  BY <1>1, <1>3, UserTypeInit DEF UserInv

\* The boot-arg and the properties stay, and so does where verbs are allowed.
LEMMA SettingsStay ==
  ASSUME [Next]_vars
  PROVE  UNCHANGED <<alcVerbs, bootArg>> /\ \A d : VerbsEnabled(d)' <=> VerbsEnabled(d)
<1>1. UNCHANGED vars \/ PluginStart \/ LoadFamily => UNCHANGED <<alcVerbs, bootArg>>
  BY DEF vars, kextVars, PluginStart, LoadFamily
<1>2. \A d \in Codecs : Probe(d) \/ BecomeReady(d) \/ RegisterService(d) \/ Stop(d) =>
        UNCHANGED <<alcVerbs, bootArg>>
  BY DEF Probe, BecomeReady, RegisterService, Stop
<1>3. \A t \in Tools : ParseArguments(t) \/ RunTool(t) \/ Interrupt(t) => UNCHANGED <<alcVerbs, bootArg>>
  BY DEF ParseArguments, RunTool, Interrupt, Match, NextService, MatchFails, NoMoreServices, Open, CallLost,
         ExternalMethod, SendHdaCommand, ExecuteVerb, PrintResult, ClientClose, kextVars
<1>4. UNCHANGED <<alcVerbs, bootArg>>
  BY <1>1, <1>2, <1>3 DEF Next
<1> QED
  BY <1>4 DEF VerbsEnabled

\* A tool that only gets further, or ends.
LEMMA ToolMoves ==
  ASSUME NEW t \in Tools, ToolInv(t), [Next]_vars, executed'[t] = executed[t],
         tool'[t].line = tool[t].line, tool'[t].matches = tool[t].matches, tool'[t].place = tool[t].place,
         tool'[t].nid = tool[t].nid, tool'[t].verb = tool[t].verb, tool'[t].params = tool[t].params,
         \/ tool'[t].pc \in {"print", "exit", "done"}
         \/ /\ tool[t].pc \in {"open", "call", "send", "execute"}
            /\ tool'[t].pc \in {"open", "call", "send", "execute"}
  PROVE  ToolInv(t)'
<1>1. tool[t].pc \in Running => (Accepted(tool[t]) <=> Accepted(tool'[t]))
  BY DEF Accepted
<1>2. \A c : Picked(tool[t], c) <=> Picked(tool'[t], c)
  BY DEF Picked
<1>3. Sent(t)' <=> Sent(t)
  BY DEF Sent
<1>4. tool'[t].pc \in Running => tool[t].pc \in {"open", "call", "send", "execute"}
                                 /\ tool'[t].pc \in {"open", "call", "send", "execute"}
  BY DEF Running
<1>5. tool'[t].pc \notin {"start", "match", "next"}
  OBVIOUS
<1>6. \A d \in tool'[t].matches : VerbsEnabled(d)'
  BY SettingsStay DEF ToolInv
<1>7. tool'[t].pc \in Running => Accepted(tool[t]) /\ ~Sent(t) /\ Picked(tool[t], tool[t].place)
  BY <1>4 DEF ToolInv, Running
<1>8. Sent(t) =>
        /\ executed[t].codec \in Codecs
        /\ LET words == tool[t].line.words
           IN  /\ executed[t].nid = words[1].number /\ executed[t].nid <= 255
               /\ Means(hda_verbs, words[2], executed[t].verb) /\ executed[t].verb <= 4095
               /\ Means(hda_params, words[3], executed[t].param)
        /\ Picked(tool[t], executed[t].codec)
  BY DEF ToolInv
<1>9. tool'[t].pc \in Running => Accepted(tool'[t]) /\ ~Sent(t)' /\ Picked(tool'[t], tool'[t].place)
  BY <1>1, <1>2, <1>3, <1>4, <1>7 DEF Running
<1>10. Sent(t)' =>
        /\ executed'[t].codec \in Codecs
        /\ LET words == tool'[t].line.words
           IN  /\ executed'[t].nid = words[1].number /\ executed'[t].nid <= 255
               /\ Means(hda_verbs, words[2], executed'[t].verb) /\ executed'[t].verb <= 4095
               /\ Means(hda_params, words[3], executed'[t].param)
        /\ Picked(tool'[t], executed'[t].codec)
  BY <1>2, <1>3, <1>8
<1> QED
  BY <1>4, <1>5, <1>6, <1>9, <1>10 DEF ToolInv, Running

LEMMA ToolStays ==
  ASSUME NEW t \in Tools, ToolInv(t), [Next]_vars, executed'[t] = executed[t], tool'[t] = tool[t]
  PROVE  ToolInv(t)'
<1>1. (Sent(t)' <=> Sent(t)) /\ \A d \in tool[t].matches : VerbsEnabled(d)' <=> VerbsEnabled(d)
  BY SettingsStay DEF Sent
<1> QED
  BY <1>1 DEF ToolInv

LEMMA ParseKeeps ==
  ASSUME UserInv, [Next]_vars, NEW t \in Tools, ParseArguments(t)
  PROVE  ToolInv(t)'
<1>1. PICK line \in CommandLines :
        Becomes(t, IF Refused(line) THEN [NoTool EXCEPT !.pc = "exit"] ELSE Asked(line))
  BY DEF ParseArguments
<1>2. t \in DOMAIN tool
  BY DEF UserInv, Typed, ToolsTyped
<1>3. tool'[t] = IF Refused(line) THEN [NoTool EXCEPT !.pc = "exit"] ELSE Asked(line)
  BY <1>1, <1>2 DEF Becomes
<1>4. ~Sent(t)'
  BY DEF ParseArguments, At, UserInv, ToolInv, Sent
<1>5. CASE Refused(line)
  <2>1. tool'[t].pc = "exit" /\ tool'[t].matches = {}
    BY <1>3, <1>5 DEF NoTool
  <2> QED
    BY <1>4, <2>1 DEF ToolInv, Running
<1>6. CASE ~Refused(line)
  <2>1. tool'[t] = Asked(line) /\ Accepted(tool'[t])
    BY <1>3, <1>6, AskedIs
  <2>2. /\ tool'[t].pc = "match" /\ tool'[t].matches = {} /\ tool'[t].place = 0
        /\ tool'[t].line = line /\ tool'[t].index = Device(line.options)
    BY <2>1 DEF Asked, NoTool
  <2> QED
    BY <1>4, <2>1, <2>2 DEF ToolInv, Running
<1> QED
  BY <1>5, <1>6

\* The words stay accepted as long as the tool keeps them, and what it made of
\* them.
LEMMA StaysAccepted ==
  ASSUME NEW t \in Tools, Accepted(tool[t]), ~Sent(t), executed' = executed,
         tool'[t].line = tool[t].line, tool'[t].nid = tool[t].nid,
         tool'[t].verb = tool[t].verb, tool'[t].params = tool[t].params
  PROVE  Accepted(tool'[t]) /\ ~Sent(t)'
<1>1. ASSUME NEW old, NEW new, Accepted(old), new.line = old.line, new.nid = old.nid,
             new.verb = old.verb, new.params = old.params
      PROVE  Accepted(new)
  BY ONLY <1>1 DEF Accepted
<1>2. ~Sent(t)'
  BY DEF Sent
<1> QED
  BY <1>1, <1>2

LEMMA MatchKeeps ==
  ASSUME UserInv, [Next]_vars, NEW t \in Tools, Match(t)
  PROVE  ToolInv(t)'
<1> DEFINE found == {d \in Codecs : Published(d)}
<1>1. tool[t] \in ToolState /\ ToolInv(t) /\ tool[t].pc = "match"
  BY DEF UserInv, Typed, ToolsTyped, Match, At
<1>2. tool'[t] = [tool[t] EXCEPT !.pc = "next", !.matches = found]
  BY DEF Match, Becomes, UserInv, Typed, ToolsTyped
<1>3. \A d \in found : VerbsEnabled(d)
  BY DEF UserInv, Allowed, Published
<1>4. found \subseteq Codecs
  OBVIOUS
<1> HIDE DEF found
<1>5. /\ tool'[t].pc = "next" /\ tool'[t].matches = found /\ tool'[t].place = 0
      /\ tool'[t].line = tool[t].line /\ tool'[t].nid = tool[t].nid /\ tool'[t].verb = tool[t].verb
      /\ tool'[t].params = tool[t].params /\ tool'[t].index = Device(tool[t].line.options)
  BY <1>1, <1>2 DEF ToolInv, ToolState
<1>6. Cardinality({d \in found : d <= 0}) = 0
  <2>1. \A d \in found : ~(d <= 0)
    BY <1>4 DEF Codecs
  <2>2. {d \in found : d <= 0} = {}
    BY <2>1
  <2> QED
    BY <2>2, FS_EmptySet
<1>7. Device(tool[t].line.options) \in Int
  BY <1>1, DeviceTyped DEF ToolState
<1>8. Counting(tool'[t])
  BY <1>5, <1>6, <1>7 DEF Counting
<1>9. Accepted(tool'[t]) /\ ~Sent(t)'
  <2>1. Accepted(tool[t]) /\ ~Sent(t)
    BY <1>1 DEF ToolInv, Running
  <2>2. executed' = executed
    BY DEF Match
  <2> QED
    BY <1>5, <2>1, <2>2, StaysAccepted
<1>10. \A d \in found : VerbsEnabled(d)'
  BY <1>3, SettingsStay
<1> QED
  BY <1>5, <1>8, <1>9, <1>10 DEF ToolInv, Running

LEMMA NextKeeps ==
  ASSUME UserInv, [Next]_vars, NEW t \in Tools, NextService(t)
  PROVE  ToolInv(t)'
<1>1. /\ tool[t] \in ToolState /\ tool[t].matches \subseteq Codecs /\ ToolInv(t) /\ tool[t].pc = "next"
      /\ tool[t].place \in tool[t].matches \cup {0}
  BY DEF UserInv, Typed, TypeOK, ToolsTyped, NextService, At
<1>2. PICK d \in Untaken(t) :
        /\ \A k \in Untaken(t) : d <= k
        /\ Becomes(t, [tool[t] EXCEPT !.pc = IF LastTurn(tool[t].index) THEN "open" ELSE "next",
                                      !.place = d, !.index = @ - 1])
  BY DEF NextService
<1> DEFINE S == tool[t].matches
           dev == Device(tool[t].line.options)
<1>3. /\ tool'[t].pc = IF LastTurn(tool[t].index) THEN "open" ELSE "next"
      /\ tool'[t].place = d /\ tool'[t].index = tool[t].index - 1
      /\ tool'[t].matches = S /\ tool'[t].line = tool[t].line /\ tool'[t].nid = tool[t].nid
      /\ tool'[t].verb = tool[t].verb /\ tool'[t].params = tool[t].params
  BY <1>1, <1>2 DEF Becomes, UserInv, Typed, ToolsTyped, ToolState
<1>4. d \in S /\ d > tool[t].place /\ \A k \in S : k > tool[t].place => d <= k
  BY <1>2 DEF Untaken
<1>5. S \subseteq Nat /\ (\A k \in S : 1 <= k /\ k <= NumCodecs) /\ tool[t].place \in Nat /\ tool[t].index \in Int /\ d > 0
  <2>1. S \subseteq Nat /\ \A k \in S : 1 <= k /\ k <= NumCodecs
    BY ONLY <1>1, NumCodecs \in Nat DEF Codecs
  <2>2. tool[t].place \in Nat /\ tool[t].index \in Int
    BY ONLY <1>1 DEF ToolState
  <2> QED
    BY ONLY <1>4, <2>1, <2>2
<1>6. dev \in Int
  BY <1>1, DeviceTyped DEF ToolState
<1>7. /\ tool[t].index = dev - Cardinality({k \in S : k <= tool[t].place})
      /\ tool[t].place # 0 => tool[t].index >= 0
  BY <1>1 DEF ToolInv, Counting
<1> HIDE DEF S, dev
<1>8. {k \in S : k < d} = {k \in S : k <= tool[t].place}
  <2>1. \A k \in S : k < d <=> k <= tool[t].place
    BY <1>4, <1>5
  <2> QED
    BY <2>1
<1> DEFINE below == Cardinality({k \in S : k < d})
<1>9. below \in Nat /\ Cardinality({k \in S : k <= d}) = below + 1
  BY <1>4, <1>5, Counted
<1>10. tool[t].index = dev - below
  BY <1>7, <1>8
<1>11. tool[t].place = 0 => below = 0
  <2>1. ASSUME tool[t].place = 0 PROVE {k \in S : k < d} = {}
    <3>1. \A k \in S : ~(k < d)
      BY <1>4, <1>5, <2>1
    <3> QED
      BY <3>1
  <2> QED
    BY <2>1, FS_EmptySet
<1> HIDE DEF below
<1>12. Accepted(tool'[t]) /\ ~Sent(t)'
  <2>1. Accepted(tool[t]) /\ ~Sent(t)
    BY <1>1 DEF ToolInv, Running
  <2>2. executed' = executed
    BY DEF NextService
  <2> QED
    BY <1>3, <2>1, <2>2, StaysAccepted
<1>13. \A k \in S : VerbsEnabled(k)'
  BY <1>1, SettingsStay DEF ToolInv, S
<1>14. CASE LastTurn(tool[t].index)
  <2>1. tool[t].index - 1 < 0
    BY <1>14 DEF LastTurn
  <2>2. below = IF dev < 0 THEN 0 ELSE dev
    BY <1>5, <1>6, <1>7, <1>9, <1>10, <1>11, <2>1
  <2>3. Picked(tool'[t], d)
    BY <1>3, <1>4, <2>2 DEF Picked, below, dev
  <2> QED
    BY <1>3, <1>12, <1>13, <1>14, <2>3 DEF ToolInv, Running
<1>15. CASE ~LastTurn(tool[t].index)
  <2>1. ~(tool[t].index - 1 < 0)
    BY <1>15 DEF LastTurn
  <2>2. tool[t].index - 1 >= 0 /\ tool[t].index - 1 = dev - Cardinality({k \in S : k <= d})
    BY <1>5, <1>6, <1>9, <1>10, <2>1
  <2>3. Counting(tool'[t])
    BY <1>3, <2>2 DEF Counting, dev
  <2> QED
    BY <1>3, <1>12, <1>13, <1>15, <2>3 DEF ToolInv, Running
<1> QED
  BY <1>14, <1>15

LEMMA NarrowIs == ASSUME NEW n \in Nat, n <= 65535 PROVE Narrow(n) = n
BY DEF Narrow

LEMMA ExecuteKeeps ==
  ASSUME UserInv, [Next]_vars, NEW t \in Tools, ExecuteVerb(t)
  PROVE  ToolInv(t)'
<1>1. /\ tool[t] \in ToolState /\ tool[t].matches \subseteq Codecs /\ ToolInv(t) /\ tool[t].pc = "execute"
      /\ t \in DOMAIN executed
  BY DEF UserInv, Typed, TypeOK, ToolsTyped, ExecuteVerb, At
<1>2. PICK response : Becomes(t, [tool[t] EXCEPT !.pc = "print", !.result = response])
  BY DEF ExecuteVerb
<1>3. /\ tool'[t].pc = "print" /\ tool'[t].line = tool[t].line /\ tool'[t].matches = tool[t].matches
  BY <1>1, <1>2 DEF Becomes, UserInv, Typed, ToolsTyped, ToolState
<1>4. Accepted(tool[t]) /\ Picked(tool[t], tool[t].place)
  BY <1>1 DEF ToolInv, Running
<1>5. /\ executed'[t].codec = tool[t].place /\ executed'[t].nid = Narrow(tool[t].nid)
      /\ executed'[t].verb = Narrow(tool[t].verb) /\ executed'[t].param = Narrow(tool[t].params)
  BY <1>1 DEF ExecuteVerb, Target
<1>6. Narrow(tool[t].nid) = tool[t].nid /\ Narrow(tool[t].verb) = tool[t].verb
      /\ Narrow(tool[t].params) = tool[t].params
  <2>1. /\ tool[t].nid \in Nat /\ tool[t].nid <= 65535 /\ tool[t].verb \in Nat /\ tool[t].verb <= 65535
        /\ tool[t].params \in Nat /\ tool[t].params <= 65535
    <3>1. /\ tool[t].nid \in Nat /\ tool[t].nid <= 255 /\ tool[t].verb \in Nat /\ tool[t].verb <= 4095
          /\ tool[t].params \in Nat /\ tool[t].params <= 65535
      BY ONLY <1>4 DEF Accepted
    <3> QED
      BY ONLY <3>1
  <2> QED
    BY ONLY <2>1, NarrowIs
<1>7. /\ executed'[t].codec \in Codecs /\ Picked(tool'[t], executed'[t].codec)
  BY <1>1, <1>3, <1>4, <1>5 DEF Picked
<1>8. LET words == tool'[t].line.words
      IN  /\ executed'[t].nid = words[1].number /\ executed'[t].nid <= 255
          /\ Means(hda_verbs, words[2], executed'[t].verb) /\ executed'[t].verb <= 4095
          /\ Means(hda_params, words[3], executed'[t].param)
  BY <1>3, <1>4, <1>5, <1>6 DEF Accepted
<1>9. \A d \in tool'[t].matches : VerbsEnabled(d)'
  BY <1>1, <1>3, SettingsStay DEF ToolInv
<1> QED
  BY <1>3, <1>7, <1>8, <1>9 DEF ToolInv, Running

LEMMA UserToolStep ==
  ASSUME UserInv, [Next]_vars, NEW t \in Tools, ParseArguments(t) \/ RunTool(t) \/ Interrupt(t)
  PROVE  \A x \in Tools : ToolInv(x)'
<1>1. \A x \in Tools : ToolInv(x) /\ tool[x] \in ToolState
  BY DEF UserInv, Typed, ToolsTyped
<1>2. /\ \A x \in Tools \ {t} : tool'[x] = tool[x]
      /\ \A x \in Tools \ {t} : executed'[x] = executed[x]
  <2>1. \E new : Becomes(t, new)
    BY DEF ParseArguments, RunTool, Interrupt, Match, NextService, MatchFails, NoMoreServices, Open, CallLost,
           ExternalMethod, SendHdaCommand, ExecuteVerb, PrintResult, ClientClose
  <2>2. executed' = executed \/ \E new : executed' = [executed EXCEPT ![t] = new]
    BY DEF ParseArguments, RunTool, Interrupt, Match, NextService, MatchFails, NoMoreServices, Open, CallLost,
           ExternalMethod, SendHdaCommand, ExecuteVerb, PrintResult, ClientClose
  <2> QED
    BY <2>1, <2>2 DEF Becomes, UserInv, Typed, TypeOK, ToolsTyped
<1>3. ASSUME NEW new, Becomes(t, new), executed' = executed,
             new.line = tool[t].line, new.matches = tool[t].matches, new.place = tool[t].place,
             new.nid = tool[t].nid, new.verb = tool[t].verb, new.params = tool[t].params,
             \/ new.pc \in {"print", "exit", "done"}
             \/ /\ tool[t].pc \in {"open", "call", "send", "execute"}
                /\ new.pc \in {"open", "call", "send", "execute"}
      PROVE  ToolInv(t)'
  <2>1. tool'[t] = new
    BY <1>3 DEF Becomes, UserInv, Typed, ToolsTyped
  <2>2. executed'[t] = executed[t]
    BY <1>3
  <2>3. \/ tool'[t].pc \in {"print", "exit", "done"}
        \/ /\ tool[t].pc \in {"open", "call", "send", "execute"}
           /\ tool'[t].pc \in {"open", "call", "send", "execute"}
    BY <1>3, <2>1
  <2>4. /\ tool'[t].line = tool[t].line /\ tool'[t].matches = tool[t].matches /\ tool'[t].place = tool[t].place
        /\ tool'[t].nid = tool[t].nid /\ tool'[t].verb = tool[t].verb /\ tool'[t].params = tool[t].params
    BY <1>3, <2>1
  <2> QED
    BY <1>1, <2>2, <2>3, <2>4, ToolMoves
<1>4. ASSUME NEW pc \in {"call", "send", "execute", "exit", "done"},
             Becomes(t, [tool[t] EXCEPT !.pc = pc]), executed' = executed,
             pc \in {"exit", "done"} \/ tool[t].pc \in {"open", "call", "send", "execute"}
      PROVE  ToolInv(t)'
  <2> DEFINE new == [tool[t] EXCEPT !.pc = pc]
  <2>1. /\ new.pc = pc /\ new.line = tool[t].line /\ new.matches = tool[t].matches
        /\ new.place = tool[t].place /\ new.nid = tool[t].nid /\ new.verb = tool[t].verb
        /\ new.params = tool[t].params
    BY <1>1 DEF ToolState
  <2> HIDE DEF new
  <2>2. Becomes(t, new) /\ executed' = executed
    BY <1>4 DEF new
  <2> QED
    BY <1>3, <1>4, <2>1, <2>2
<1>5. ASSUME NEW result, Becomes(t, Fail(t, result)), executed' = executed PROVE ToolInv(t)'
  <2>1. /\ Fail(t, result).pc = "print" /\ Fail(t, result).line = tool[t].line
        /\ Fail(t, result).matches = tool[t].matches /\ Fail(t, result).place = tool[t].place
        /\ Fail(t, result).nid = tool[t].nid /\ Fail(t, result).verb = tool[t].verb
        /\ Fail(t, result).params = tool[t].params
    BY <1>1 DEF Fail, ToolState
  <2> QED
    BY <1>3, <1>5, <2>1
<1>6. MatchFails(t) \/ NoMoreServices(t) \/ CallLost(t) => ToolInv(t)'
  BY <1>5 DEF MatchFails, NoMoreServices, CallLost
<1>7. Open(t) => ToolInv(t)'
  <2>1. Open(t) => /\ executed' = executed /\ tool[t].pc = "open"
                   /\ \/ Becomes(t, [tool[t] EXCEPT !.pc = "call"])
                      \/ Becomes(t, Fail(t, kIOReturnError))
    BY DEF Open, At
  <2> QED
    BY <1>4, <1>5, <2>1
<1>8. ExternalMethod(t) => ToolInv(t)'
  BY <1>4 DEF ExternalMethod, At
<1>9. SendHdaCommand(t) => ToolInv(t)'
  <2>1. SendHdaCommand(t) => /\ executed' = executed /\ tool[t].pc = "send"
                             /\ \/ Becomes(t, [tool[t] EXCEPT !.pc = "execute"])
                                \/ Becomes(t, Fail(t, kIOReturnError))
    BY DEF SendHdaCommand, At
  <2> QED
    BY <1>4, <1>5, <2>1
<1>10. PrintResult(t) \/ Interrupt(t) \/ ClientClose(t) => ToolInv(t)'
  BY <1>4 DEF PrintResult, Interrupt, ClientClose
<1>11. ToolInv(t)'
  BY <1>6, <1>7, <1>8, <1>9, <1>10, ParseKeeps, MatchKeeps, NextKeeps, ExecuteKeeps DEF RunTool
<1> QED
  BY <1>1, <1>2, <1>11, ToolStays

LEMMA UserInvStep == UserInv /\ [Next]_vars => UserInv'
<1> SUFFICES ASSUME UserInv, [Next]_vars PROVE UserInv'
  OBVIOUS
<1>1. Typed'
  BY UserTypeStep DEF UserInv
<1>2. ASSUME UNCHANGED <<tool, executed>> PROVE \A t \in Tools : ToolInv(t)'
  BY <1>2, ToolStays DEF UserInv
<1>3. ASSUME UNCHANGED provider PROVE Allowed'
  BY <1>3, SettingsStay DEF UserInv, Allowed
<1>4. CASE UNCHANGED vars \/ PluginStart \/ LoadFamily
  BY <1>1, <1>2, <1>3, <1>4 DEF vars, kextVars, toolVars, PluginStart, LoadFamily, UserInv
<1>5. ASSUME NEW d \in Codecs, Probe(d) \/ BecomeReady(d) \/ RegisterService(d) \/ Stop(d) PROVE UserInv'
  <2>1. /\ UNCHANGED <<tool, executed>>
        /\ \E from, to : /\ Move(d, from, to)
                         /\ to \notin {"absent", "declined"} =>
                              from \notin {"absent", "declined"} \/ VerbsEnabled(d)
    BY <1>5 DEF Probe, BecomeReady, RegisterService, Stop, toolVars
  <2>2. Allowed'
    BY <2>1, SettingsStay DEF Move, UserInv, Allowed, Typed, TypeOK
  <2> QED
    BY <1>1, <1>2, <2>1, <2>2 DEF UserInv
<1>6. ASSUME NEW t \in Tools, ParseArguments(t) \/ RunTool(t) \/ Interrupt(t) PROVE UserInv'
  <2>1. UNCHANGED provider
    BY <1>6 DEF ParseArguments, RunTool, Interrupt, Match, NextService, MatchFails, NoMoreServices, Open, CallLost,
                ExternalMethod, SendHdaCommand, ExecuteVerb, PrintResult, ClientClose, kextVars
  <2> QED
    BY <1>1, <1>3, <1>6, <2>1, UserToolStep DEF UserInv
<1> QED
  BY <1>4, <1>5, <1>6 DEF Next

LEMMA UserInvHolds == Spec => []UserInv
BY UserInvInit, UserInvStep, PTL DEF Spec

\* Whoever can find a provider finds it ready, and a client in use is over a
\* provider that can be used (main.c 44-58, ALCUserClientProvider.cpp 44-50).
THEOREM UserTypeCorrect == Spec => []TypeOK
<1>1. UserInv => TypeOK
  BY DEF UserInv, Typed
<1> QED
  BY <1>1, UserInvHolds, PTL

\* What reaches the codec is what was typed, for every command line
\* (main.c 111-247, ALCUserClient.cpp 69-75).
THEOREM VerbCorrect == Spec => []VerbAsAsked
<1>1. UserInv => VerbAsAsked
  BY DEF UserInv, ToolInv, VerbAsAsked
<1> QED
  BY <1>1, UserInvHolds, PTL

\* No verb reaches a codec where verbs are not allowed
\* (ALCUserClientProvider.cpp 14-38).
THEOREM AllowedCorrect == Spec => []OnlyAllowedCodecs
<1>1. UserInv => OnlyAllowedCodecs
  <2> SUFFICES ASSUME UserInv, NEW t \in Tools, Sent(t)
               PROVE  bootArg = 1 \/ (bootArg = None /\ alcVerbs[executed[t].codec] = 1)
    BY DEF OnlyAllowedCodecs
  <2>1. executed[t].codec \in Codecs /\ VerbsEnabled(executed[t].codec)
    <3>1. ToolInv(t)
      BY DEF UserInv
    <3>2. executed[t].codec \in Codecs /\ Picked(tool[t], executed[t].codec)
      BY <3>1 DEF ToolInv
    <3>3. executed[t].codec \in tool[t].matches
      BY <3>2 DEF Picked
    <3>4. \A d \in tool[t].matches : VerbsEnabled(d)
      BY <3>1 DEF ToolInv
    <3> QED
      BY <3>2, <3>3, <3>4
  <2>2. bootArg \in {None, 0, 1} /\ alcVerbs \in [Codecs -> {0, 1}]
    BY DEF UserInv, Typed, TypeOK
  <2> QED
    BY <2>1, <2>2 DEF VerbsEnabled
<1> QED
  BY <1>1, UserInvHolds, PTL

\* The device option picks its codec among any number of them, though providers
\* come and go meanwhile (main.c 44-54).
THEOREM IndexCorrect == Spec => []IndexPicksCodec
<1>1. UserInv => IndexPicksCodec
  <2> SUFFICES ASSUME UserInv, NEW t \in Tools, Sent(t)
               PROVE  LET dev == Device(tool[t].line.options)
                          codec == executed[t].codec
                      IN  /\ codec \in tool[t].matches
                          /\ Cardinality({d \in tool[t].matches : d < codec}) = IF dev < 0 THEN 0 ELSE dev
    BY DEF IndexPicksCodec
  <2>1. Picked(tool[t], executed[t].codec)
    BY DEF UserInv, ToolInv
  <2> QED
    BY <2>1 DEF Picked
<1> QED
  BY <1>1, UserInvHolds, PTL
=============================================================================
