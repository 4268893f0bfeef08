----------------------------- MODULE UserClient -----------------------------
(***************************************************************************)
(* Custom verbs.  An ALCUserClientProvider attaches to every codec device   *)
(* whose HDEF allows it; alc-verb, a command line tool, looks the providers *)
(* up, opens the one its -d option names, and has it execute one verb       *)
(* through the function AppleALC routed in IOHDAFamily.  An open connection  *)
(* is an ALCUserClient, which goes with its provider or with its process.   *)
(*                                                                          *)
(* A provider is started and stopped by IOKit, AppleALC's plugin by Lilu,   *)
(* and any number of tools run, all at the same time.  A codec device is    *)
(* its place in the registry, the order in which services are matched.      *)
(***************************************************************************)
EXTENDS Integers, Sequences, FiniteSets, HdaVerbs

CONSTANTS
  Tools,       \* the processes running alc-verb
  NumCodecs,   \* how many codec devices the machine has
  CommandLines,\* the command lines
  Upper,       \* toupper over the names on them
  Responses    \* what a codec may answer

\* An option with its value, and "?" for any other; a word with what strtol
\* makes of it, and whether it begins with a digit.
Option == [flag : {"d", "q", "l", "L", "?"}, value : Int]
Word == [digit : BOOLEAN, number : Int, name : STRING]

ASSUME NumCodecsAssumption == NumCodecs \in Nat
ASSUME CommandLinesAssumption == CommandLines \subseteq [options : Seq(Option), words : Seq(Word)]
ASSUME ResponsesAssumption == Responses \subseteq Nat

Codecs == 1 .. NumCodecs

\* Two negative numbers stand for two bit patterns no modelled codec answers.
kIOReturnError == -2   \* of execute_command and of sendHdaCommand
CallFailed == -1       \* a call that did not reach the provider
None == -3             \* nothing yet

VARIABLES
  alcVerbs,         \* the alc-verbs property above each codec
  bootArg,          \* the alcverbs boot-arg, None when absent
  provider,         \* where the provider of each codec is
  readyForVerbs,    \* the flag of each provider
  shared,           \* whether AlcEnabler::getShared returns an object
  family,           \* IOHDAFamily: whether it is loaded, and executeVerb routed
  tool,             \* what each tool knows
  userClient,       \* the ALCUserClient of each tool
  executed          \* the verb each tool had a codec execute

kextVars == <<alcVerbs, bootArg, provider, readyForVerbs, shared, family>>
toolVars == <<tool, userClient, executed>>
vars == <<kextVars, toolVars>>

NoVerb == [codec |-> 0, nid |-> 0, verb |-> 0, param |-> 0]
NoTool == [pc |-> "start", line |-> [options |-> <<>>, words |-> <<>>], nid |-> 0, verb |-> 0,
           params |-> 0, matches |-> {}, place |-> 0, index |-> 0, result |-> None]

Init ==
  /\ alcVerbs \in [Codecs -> {0, 1}]
  /\ bootArg \in {None, 0, 1}
  /\ provider = [d \in Codecs |-> "absent"]
  /\ readyForVerbs = [d \in Codecs |-> FALSE]
  /\ shared = FALSE
  /\ family = "absent"
  /\ tool = [t \in Tools |-> NoTool]
  /\ userClient = [t \in Tools |-> "none"]
  /\ executed = [t \in Tools |-> NoVerb]

-----------------------------------------------------------------------------
(* The plugin: createShared when Lilu starts it, which is before the kexts it  *)
(* patches are loaded, or never.  processKext asks for the route once, as       *)
(* IOHDAFamily loads, and does not look whether it was made.                    *)

PluginStart ==
  /\ ~shared /\ family = "absent"
  /\ shared' = TRUE
  /\ UNCHANGED <<alcVerbs, bootArg, provider, readyForVerbs, family, toolVars>>

LoadFamily ==
  /\ family = "absent"
  /\ family' \in IF shared THEN {"routed", "failed"} ELSE {"unpatched"}
  /\ UNCHANGED <<alcVerbs, bootArg, provider, readyForVerbs, shared, toolVars>>

(* The life of a provider.                                                    *)

\* probe: the boot-arg, when there is one, overrides the property.
Mut_PropertyOrArg(d) == alcVerbs[d] # 0 \/ bootArg = 1
VerbsEnabled(d) == (IF bootArg = None THEN alcVerbs[d] ELSE bootArg) # 0

Move(d, from, to) == provider[d] = from /\ provider' = [provider EXCEPT ![d] = to]

\* A codec without a controller above it, or a controller without an HDEF device,
\* is declined before either is read.
Probe(d) ==
  /\ family # "absent"
  /\ \E attached \in BOOLEAN :
       Move(d, "absent", IF attached /\ VerbsEnabled(d) THEN "probed" ELSE "declined")
  /\ UNCHANGED <<alcVerbs, bootArg, readyForVerbs, shared, family, toolVars>>

\* start, up to the registration of the service and with it.
BecomeReady(d) ==
  /\ Move(d, "probed", "ready")
  /\ readyForVerbs' = [readyForVerbs EXCEPT ![d] = TRUE]
  /\ UNCHANGED <<alcVerbs, bootArg, shared, family, toolVars>>

RegisterService(d) ==
  /\ Move(d, "ready", "published")
  /\ UNCHANGED <<alcVerbs, bootArg, readyForVerbs, shared, family, toolVars>>

\* stop leaves the flag alone; IOKit no longer finds the service, and terminates
\* the user clients above it.
Target(t) == tool[t].place

Stop(d) ==
  /\ Move(d, "published", "stopped")
  /\ userClient' = [t \in Tools |-> IF userClient[t] = "active" /\ Target(t) = d
                                   THEN "inactive" ELSE userClient[t]]
  /\ UNCHANGED <<alcVerbs, bootArg, readyForVerbs, shared, family, tool, executed>>

-----------------------------------------------------------------------------
(* alc-verb.                                                                  *)

At(t, pc) == tool[t].pc = pc
Becomes(t, new) == tool' = [tool EXCEPT ![t] = new]

Fail(t, result) == [tool[t] EXCEPT !.pc = "print", !.result = result]

\* -d gives the device, the last one counting; -l and -L list the tables, an
\* unknown option prints the usage, and each of them ends the tool.
Device(options) ==
  LET given == {n \in DOMAIN options : options[n].flag = "d"}
  IN  IF given = {} THEN 0 ELSE options[CHOOSE n \in given : \A k \in given : k <= n].value

EndsTool(options) == \E n \in DOMAIN options : options[n].flag \in {"l", "L", "?"}

\* A number within its limit, or -1.
Limited(n, limit) == IF 0 <= n /\ n <= limit THEN n ELSE -1

\* A word that begins with a digit is a number, and any other a name; the node
\* is always a number.
NameOrNumber(tbl, word, limit) ==
  IF word.digit THEN Limited(word.number, limit) ELSE lookup_str(tbl, Upper[word.name])

Asked(line) ==
  [NoTool EXCEPT !.pc = "match", !.line = line, !.index = Device(line.options),
                 !.nid = Limited(line.words[1].number, 255),
                 !.verb = NameOrNumber(hda_verbs, line.words[2], 4095),
                 !.params = NameOrNumber(hda_params, line.words[3], 65535)]

Refused(line) ==
  EndsTool(line.options) \/ Len(line.words) < 3 \/ -1 \in {Asked(line).nid, Asked(line).verb, Asked(line).params}

ParseArguments(t) ==
  /\ At(t, "start")
  /\ \E line \in CommandLines :
       Becomes(t, IF Refused(line) THEN [NoTool EXCEPT !.pc = "exit"] ELSE Asked(line))
  /\ UNCHANGED <<kextVars, userClient, executed>>

\* IOServiceGetMatchingServices: the services registered now.
Published(d) == provider[d] = "published"

Match(t) ==
  /\ At(t, "match")
  /\ Becomes(t, [tool[t] EXCEPT !.pc = "next", !.matches = {d \in Codecs : Published(d)}])
  /\ UNCHANGED <<kextVars, userClient, executed>>

MatchFails(t) ==
  /\ At(t, "match")
  /\ Becomes(t, Fail(t, kIOReturnError))
  /\ UNCHANGED <<kextVars, userClient, executed>>

\* One turn of the loop, which takes the services in the order of the registry:
\* the device is the one after which the index, counted down after every service
\* taken, is negative.  (An index of INT_MIN, whose decrement overflows, is outside
\* the model.)
Mut_StopsAtZero(index) == index <= 1
LastTurn(index) == index - 1 < 0

Untaken(t) == {d \in tool[t].matches : d > tool[t].place}

NextService(t) ==
  /\ At(t, "next")
  /\ \E d \in Untaken(t) :
       /\ \A k \in Untaken(t) : d <= k
       /\ Becomes(t, [tool[t] EXCEPT !.pc = IF LastTurn(tool[t].index) THEN "open" ELSE "next",
                                     !.place = d, !.index = @ - 1])
  /\ UNCHANGED <<kextVars, userClient, executed>>

Mut_OpensNothing(t) ==
  /\ At(t, "next") /\ Untaken(t) = {}
  /\ Becomes(t, [tool[t] EXCEPT !.pc = "open"])
  /\ UNCHANGED <<kextVars, userClient, executed>>

NoMoreServices(t) ==
  /\ At(t, "next") /\ Untaken(t) = {}
  /\ Becomes(t, Fail(t, kIOReturnError))
  /\ UNCHANGED <<kextVars, userClient, executed>>

\* IOServiceOpen makes an ALCUserClient: initWithTask and start may fail, and do
\* when the service is gone.
Open(t) ==
  /\ At(t, "open")
  /\ \E opened \in BOOLEAN :
       /\ opened => Published(Target(t))
       /\ Becomes(t, IF opened THEN [tool[t] EXCEPT !.pc = "call"] ELSE Fail(t, kIOReturnError))
       /\ userClient' = [userClient EXCEPT ![t] = IF opened THEN "active" ELSE @]
  /\ UNCHANGED <<kextVars, executed>>

\* IOConnectCallScalarMethod: an error when the connection is gone.
CallLost(t) ==
  /\ At(t, "call") /\ userClient[t] = "inactive"
  /\ Becomes(t, Fail(t, CallFailed))
  /\ UNCHANGED <<kextVars, userClient, executed>>

\* externalMethod sends the call, whose selector and counts are those of its
\* table, to the provider.
ExternalMethod(t) ==
  /\ At(t, "call") /\ userClient[t] = "active"
  /\ Becomes(t, [tool[t] EXCEPT !.pc = "send"])
  /\ UNCHANGED <<kextVars, userClient, executed>>

CanSend(t) == readyForVerbs[Target(t)] /\ shared

\* sendHdaCommand: turned away, or off to the codec.
SendHdaCommand(t) ==
  /\ At(t, "send")
  /\ Becomes(t, IF CanSend(t) THEN [tool[t] EXCEPT !.pc = "execute"] ELSE Fail(t, kIOReturnError))
  /\ UNCHANGED <<kextVars, userClient, executed>>

\* methodExecuteVerb narrows the three numbers to 16 bits.
Narrow(n) == n % 65536

\* The codec executes the verb and answers, or the call fails and the response,
\* which starts as 0, is what it was.  With no function to call, there is no
\* next step.
ExecuteVerb(t) ==
  /\ At(t, "execute") /\ family = "routed"
  /\ \E response \in Responses \cup {0} :
       Becomes(t, [tool[t] EXCEPT !.pc = "print", !.result = response])
  /\ executed' = [executed EXCEPT ![t] =
       [codec |-> Target(t), nid |-> Narrow(tool[t].nid), verb |-> Narrow(tool[t].verb),
        param |-> Narrow(tool[t].params)]]
  /\ UNCHANGED <<kextVars, userClient>>

PrintResult(t) ==
  /\ At(t, "print") /\ Becomes(t, [tool[t] EXCEPT !.pc = "exit"])
  /\ UNCHANGED <<kextVars, userClient, executed>>

\* The user interrupts the tool; a call that is in the kernel returns first.
Interrupt(t) ==
  /\ tool[t].pc \in {"match", "next", "open", "call", "print"}
  /\ Becomes(t, [tool[t] EXCEPT !.pc = "exit"])
  /\ UNCHANGED <<kextVars, userClient, executed>>

\* The tool never closes its connection: the kernel does, when the process is
\* gone, and clientClose terminates a client that is not terminated yet.
Mut_LeavesClient(t) ==
  /\ At(t, "exit") /\ Becomes(t, [tool[t] EXCEPT !.pc = "done"])
  /\ UNCHANGED <<kextVars, userClient, executed>>

ClientClose(t) ==
  /\ At(t, "exit") /\ Becomes(t, [tool[t] EXCEPT !.pc = "done"])
  /\ userClient' = [userClient EXCEPT ![t] = IF @ = "active" THEN "inactive" ELSE @]
  /\ UNCHANGED <<kextVars, executed>>

RunTool(t) ==
  \/ Match(t) \/ MatchFails(t) \/ NextService(t) \/ NoMoreServices(t) \/ Open(t)
  \/ CallLost(t) \/ ExternalMethod(t) \/ SendHdaCommand(t) \/ ExecuteVerb(t)
  \/ PrintResult(t) \/ ClientClose(t)

Next ==
  \/ PluginStart \/ LoadFamily
  \/ \E d \in Codecs : Probe(d) \/ BecomeReady(d) \/ RegisterService(d) \/ Stop(d)
  \/ \E t \in Tools : ParseArguments(t) \/ RunTool(t) \/ Interrupt(t)

Spec == Init /\ [][Next]_vars

\* A tool that was started is scheduled until it ends, and the kernel closes what
\* it left open.
FairSpec == Spec /\ \A t \in Tools : WF_vars(RunTool(t))

-----------------------------------------------------------------------------
(* Properties. *)

ProviderStates == {"absent", "declined", "probed", "ready", "published", "stopped"}
ToolPcs == {"start", "match", "next", "open", "call", "send", "execute", "print", "exit", "done"}

\* Every variable keeps its type; in particular whoever can find a provider finds
\* it ready, as the flag is set before the service is registered, a tool past its
\* loop over the services has one in hand, and a client in use is over a provider
\* that can be used (main.c 44-58, ALCUserClientProvider.cpp 44-50).
TypeOK ==
  /\ alcVerbs \in [Codecs -> {0, 1}]
  /\ bootArg \in {None, 0, 1}
  /\ provider \in [Codecs -> ProviderStates]
  /\ readyForVerbs \in [Codecs -> BOOLEAN]
  /\ \A d \in Codecs : Published(d) => readyForVerbs[d]
  /\ shared \in BOOLEAN
  /\ family \in {"absent", "routed", "failed", "unpatched"}
  /\ userClient \in [Tools -> {"none", "active", "inactive"}]
  /\ \A t \in Tools :
       /\ tool[t].pc \in ToolPcs
       /\ tool[t].matches \subseteq Codecs
       /\ tool[t].place \in tool[t].matches \cup {0}
       /\ tool[t].pc \in {"open", "call", "send", "execute"} => tool[t].place > 0
       /\ tool[t].pc \in {"call", "send", "execute"} => userClient[t] # "none"
       /\ userClient[t] = "active" => tool[t].place > 0 /\ Published(Target(t))
  /\ executed \in [Tools -> [codec : 0 .. NumCodecs, nid : Nat, verb : Nat, param : Nat]]

Sent(t) == executed[t].codec # 0

\* What a word stands for: its number, or the value of the only name it begins.
Means(tbl, word, value) ==
  IF word.digit THEN value = word.number
  ELSE \E name \in DOMAIN tbl :
         /\ BeginsWith(name, Upper[word.name]) /\ value = tbl[name]
         /\ \A other \in DOMAIN tbl \ {name} : ~BeginsWith(other, Upper[word.name])

\* A verb reaches the codec with what the user typed, in numbers or in names cut
\* short: what the tool lets through, the 16-bit fields of the call do not cut,
\* and it fits the fields of an HDA command (main.c 111-247, ALCUserClient.cpp
\* 69-75).
VerbAsAsked ==
  \A t \in Tools : Sent(t) =>
    LET words == tool[t].line.words
    IN  /\ executed[t].nid = words[1].number /\ executed[t].nid <= 255
        /\ Means(hda_verbs, words[2], executed[t].verb) /\ executed[t].verb <= 4095
        /\ Means(hda_params, words[3], executed[t].param)

\* A verb reaches a codec only where the boot-arg, or without one the alc-verbs
\* property, allows it, whatever else is attached (ALCUserClientProvider.cpp
\* 14-38).
OnlyAllowedCodecs ==
  \A t \in Tools : Sent(t) =>
    bootArg = 1 \/ (bootArg = None /\ alcVerbs[executed[t].codec] = 1)

\* -d N names the N-th provider, from 0, of those registered when the tool
\* looked, though others come and go meanwhile; a negative N names the first
\* (main.c 44-54).
IndexPicksCodec ==
  \A t \in Tools : Sent(t) =>
    LET dev == Device(tool[t].line.options)
        codec == executed[t].codec
    IN  /\ codec \in tool[t].matches
        /\ Cardinality({d \in tool[t].matches : d < codec}) = IF dev < 0 THEN 0 ELSE dev

\* A tool that was started ends, whatever -d says and whichever providers stop
\* meanwhile, unless the verb is executed through a function that is not there,
\* and it leaves no client behind, though it closes none itself (main.c 44-54,
\* 58-81, ALCUserClient.cpp 62-67).
ToolEnds ==
  \A t \in Tools : tool[t].pc # "start" ~>
    \/ tool[t].pc = "done" /\ userClient[t] # "active"
    \/ tool[t].pc = "execute" /\ family # "routed"
=============================================================================
