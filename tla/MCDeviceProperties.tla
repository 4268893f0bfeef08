------------------------ MODULE MCDeviceProperties ------------------------
(***************************************************************************)
(* The machines DeviceProperties is checked on.  Every number is the least  *)
(* that tells the cases apart: 7 is the boot argument, 3 and 5 the user's   *)
(* alc-layout-id and layout-id, 9 the layout AppleALC reports.              *)
(***************************************************************************)
EXTENDS DeviceProperties

Audio(name, ven, dev) ==
  [present |-> TRUE, alive |-> TRUE, name |-> name, ven |-> ven, dev |-> dev, rev |-> 1,
   noInject |-> FALSE, noPatch |-> FALSE, noHdaGfx |-> FALSE, useLayoutId |-> FALSE,
   useAppleLayoutId |-> FALSE, tcselUpdated |-> FALSE, layout |-> None, alcLayout |-> None,
   hdaGfx |-> 0]

NoAudio == [Audio("other", "other", None) EXCEPT !.present = FALSE, !.alive = FALSE]

Video(dev) ==
  [present |-> TRUE, dev |-> dev, rev |-> 1, noInject |-> FALSE, noPatch |-> FALSE,
   noFixConnectors |-> FALSE, hdaGfx |-> 0, connectors |-> {}, fixed |-> {}]

MCNvidiaIds == <<20, 21, 22>>

\* Two injected NVIDIA cards around one without audio and one that forbids
\* injection, cards of which one forbids patching, and none.
Gpu(ven, audio, connectors) ==
  [vendor |-> ven, audio |-> audio, video |-> [Video(90) EXCEPT !.connectors = connectors]]

MCExternals ==
  { <<>>,
    << Gpu(NVIDIA, Audio("HDAU", NVIDIA, 21), {2}),
       Gpu("other", NoAudio, {}),
       Gpu(NVIDIA, [Audio("HDAU", NVIDIA, 22) EXCEPT !.noInject = TRUE], {}),
       Gpu("other", [Audio("other", "other", 31) EXCEPT !.noPatch = TRUE], {}),
       Gpu(NVIDIA, Audio("HDAU", NVIDIA, 20), {0, 4}) >>,
    << Gpu(NVIDIA, [Audio("HDAU", NVIDIA, 20) EXCEPT !.noPatch = TRUE], 0 .. 5),
       Gpu(NVIDIA, [Audio("HDAU", NVIDIA, 23) EXCEPT !.rev = None], {}) >> }

MCHdefs ==
  {NoAudio} \cup
  {[Audio("other", v, 10) EXCEPT !.noInject = ni, !.noHdaGfx = ng, !.useLayoutId = ul,
                                 !.layout = l, !.alcLayout = a] :
     v \in {Intel, "other"}, ni \in BOOLEAN, ng \in BOOLEAN, ul \in BOOLEAN,
     l \in {None, 5}, a \in {None, 3}}

MCHdaus ==
  {NoAudio} \cup {[Audio("other", Intel, 11) EXCEPT !.noInject = ni, !.noPatch = ~ni] : ni \in BOOLEAN}

MCIgpus ==
  {[Video(12) EXCEPT !.noInject = ni, !.noPatch = ~ni] : ni \in BOOLEAN} \cup
  {[Video(12) EXCEPT !.present = FALSE]}

MCMachines ==
  [apple : BOOLEAN, alcid : {None, 7}, alctcsel : {TRUE}, reportedLayout : {9},
   connectorLess : BOOLEAN, framebuffer : {40},
   hdef : MCHdefs, hdau : MCHdaus, igpu : MCIgpus, external : MCExternals]
=============================================================================
