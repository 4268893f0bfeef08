---------------------------- MODULE MCAlcEnabler ----------------------------
(***************************************************************************)
(* The machines and the tables AlcEnabler is checked with: a small copy of  *)
(* Controllers.plist (kernel-ranged Intel patches, NVIDIA patches with the  *)
(* placeholder) and of the codec tables, one id fewer than placeholders.    *)
(***************************************************************************)
EXTENDS AlcEnabler

Audio(ven, dev) ==
  [present |-> TRUE, alive |-> TRUE, name |-> "HDAU", ven |-> ven, dev |-> dev, rev |-> 1,
   noInject |-> FALSE, noPatch |-> FALSE, noHdaGfx |-> FALSE, useLayoutId |-> FALSE,
   useAppleLayoutId |-> FALSE, tcselUpdated |-> FALSE, layout |-> None, alcLayout |-> None,
   hdaGfx |-> 0]

NoAudio == [Audio("other", None) EXCEPT !.present = FALSE, !.alive = FALSE]

Igpu ==
  [present |-> TRUE, dev |-> 12, rev |-> 1, noInject |-> FALSE, noPatch |-> FALSE,
   noFixConnectors |-> FALSE, hdaGfx |-> 0, connectors |-> {}, fixed |-> {}]

Gpu(audio) == [vendor |-> NVIDIA, audio |-> audio, video |-> Igpu]

MCNvidiaIds == <<20, 21, 22>>

Patch(k, find, min, max) == [kext |-> k, find |-> find, minKernel |-> min, maxKernel |-> max]

Mod(ven, dev, patches) ==
  [vendor |-> ven, device |-> dev, revisions |-> {}, platform |-> PlatformAny, models |-> {"laptop"},
   patches |-> patches]

MCControllerMod ==
  << Mod(Intel, 10, <<Patch("AppleHDAController", "bytes", 13, 13),
                      Patch("AppleHDA", "bytes", 14, 99)>>),
     [Mod(NVIDIA, 20, <<Patch("AppleHDAController", Special, 17, 99)>>) EXCEPT !.revisions = {2}],
     Mod(NVIDIA, 20, <<Patch("AppleHDAController", Special, 17, 99)>>),
     Mod(NVIDIA, 23, <<Patch("AppleHDAController", "bytes", 13, 99),
                       Patch("AppleHDAController", Special, 13, 99),
                       Patch("AppleHDA", Special, 13, 99)>>),
     [Mod(Intel, 12, <<Patch("IOHDAFamily", "bytes", 13, 99)>>) EXCEPT !.platform = 40] >>

File(layout, min, max) == [layout |-> layout, minKernel |-> min, maxKernel |-> max]

MCCodecMod ==
  << [vendor |-> 1, codec |-> 5, revisions |-> {9}, patches |-> <<>>,
      layouts |-> <<>>, platforms |-> <<>>],
     [vendor |-> 1, codec |-> 6, revisions |-> {1}, 
      patches |-> <<Patch("AppleHDA", "bytes", 13, 99), Patch("AppleHDA", "bytes", 13, 14)>>,
      layouts |-> <<File(3, 13, 14), File(7, 13, 99), File(3, 13, 99)>>,
      platforms |-> <<File(7, 13, 99)>>] >>

Node(codec, revision, valid) == [vendor |-> 1, codec |-> codec, revision |-> revision, valid |-> valid]

MCNodes ==
  { <<Node(6, 1, TRUE)>>, <<Node(6, 2, TRUE)>>, <<Node(6, 1, FALSE)>>,
    <<Node(8, 1, TRUE), Node(6, 1, TRUE)>> }

PlainHdef == [Audio(Intel, 10) EXCEPT !.alcLayout = 3]

MCHdefs ==
  {[PlainHdef EXCEPT !.noPatch = np, !.noInject = ni] : np \in BOOLEAN, ni \in BOOLEAN} \cup {NoAudio}

\* In the second set two cards share an entry of the table, one of them not to be
\* patched.
MCExternals ==
  { <<>>,
    <<Gpu([Audio(NVIDIA, 20) EXCEPT !.noPatch = TRUE]), Gpu([Audio(NVIDIA, 23) EXCEPT !.noPatch = TRUE]),
      Gpu(Audio(NVIDIA, 23))>>,
    <<Gpu([Audio(NVIDIA, 21) EXCEPT !.noInject = TRUE]), Gpu(Audio(NVIDIA, 23)), Gpu(Audio(NVIDIA, 20))>> }

Machine(hdef0, external0, nodes0, kernel) ==
  [apple |-> TRUE, alcid |-> None, alctcsel |-> FALSE, reportedLayout |-> 9, connectorLess |-> FALSE,
   framebuffer |-> 40, hdef |-> hdef0, hdau |-> NoAudio, igpu |-> Igpu, external |-> external0,
   model |-> "laptop", kernel |-> kernel, debug |-> FALSE, codecNodes |-> nodes0]

\* Where only the properties of the devices matter: one codec, published or not.
MCFewMachines == {Machine(h, e, <<Node(6, 1, TRUE)>>, 18) : h \in MCHdefs, e \in MCExternals}

\* And every kind of codec below a plain HDEF, and a kernel before AppleGFXHDA.
MCMachines ==
  MCFewMachines \cup {Machine(PlainHdef, e, n, 18) : e \in MCExternals, n \in MCNodes}
    \cup {Machine(PlainHdef, <<>>, <<Node(6, 1, TRUE)>>, 13)}
=============================================================================
