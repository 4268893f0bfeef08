------------------------- MODULE MCResourceConverter -------------------------
(***************************************************************************)
(* Small resource directories with every shape the converter tells apart:  *)
(* files of one name in two directories, one file listed twice, a file that *)
(* is not there, patch bytes shared by codecs and controllers, find equal   *)
(* to replace, absent and empty lists, a vendor without codecs and a codec  *)
(* without a listed vendor; and three directories that must not compile.    *)
(***************************************************************************)
EXTENDS ResourceConverter, TLC

A == <<1, 2>>
B == <<2, 1>>
C == <<1>>
MCBytes == {A, B, C}

Kext(prefix, name) == [id |-> [prefix |-> prefix, name |-> name]]

Kexts ==
  [AppleHDA |-> Kext("com.apple.driver", "AppleHDA") @@ [detect |-> TRUE, reloadable |-> TRUE],
   AppleHDAController |-> Kext("com.apple.driver", "AppleHDAController"),
   IOHDAFamily |-> Kext("com.apple.iokit", "IOHDAFamily")]

MCHeaderIds == {Kexts[name].id : name \in DOMAIN Kexts}

Patch(name, find, replace) == [name |-> name, find |-> find, replace |-> replace]
File(path, id) == [path |-> path, id |-> id]

Alc292 ==
  [vendor |-> "Realtek", codec |-> 658, revisions |-> <<>>,
   platforms |-> <<File("platforms.zlib", 12)>>,
   layouts |-> <<File("layout12.zlib", 12), File("layout12.zlib", 18), File("missing.zlib", 28)>>,
   patches |-> <<Patch("AppleHDA", A, B), Patch("AppleHDA", C, C)>>]

Alc256 ==
  [vendor |-> "Realtek", codec |-> 598, revisions |-> <<2, 3>>,
   layouts |-> <<File("layout12.zlib", 12)>>,
   patches |-> <<Patch("IOHDAFamily", B, A)>>]

Ad1984 == [vendor |-> "AnalogDevices", codec |-> 6532, layouts |-> <<File("layout12.zlib", 12)>>]

Hdmi == [vendor |-> "Intel", device |-> 3084, patches |-> <<Patch("AppleHDAController", A, B)>>]
Unlisted == [vendor |-> "Nobody", device |-> 1, revisions |-> <<5>>]

Full ==
  [kexts |-> Kexts, vendors |-> [Realtek |-> 4332, Intel |-> 32902],
   codecs |-> [ALC292 |-> Alc292, ALC256 |-> Alc256, AD1984 |-> Ad1984],
   files |-> (<<"ALC292", "platforms.zlib">> :> A) @@ (<<"ALC292", "layout12.zlib">> :> B)
               @@ (<<"ALC256", "layout12.zlib">> :> C),
   controllers |-> <<Hdmi, Unlisted, Hdmi>>]

Uneven == [Full EXCEPT !.codecs.ALC256.patches = <<Patch("AppleHDA", A, C), Patch("AppleHDA", A, B)>>]

Misnamed == [Full EXCEPT !.controllers[1].patches = <<Patch("AppleGFXHDA", A, B)>>]

Clashing == [Full EXCEPT !.kexts = @ @@ [Other |-> Kext("com.apple.iokit", "AppleHDA")]]

MCTrees == {Full, Uneven, Misnamed, Clashing}
=============================================================================
