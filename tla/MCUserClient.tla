---------------------------- MODULE MCUserClient ----------------------------
(***************************************************************************)
(* One tool and three codecs: tools share nothing but the providers, which *)
(* no tool changes.  The words sit on both sides of every limit: of the      *)
(* tool's checks, of the 16-bit fields, of the device index and of a name    *)
(* cut short.                                                                *)
(***************************************************************************)
EXTENDS UserClient, TLC

MCTools == {"alc-verb"}

Number(n) == [digit |-> n >= 0, number |-> n, name |-> IF n < 0 THEN "-1" ELSE ""]
Name(s) == [digit |-> FALSE, number |-> 0, name |-> s]
Dev(n) == <<[flag |-> "d", value |-> n]>>
Flag(f) == <<[flag |-> f, value |-> 0]>>

Line(options, nid, verb, params) == [options |-> options, words |-> <<nid, verb, params>>]
Numbers(options, nid, verb, params) == Line(options, Number(nid), Number(verb), Number(params))

MCCommandLines ==
  { Numbers(Dev(-1), 255, 4095, 65535), Numbers(Flag("q"), 0, 0, 0), Numbers(Dev(5) \o Dev(1), 1, 256, 256),
    Numbers(Dev(2), 1, 1, 1), Numbers(Dev(3), 1, 1, 1), Numbers(Dev(1) \o Flag("l"), 1, 1, 1),
    Numbers(Flag("?"), 1, 1, 1), [options |-> <<>>, words |-> <<Number(1), Number(1)>>],
    Numbers(<<>>, 256, 0, 0), Numbers(<<>>, 65536, 0, 0), Numbers(<<>>, -1, 0, 0),
    Numbers(<<>>, 0, 4096, 0), Numbers(<<>>, 0, 65537, 0), Numbers(<<>>, 0, -1, 0),
    Numbers(<<>>, 0, 0, 65536), Numbers(<<>>, 0, 0, -1) } \cup
  { Line(<<>>, Name("junk"), Name(v), Name("pin_cap")) :
      v \in {"GET_CONV", "set_gpio_d", "SET_GPIO", "set_eapd", "GPIO", ""} } \cup
  { Line(<<>>, Number(1), Name("PARAMETERS"), Name(p)) : p \in {"p", "pcm", "AMP", "stream"} }

MCUpper ==
  [s \in {"-1", "GET_CONV", "SET_GPIO", "GPIO", "", "PARAMETERS", "AMP"} |-> s] @@
  ("set_gpio_d" :> "SET_GPIO_D") @@ ("set_eapd" :> "SET_EAPD") @@ ("pin_cap" :> "PIN_CAP") @@
  ("p" :> "P") @@ ("pcm" :> "PCM") @@ ("stream" :> "STREAM")

MCResponses == {7}

\* No name begins another, so a name typed in full is never ambiguous.
ASSUME FullNamesKnown ==
  \A tbl \in {hda_verbs, hda_params} : \A n \in DOMAIN tbl : lookup_str(tbl, n) = tbl[n]
=============================================================================
