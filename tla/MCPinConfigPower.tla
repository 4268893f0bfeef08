-------------------------- MODULE MCPinConfigPower --------------------------
(***************************************************************************)
(* Instances of PinConfigPower: the analog codec (id 5, AppleALC layout 18, *)
(* Apple layout 7) and an HDMI codec (id 6), with the same layout-id above   *)
(* it, another or none, that shares the list of configDevice and whose       *)
(* driver may not wait for it.                                               *)
(***************************************************************************)
EXTENDS PinConfigPower

MCEarly == {"hdmi"}
MCNone == {}
MCBoth == {"analog", "hdmi"}
MCCodecId == [c \in Codecs |-> IF c = "analog" THEN 5 ELSE 6]
LayoutIds(hdmi) == [c \in Codecs |-> IF c = "analog" THEN 7 ELSE hdmi]
MCShared == {LayoutIds(7)}
MCAnyLayouts == {LayoutIds(7), LayoutIds(9), LayoutIds(0)}

PinEntry(layout, reinit, wakeData) ==
  [codec |-> 5, layout |-> layout, reinit |-> reinit, data |-> "boot", wakeData |-> wakeData]

\* With wake data, without, without re-initialisation; after the entry of
\* another layout.
MCLists ==
  {<<PinEntry(12, TRUE, "wake"), PinEntry(18, r, w)>> : r \in BOOLEAN, w \in {"none", "wake"}}

MCHooked == {{"initializePinConfig", "performPowerChange"}}
MCAnyHooks == SUBSET {"initializePinConfig", "performPowerChange"}
=============================================================================
