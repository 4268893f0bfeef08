--------------------------- MODULE MCPinConfigRefs ---------------------------
(***************************************************************************)
(* Three codecs: the fewest with which a hook reads a list that a second    *)
(* one made and a third one replaces.                                       *)
(***************************************************************************)
EXTENDS PinConfigRefs

MCCodecs == {"analog", "igpu", "gpu"}
=============================================================================
