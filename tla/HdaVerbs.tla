------------------------------ MODULE HdaVerbs ------------------------------
(***************************************************************************)
(* The names alc-verb knows for verbs and parameters, and how it looks one  *)
(* up: a name may be cut short as long as it stays the only one.            *)
(***************************************************************************)
EXTENDS Integers, Sequences

hda_verbs ==
  [GET_STREAM_FORMAT |-> \h0A00, GET_AMP_GAIN_MUTE |-> \h0B00, GET_PROC_COEF |-> \h0C00,
   GET_COEF_INDEX |-> \h0D00, PARAMETERS |-> \h0F00, GET_CONNECT_SEL |-> \h0F01,
   GET_CONNECT_LIST |-> \h0F02, GET_PROC_STATE |-> \h0F03, GET_SDI_SELECT |-> \h0F04,
   GET_POWER_STATE |-> \h0F05, GET_CONV |-> \h0F06, GET_PIN_WIDGET_CONTROL |-> \h0F07,
   GET_UNSOLICITED_RESPONSE |-> \h0F08, GET_PIN_SENSE |-> \h0F09, GET_BEEP_CONTROL |-> \h0F0A,
   GET_EAPD_BTLENABLE |-> \h0F0C, GET_DIGI_CONVERT_1 |-> \h0F0D, GET_DIGI_CONVERT_2 |-> \h0F0E,
   GET_VOLUME_KNOB_CONTROL |-> \h0F0F, GET_GPIO_DATA |-> \h0F15, GET_GPIO_MASK |-> \h0F16,
   GET_GPIO_DIRECTION |-> \h0F17, GET_GPIO_WAKE_MASK |-> \h0F18,
   GET_GPIO_UNSOLICITED_RSP_MASK |-> \h0F19, GET_GPIO_STICKY_MASK |-> \h0F1A,
   GET_CONFIG_DEFAULT |-> \h0F1C, GET_SUBSYSTEM_ID |-> \h0F20, SET_STREAM_FORMAT |-> \h200,
   SET_AMP_GAIN_MUTE |-> \h300, SET_PROC_COEF |-> \h400, SET_COEF_INDEX |-> \h500,
   SET_CONNECT_SEL |-> \h701, SET_PROC_STATE |-> \h703, SET_SDI_SELECT |-> \h704,
   SET_POWER_STATE |-> \h705, SET_CHANNEL_STREAMID |-> \h706, SET_PIN_WIDGET_CONTROL |-> \h707,
   SET_UNSOLICITED_ENABLE |-> \h708, SET_PIN_SENSE |-> \h709, SET_BEEP_CONTROL |-> \h70A,
   SET_EAPD_BTLENABLE |-> \h70C, SET_DIGI_CONVERT_1 |-> \h70D, SET_DIGI_CONVERT_2 |-> \h70E,
   SET_VOLUME_KNOB_CONTROL |-> \h70F, SET_GPIO_DATA |-> \h715, SET_GPIO_MASK |-> \h716,
   SET_GPIO_DIRECTION |-> \h717, SET_GPIO_WAKE_MASK |-> \h718,
   SET_GPIO_UNSOLICITED_RSP_MASK |-> \h719, SET_GPIO_STICKY_MASK |-> \h71A,
   SET_CONFIG_DEFAULT_BYTES_0 |-> \h71C, SET_CONFIG_DEFAULT_BYTES_1 |-> \h71D,
   SET_CONFIG_DEFAULT_BYTES_2 |-> \h71E, SET_CONFIG_DEFAULT_BYTES_3 |-> \h71F,
   SET_CODEC_RESET |-> \h7FF]

hda_params ==
  [VENDOR_ID |-> \h00, SUBSYSTEM_ID |-> \h01, REV_ID |-> \h02, NODE_COUNT |-> \h04,
   FUNCTION_TYPE |-> \h05, AUDIO_FG_CAP |-> \h08, AUDIO_WIDGET_CAP |-> \h09, PCM |-> \h0A,
   STREAM |-> \h0B, PIN_CAP |-> \h0C, AMP_IN_CAP |-> \h0D, CONNLIST_LEN |-> \h0E,
   POWER_STATE |-> \h0F, PROC_CAP |-> \h10, GPIO_CAP |-> \h11, AMP_OUT_CAP |-> \h12,
   VOL_KNB_CAP |-> \h13]

\* strncmp over the length of what was typed.
BeginsWith(name, str) == Len(str) <= Len(name) /\ SubSeq(name, 1, Len(str)) = str

Mut_AnyMatch(tbl, str) ==
  LET found == {n \in DOMAIN tbl : BeginsWith(n, str)}
  IN  IF found = {} THEN -1 ELSE tbl[CHOOSE n \in found : TRUE]

\* The value of the one name that begins with str, -1 for none or several.
lookup_str(tbl, str) ==
  LET found == {n \in DOMAIN tbl : BeginsWith(n, str)}
  IN  IF \E n \in found : found = {n} THEN tbl[CHOOSE n \in found : TRUE] ELSE -1
=============================================================================
