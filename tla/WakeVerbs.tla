------------------------------ MODULE WakeVerbs ------------------------------
(***************************************************************************)
(* What the wake verbs of AppleALC promise (Changelog.md 436-437), seen     *)
(* from outside: a managed codec loses its pin configuration when it goes   *)
(* to sleep, and after every wake it is re-initialised once, before         *)
(* anything else happens to it but another power change.  One attempt is    *)
(* made: a call that fails is not repeated before the next sleep.           *)
(***************************************************************************)
CONSTANT Codecs

VARIABLES
  managed,   \* the codecs AppleALC re-initialises after sleep
  asleep,    \* the managed codecs that are asleep
  due        \* the managed codecs whose verbs have not been sent since they slept

wakeVars == <<managed, asleep, due>>

WakeInit == managed = {} /\ asleep = {} /\ due = {}

Manage(c) ==
  /\ c \in Codecs \ managed
  /\ managed' = managed \cup {c}
  /\ UNCHANGED <<asleep, due>>

Sleep(c) ==
  /\ c \in managed \ asleep
  /\ asleep' = asleep \cup {c} /\ due' = due \cup {c}
  /\ UNCHANGED managed

Wake(c) ==
  /\ c \in asleep
  /\ asleep' = asleep \ {c}
  /\ UNCHANGED <<managed, due>>

Reinit(c) ==
  /\ c \in due \ asleep
  /\ due' = due \ {c}
  /\ UNCHANGED <<managed, asleep>>

WakeNext == \E c \in Codecs : Manage(c) \/ Sleep(c) \/ Wake(c) \/ Reinit(c)

WakeSpec == WakeInit /\ [][WakeNext]_wakeVars
=============================================================================
