----------------------------- MODULE MCBlinker -----------------------------
(* The instance of Blinker for TLC.                                        *)
EXTENDS Blinker

ChannelFlags ==
  {"CHN_CONNECTED", "CHN_DISCONNECTED", "CHN_INPUT_AVAILABLE", "CHN_OUTPUT_EMPTY"}
=============================================================================
