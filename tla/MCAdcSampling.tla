--------------------------- MODULE MCAdcSampling ---------------------------
(* Small instances of AdcSampling for TLC.                                 *)
EXTENDS AdcSampling
=============================================================================
