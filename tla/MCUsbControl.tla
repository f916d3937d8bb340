---------------------------- MODULE MCUsbControl ----------------------------
(* The instance of UsbControl for TLC.                                     *)
EXTENDS UsbControl

(* With packets of two bytes: shorter than one, one, between, two packets. *)
AnswerSizes == 1..4
=============================================================================
