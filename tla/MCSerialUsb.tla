---------------------------- MODULE MCSerialUsb ----------------------------
(* Small instances of SerialUsb for TLC.                                   *)
EXTENDS SerialUsb

(* A short reply, and one that leaves a buffer partly filled.              *)
Replies == {1, 3}

(* Replies that, with a flush between them, wrap the ring and fill it.     *)
EvenReplies == {2}
=============================================================================
