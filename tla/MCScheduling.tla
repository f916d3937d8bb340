---------------------------- MODULE MCScheduling ----------------------------
(* The instances of Scheduling for TLC.                                    *)
EXTENDS Scheduling

(* The two halves of main()'s order: the CAN threads over the              *)
(* communication thread, and the communication thread among its peers.     *)
HalvesOfMain == {<<"can_rx", "can_tx", "comm">>, <<"comm", "blinker", "adc">>}

(* For the starved instance.                                               *)
OneOfAKind == {<<"can_tx", "comm", "adc">>}

AllThreads == {"can_rx", "can_tx", "comm", "blinker", "adc", "main", "idle"}

(* IDLEPRIO, NORMALPRIO and HIGHPRIO, by their order.                      *)
PrioOf ==
  [t \in AllThreads |->
     CASE t = "idle" -> 1 [] t \in {"can_rx", "can_tx"} -> 3 [] OTHER -> 2]
=============================================================================
