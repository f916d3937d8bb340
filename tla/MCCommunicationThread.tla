----------------------- MODULE MCCommunicationThread -----------------------
(* Small instances of CommunicationThread for TLC.                         *)
EXTENDS NetstringChecks

(* Texts are strings of any cells.                                        *)
AnyCells == STRING

SetCompressor(v) == <<"set", "|", "compressor", "|">> \o v

SetBlue(v) == <<"set", "|", "assi_blue", "|">> \o v

GetStatus == <<"get", "|", "status">>

(* Where the width changes or the product wraps, up to the limits of an    *)
(* int.                                                                    *)
EdgeNumbers ==
  {0, 999, 1000, 10000, 50000, 65536, 429496729, 429496730, 858993459, 1717986919,
   2147483647, -1, -1000, -429496730, -2147483647}

(* Payloads of up to three cells, most of them malformed.                  *)
ShortPayloads == UNION {[1..n -> {":", "|", "set", "1"}] : n \in 1..3}

(* Both levels of a line, PWM duties, a status, an unknown name, a command *)
(* that is neither set nor get, empty fields, and the short payloads.      *)
AllRequests ==
  {SetCompressor(<<"1">>), SetCompressor(<<"0">>), GetStatus,
   <<"set", "|", "horn", "|", "1">>, <<"ping", "|", "status">>,
   <<"|", "set", "|", "|", "compressor", "|", "|", "1", "|">>}
  \union {SetBlue(Signed(n)) : n \in EdgeNumbers}
  \union ShortPayloads

(* Both levels of one line and a payload that begins with the end mark,    *)
(* which strtok_r skips, for the instance with timeouts.                   *)
OnOffRequests == {SetCompressor(<<"1">>), SetCompressor(<<"0">>), <<";", "1">>}

(* For the fragmented instance: a long request that moves an output and a  *)
(* short one, whose fragments are short reads.                             *)
LongShortRequests == {SetCompressor(<<"1">>), <<"ping">>}
=============================================================================
