-------------------------- MODULE MCChannelStream --------------------------
(* ChannelStream with one frame for BUFFER_SIZE_FRAMES, so that a ring is   *)
(* full after a few packets, and next_power_of_two with all 64 bits on      *)
(* requests that have to spread a bit over any distance.                    *)
EXTENDS ChannelStream

MCRequests == {{}} \cup UNION {{{a}, {0, a}, 0 .. a} : a \in Bit}
=============================================================================
