---------------------------- MODULE MCRingBuffer ----------------------------
(* RingBuffer with four slots, a counter that wraps after every eight      *)
(* elements, and pushes and pops that are shorter than, equal to and        *)
(* longer than what is free or filled.                                      *)
EXTENDS RingBuffer

MCBatches == {<<1>>, <<1, 2>>, <<2, 1, 1>>, <<2, 1, 2, 1, 2>>}
MCRequests == {1, 3, 5}

=============================================================================
