---------------------------- MODULE MCRingBuffer ----------------------------
(* The ring buffer with four slots and two kinds of packet. *)
EXTENDS RingBuffer
=============================================================================
