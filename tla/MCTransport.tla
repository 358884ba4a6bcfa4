---------------------------- MODULE MCTransport ----------------------------
(* Packets of 8, a buffer of 18: requests shorter than the sentinel, of    *)
(* one, two and more packets, and too large.                               *)
EXTENDS Transport
=============================================================================
