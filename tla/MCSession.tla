----------------------------- MODULE MCSession -----------------------------
(* Two handler threads and two sessions, one after the other.              *)
EXTENDS Session
=============================================================================
