---------------------------- MODULE MCExchange ----------------------------
(* Two hosts, one with two boundary rows.                                  *)
EXTENDS Exchange, TLC

CONSTANTS h1, h2

MCRows == (h1 :> 1) @@ (h2 :> 2)
=============================================================================
