--------------------------- MODULE MCPowerSlave ---------------------------
(* Two components on two slaves; of the smaller one the second slave has   *)
(* the reference only, and so no row.  The simulator of the bigger one is   *)
(* on the server of the first slave.                                       *)
EXTENDS PowerSlave, TLC

CONSTANTS c1, c2, h1, h2

MCBlocks == (c1 :> <<1, 1>>) @@ (c2 :> <<2, 2>>)
MCEdgingLines == (c1 :> 1) @@ (c2 :> 2)
MCHome == (c1 :> h1) @@ (c2 :> h2)
MCLoopback == (c1 :> {}) @@ (c2 :> {1})
MCValues == (c1 :> {1}) @@ (c2 :> {0, 1})
=============================================================================
