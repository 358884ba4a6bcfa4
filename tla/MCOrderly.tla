----------------------------- MODULE MCOrderly -----------------------------
(* Three hosts, the middle one with an interface to each side, and a load   *)
(* table on which both sides can be the scarce one, or absent.              *)
EXTENDS OrderlyCoordinator, TLC

CONSTANTS h1, h2, h3

ThreeHosts == {h1, h2, h3}
ThreeNum == h1 :> 1 @@ h2 :> 2 @@ h3 :> 1
ThreePeer == <<h1, 0>> :> <<h2, 0>> @@ <<h2, 0>> :> <<h1, 0>>
          @@ <<h2, 1>> :> <<h3, 0>> @@ <<h3, 0>> :> <<h2, 1>>

ThreeLoads == {<<2, 1>>, <<0, 2>>, <<0, 0>>}
=============================================================================
