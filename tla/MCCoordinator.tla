--------------------------- MODULE MCCoordinator ---------------------------
(* Three hosts in a row: the middle one has an interface to each side.      *)
EXTENDS Coordinator, TLC

CONSTANTS h1, h2, h3

ThreeHosts == {h1, h2, h3}
ThreeNum == h1 :> 1 @@ h2 :> 2 @@ h3 :> 1
ThreePeer == <<h1, 0>> :> <<h2, 0>> @@ <<h2, 0>> :> <<h1, 0>>
          @@ <<h2, 1>> :> <<h3, 0>> @@ <<h3, 0>> :> <<h2, 1>>
OneLoad == {<<2, 1>>}

(* Two hosts with two power lines between them.                             *)
TwoHosts == {h1, h2}
TwoNum == h1 :> 2 @@ h2 :> 2
TwoPeer == <<h1, 0>> :> <<h2, 1>> @@ <<h2, 1>> :> <<h1, 0>>
        @@ <<h1, 1>> :> <<h2, 0>> @@ <<h2, 0>> :> <<h1, 1>>
=============================================================================
