---------------------------- MODULE MCAdmission ----------------------------
(* Two hosts with one power line between them.                              *)
EXTENDS Admission, TLC

CONSTANTS h1, h2, h3

TwoHosts == {h1, h2}
TwoNum == h1 :> 1 @@ h2 :> 1
TwoPeer == <<h1, 0>> :> <<h2, 0>> @@ <<h2, 0>> :> <<h1, 0>>
Swap == Permutations(TwoHosts)

(* The middle host has an interface to each of the others.                  *)
ThreeHosts == {h1, h2, h3}
ThreeNum == h1 :> 1 @@ h2 :> 2 @@ h3 :> 1
ThreePeer == <<h1, 0>> :> <<h2, 0>> @@ <<h2, 0>> :> <<h1, 0>>
          @@ <<h2, 1>> :> <<h3, 0>> @@ <<h3, 0>> :> <<h2, 1>>

OneLoad == {<<2, 1>>}
=============================================================================
