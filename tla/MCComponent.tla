---------------------------- MODULE MCComponent ----------------------------
(* Two switches with a line between them: p1 and p2 are interfaces of the *)
(* first, p3, p4 and p5 of the second; p4 has an appliance, p1 and p5 can  *)
(* be joined to other components.                                          *)
EXTENDS Component, TLC

CONSTANTS p1, p2, p3, p4, p5, c1, c2

MCPI == {p1, p2, p3, p4, p5}
MCPos == (p1 :> 0) @@ (p2 :> 1) @@ (p3 :> 2) @@ (p4 :> 3) @@ (p5 :> 4)
MCLinked == {<<p1, p2>>, <<p2, p3>>, <<p3, p4>>, <<p3, p5>>, <<p4, p5>>}
MCLines == {<<p2, p3>>}
MCFed == {p4}
MCConnection == {c1, c2}
MCLocal == (c1 :> p1) @@ (c2 :> p5)
MCMessages == {<<c1>>, <<c2>>, <<c1, c2>>}
=============================================================================
