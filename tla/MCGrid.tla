------------------------------- MODULE MCGrid -------------------------------
(* A switch with a supplier, a demander and a storage.                     *)
EXTENDS Grid, TLC

CONSTANTS gen, dem, bat, sw

MCRole == (gen :> "WindTurbine") @@ (dem :> "Demander") @@ (bat :> "Storage")
MCInterfaces == (sw :> {1, 2, 3})
MCValues == (gen :> {1}) @@ (dem :> {1}) @@ (bat :> {-1, 1})
MCLocalPis == {<<sw, 2>>, <<sw, 6>>}
MCLines == {<< <<gen, 0>>, <<sw, 1>> >>, << <<sw, 2>>, <<dem, 0>> >>, << <<sw, 3>>, <<bat, 0>> >>}
=============================================================================
