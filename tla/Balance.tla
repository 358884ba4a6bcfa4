------------------------------ MODULE Balance ------------------------------
(***************************************************************************)
(* Load balancing within a component (connected_component.cpp): the scarce *)
(* side, demand or supply, gets what it desires and the other side is      *)
(* scaled down in proportion.  Alone, a component compares its own totals; *)
(* joined to others it is told by the coordinator which side is scarce and *)
(* what its share of the other is.                                         *)
(*                                                                         *)
(* Desires are integers of either sign.  Currents are in units of 1/Scale, *)
(* with Scale a multiple of every total that occurs, so that the code's    *)
(* divisions are exact.  A division by nothing gives what it gives in the  *)
(* code's doubles: an infinity or a NaN.                                   *)
(***************************************************************************)
EXTENDS Integers, Functions

CONSTANTS Scale, NaN, Infinity, MinusInfinity

ASSUME NumberAssumption ==
    /\ NaN \notin Int /\ Infinity \notin Int /\ MinusInfinity \notin Int
    /\ NaN # Infinity /\ NaN # MinusInfinity /\ Infinity # MinusInfinity

Amounts == Int \cup {NaN, Infinity, MinusInfinity}

Sign(x) == IF x = Infinity \/ (x \in Int /\ x > 0) THEN 1
           ELSE IF x = NaN \/ x = 0 THEN 0 ELSE -1

Infinite(s) == IF s = 0 THEN NaN ELSE IF s > 0 THEN Infinity ELSE MinusInfinity

Negated(x) == IF x \in Int THEN -x ELSE Infinite(- Sign(x))

Plus(x, y) ==
    IF x \in Int /\ y \in Int THEN x + y
    ELSE IF x = NaN \/ y = NaN THEN NaN
    ELSE Infinite((IF x \in Int THEN 0 ELSE Sign(x)) + (IF y \in Int THEN 0 ELSE Sign(y)))

(* The side an appliance is on, from its role and, for a storage, its      *)
(* operation mode.                                                         *)
Side(role, mode) ==
    IF role = "Storage"
    THEN IF mode = "charging" THEN "demand" ELSE IF mode = "discharging" THEN "supply" ELSE "none"
    ELSE IF role = "Demander" THEN "demand" ELSE "supply"

On(S, side, which) == {a \in S : side[a] = which}

Total(S, desired) == SumFunctionOnSet(desired, S)

Quotient(whole) == IF whole > 0 THEN Scale \div whole ELSE - (Scale \div (- whole))

\* mutant: the side that is not scarce is left as it is
ScaledNot(x, part, whole) == x * Scale

(* The ratio of one appliance's desire to its side's total, of the part of *)
(* that total that is used.                                                *)
Scaled(x, part, whole) ==
    IF part = NaN THEN NaN
    ELSE IF whole = 0 THEN Infinite(Sign(x) * Sign(part))
    ELSE IF part \notin Int THEN Infinite(Sign(x) * Sign(part) * Sign(whole))
    ELSE x * (part * Quotient(whole))

(* The current of appliance a when enough says that supply meets demand.   *)
Assigned(a, side, desired, enough, part, supplies, demands) ==
    CASE side[a] = "none"   -> 0
      [] side[a] = "supply" -> IF enough THEN Scaled(desired[a], part, supplies)
                               ELSE desired[a] * Scale
      [] side[a] = "demand" -> IF enough THEN desired[a] * Scale
                               ELSE Scaled(desired[a], part, demands)
=============================================================================
