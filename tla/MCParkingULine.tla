--------------------------- MODULE MCParkingULine ---------------------------
(* Instances of ParkingULine for TLC. *)
EXTENDS ParkingULine, TLC

CONSTANTS c1, c2

Two == {c1, c2}
Symmetry == Permutations(Call)

\* One mishap of any kind, or only the listener's.
Once(K) == [k \in Kind |-> IF k \in K THEN 1 ELSE 0]
OneMishap == {Once({k}) : k \in Kind}
OneOutage == {Once({"outage"})}
=============================================================================
