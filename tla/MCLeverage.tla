----------------------------- MODULE MCLeverage ------------------------------
(* Instances of Leverage for TLC. *)
EXTENDS Leverage, TLC

CONSTANTS stock, note, right, r1, r2, r3

\* stock: participation units; note: a claim; right: an access right.
MCUnitValue == [h \in Holdings |-> IF h = stock THEN 2 ELSE 1]
MCStart     == [h \in Holdings |-> IF h = right THEN 1 ELSE 2]

Symmetry == Permutations(Requests)
=============================================================================
