--------------------------- MODULE MCContributions ----------------------------
(* Instances of Contributions for TLC. *)
EXTENDS Contributions, TLC

CONSTANTS c1, c2, con, d1, d2, d3

\* One contributor: one offer wants units, the other units and access.
MCContributor == [c \in Offers |-> con]
MCWants == [c \in Offers |-> IF c = c1 THEN "both" ELSE "participation"]

Symmetry == Permutations(Decisions)
=============================================================================
