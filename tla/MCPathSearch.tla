---------------------------- MODULE MCPathSearch ----------------------------
(***************************************************************************)
(* Four nodes to search through.                                           *)
(***************************************************************************)
EXTENDS PathSearch

CONSTANTS n1, n2, n3, n4

\* A chain n1 to n4 and a shortcut from n1 to n3; the weights tell paths apart.
Neighbours == {<<n1, n2>>, <<n2, n3>>, <<n3, n4>>, <<n1, n3>>}
MCLinks    == Neighbours \cup {<<l[2], l[1]>> : l \in Neighbours}
MCWeight   == [l \in MCLinks |-> CASE l[1] = n1 -> 2 [] l[1] = n2 -> 3 [] OTHER -> 5]
=============================================================================
