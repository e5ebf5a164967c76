----------------------------- MODULE MCSuppliers ------------------------------
(* Instances of Suppliers for TLC. *)
EXTENDS Suppliers, TLC

CONSTANTS a1, i1, i2, sue, tom, rev, r1, r2, r3

\* sue sponsors the project, tom supplies it, rev reviews.
MCSupplier == [a \in Agreements |-> tom]
MCOf       == [i \in Invoices |-> a1]

Symmetry == Permutations(Requests) \cup Permutations(Invoices)
=============================================================================
