--------------------------- MODULE MCAgentPayments ---------------------------
(* Instances of AgentPayments for TLC. *)
EXTENDS AgentPayments, TLC

CONSTANTS m1, ann, bob, r1, r2, r3,
          Purse     \* what ann holds at first

\* ann grants the mandate; bob has no wallet yet.
MCGranter == [m \in Mandates |-> ann]
MCPerPayment == [m \in Mandates |-> 2]
MCTotal   == [m \in Mandates |-> 3]
MCOpening == [u \in Users |-> IF u = ann THEN Purse ELSE None]

Symmetry == Permutations(Requests)
=============================================================================
