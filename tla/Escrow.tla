------------------------------- MODULE Escrow --------------------------------
(***************************************************************************)
(* What pledging and settling promise the holder and the lender            *)
(* (docs/implementation/wp-010-bridge-wallet.md:28, 105): value is free or *)
(* pledged, never both; only free value is pledged or settled, a release   *)
(* frees it again, and settling turns it into its worth in money.          *)
(***************************************************************************)
EXTENDS Integers

CONSTANTS Holdings, Amounts, UnitValue

VARIABLES free, locked, money

vars == <<free, locked, money>>

Init ==
    /\ free   \in [Holdings -> Nat]
    /\ locked = [h \in Holdings |-> 0]
    /\ money  \in Nat

Issue(h, a) ==
    /\ free' = [free EXCEPT ![h] = @ + a]
    /\ UNCHANGED <<locked, money>>

Lock(h, a) ==
    /\ a <= free[h]
    /\ free'   = [free EXCEPT ![h] = @ - a]
    /\ locked' = [locked EXCEPT ![h] = @ + a]
    /\ UNCHANGED money

Unlock(h, a) ==
    /\ a <= locked[h]
    /\ free'   = [free EXCEPT ![h] = @ + a]
    /\ locked' = [locked EXCEPT ![h] = @ - a]
    /\ UNCHANGED money

CashIn(h, a) ==
    /\ a <= free[h]
    /\ free'  = [free EXCEPT ![h] = @ - a]
    /\ money' = money + a * UnitValue[h]
    /\ UNCHANGED locked

Next == \E h \in Holdings, a \in Amounts :
    Issue(h, a) \/ Lock(h, a) \/ Unlock(h, a) \/ CashIn(h, a)

Spec == Init /\ [][Next]_vars
=============================================================================
