----------------------------- MODULE WorkContract -----------------------------
(***************************************************************************)
(* What a supplier and a sponsor are promised                              *)
(* (docs/implementation/wp-010-bridge-wallet.md:32, 104; pay_invoice:      *)
(* "pay only what has been verified"): value is given for certified work   *)
(* only, never more than the invoice asks, and the invoice is closed when  *)
(* all of it has been given.                                               *)
(***************************************************************************)
EXTENDS Integers

CONSTANTS Invoices, Amount

VARIABLES
    work,       \* work[i]: none, claimed, certified, rejected or paid
    received    \* received[i]: value given for i, in cash and in units

vars == <<work, received>>

Init ==
    /\ work = [i \in Invoices |-> "none"]
    /\ received = [i \in Invoices |-> 0]

Becomes(i, before, after) ==
    /\ work[i] \in before
    /\ work' = [work EXCEPT ![i] = after]
    /\ UNCHANGED received

Claim(i)   == Becomes(i, {"none"}, "claimed")
Certify(i) == Becomes(i, {"claimed"}, "certified")
Reject(i)  == received[i] = 0 /\ Becomes(i, {"claimed", "certified"}, "rejected")
Close(i)   == received[i] = Amount /\ Becomes(i, {"certified"}, "paid")

Give(i, v) ==
    /\ work[i] = "certified" /\ received[i] + v <= Amount
    /\ received' = [received EXCEPT ![i] = @ + v]
    /\ UNCHANGED work

Next == \E i \in Invoices :
    Claim(i) \/ Certify(i) \/ Reject(i) \/ Close(i) \/ \E v \in 1..Amount : Give(i, v)

Spec == Init /\ [][Next]_vars
=============================================================================
