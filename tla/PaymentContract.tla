--------------------------- MODULE PaymentContract ---------------------------
(***************************************************************************)
(* What a payment mandate promises the person who grants it                *)
(* (backend/app/bridge/mandate_models.py:16-20, agent_payments.py:3-5):    *)
(* money leaves only through an attempt made while the mandate stood, each *)
(* attempt moves money at most once, no payment exceeds the limit for one  *)
(* payment, and all of them together stay within the total.                *)
(***************************************************************************)
EXTENDS Integers

CONSTANTS Mandates, Requests, Attempts, MaxPerPayment, MaxTotal

VARIABLES
    standing,   \* standing[m]: none, live or withdrawn
    given,      \* given[m]: money that left under m
    attempt,    \* attempt[r]: none, open, paid or closed
    asks        \* asks[r]: mandate and amount of attempt r

vars == <<standing, given, attempt, asks>>

Init ==
    /\ standing = [m \in Mandates |-> "none"]
    /\ given    = [m \in Mandates |-> 0]
    /\ attempt  = [r \in Requests |-> "none"]
    /\ asks     \in [Requests -> Attempts]

Grant(m) ==
    /\ standing[m] = "none"
    /\ standing' = [standing EXCEPT ![m] = "live"]
    /\ UNCHANGED <<given, attempt, asks>>

\* Revoked by the granter or used up; never live again.
Withdraw(m) ==
    /\ standing[m] = "live"
    /\ standing' = [standing EXCEPT ![m] = "withdrawn"]
    /\ UNCHANGED <<given, attempt, asks>>

Open(r) ==
    /\ attempt[r] = "none" /\ standing[asks[r].mandate] = "live"
    /\ attempt' = [attempt EXCEPT ![r] = "open"]
    /\ UNCHANGED <<standing, given, asks>>

Pay(r) ==
    LET m == asks[r].mandate IN
    /\ attempt[r] = "open"
    /\ asks[r].amount <= MaxPerPayment[m]
    /\ given[m] + asks[r].amount <= MaxTotal[m]
    /\ given' = [given EXCEPT ![m] = @ + asks[r].amount]
    /\ attempt' = [attempt EXCEPT ![r] = "paid"]
    /\ UNCHANGED <<standing, asks>>

Refuse(r) ==
    /\ attempt[r] \in {"none", "open"}
    /\ attempt' = [attempt EXCEPT ![r] = "closed"]
    /\ UNCHANGED <<standing, given, asks>>

Next ==
    \/ \E m \in Mandates : Grant(m) \/ Withdraw(m)
    \/ \E r \in Requests : Open(r) \/ Pay(r) \/ Refuse(r)

Spec == Init /\ [][Next]_vars
=============================================================================
