-------------------------------- MODULE Wallet --------------------------------
(***************************************************************************)
(* A fungible position of a wallet, as credit() in                         *)
(* backend/app/bridge/service.py keeps it: a row that later credits merge  *)
(* into.  Several rows of one kind and currency count as one number, their *)
(* sum.  The row is found by one query and written by a later commit.      *)
(***************************************************************************)
EXTENDS Integers

None == -1          \* no row

\* What a position holds.
InRow(c) == IF c = None THEN 0 ELSE c

\* The position after a credit that found seen while the database now holds
\* now: the row found is replaced by its sum with the amount; when none was
\* found, a row is added.
AfterCredit(seen, now, amount) == amount + InRow(IF seen = None THEN now ELSE seen)
=============================================================================
