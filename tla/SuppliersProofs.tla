---------------------------- MODULE SuppliersProofs ----------------------------
(***************************************************************************)
(* Theorems about Suppliers, for every set of agreements, invoices and     *)
(* requests, every amount and every share.  Those of the first part hold   *)
(* whatever overlaps and whoever crashes; those of the second until        *)
(* requests for one invoice overlap; the last ones until one dies, too.    *)
(***************************************************************************)
EXTENDS Suppliers, SumTheorems, TLAPS

\* The fields of what a request asks for.
LEMMA AskFields ==
    \A a \in Asks : /\ a.op \in {"verify", "pay"} /\ a.invoice \in Invoices
                    /\ a.approve \in BOOLEAN /\ a.by \in Users
  BY SuppliersAssumption DEF Asks

-----------------------------------------------------------------------------
(* Types. *)

LEMMA InitTypeOK == Init => TypeOK
  BY SuppliersAssumption DEF Init, TypeOK, Responses, Statuses, None

LEMMA NextTypeOK == TypeOK /\ [Next]_vars => TypeOK'
  <1> SUFFICES ASSUME TypeOK, [Next]_vars PROVE TypeOK'
    OBVIOUS
  <1> USE SuppliersAssumption, AskFields DEF TypeOK, Responses, Statuses, Busy, None
  <1>1. ASSUME NEW a \in Agreements, AddSupplier(a) PROVE TypeOK'
    BY <1>1 DEF AddSupplier, agreement, purse, session, history
  <1>2. ASSUME NEW a \in Agreements, NEW yes \in BOOLEAN, Respond(a, yes) PROVE TypeOK'
    BY <1>2 DEF Respond, agreement, purse, session, history
  <1>3. ASSUME NEW i \in Invoices, SubmitInvoice(i) PROVE TypeOK'
    BY <1>3 DEF SubmitInvoice, agreement, purse, session, history
  <1>4. ASSUME NEW r \in Requests, RefuseRequest(r) PROVE TypeOK'
    BY <1>4 DEF RefuseRequest, MayStart, Accepts, agreement, purse, session, history
  <1>5. ASSUME NEW r \in Requests, LoadToVerify(r) PROVE TypeOK'
    BY <1>5 DEF LoadToVerify, Meet, MayStart, Accepts, agreement, purse, session, history
  <1>6. ASSUME NEW r \in Requests, CommitVerdict(r) PROVE TypeOK'
    BY <1>6 DEF CommitVerdict, Verdict, agreement, purse, session, history
  <1>7. ASSUME NEW r \in Requests, LoadToPay(r) PROVE TypeOK'
    BY <1>7 DEF LoadToPay, Meet, MayStart, Accepts, agreement, purse, session, history
  <1>8. ASSUME NEW r \in Requests, FindCash(r) PROVE TypeOK'
    BY <1>8 DEF FindCash, Payee, agreement, purse, session, history
  <1>9. ASSUME NEW r \in Requests, CreditCash(r) PROVE TypeOK'
    BY <1>9 DEF CreditCash, AfterCredit, InRow, Payee, Stake, agreement, purse,
        session, history
  <1>10. ASSUME NEW r \in Requests, FindUnits(r) PROVE TypeOK'
    BY <1>10 DEF FindUnits, Payee, agreement, purse, session, history
  <1>11. ASSUME NEW r \in Requests, CreditUnits(r) PROVE TypeOK'
    BY <1>11 DEF CreditUnits, AfterCredit, InRow, Payee, Stake, WithTransfer,
        agreement, purse, session, history
  <1>12. ASSUME NEW r \in Requests, MarkPaid(r) PROVE TypeOK'
    BY <1>12 DEF MarkPaid, WithTransfer, agreement, purse, session, history
  <1>13. ASSUME NEW r \in Requests, Crash(r) PROVE TypeOK'
    BY <1>13 DEF Crash, InFlight, Busy, agreement, purse, session, history
  <1>14. CASE UNCHANGED vars
    BY <1>14 DEF vars, agreement, purse, session, history
  <1> QED
    BY <1>1, <1>2, <1>3, <1>4, <1>5, <1>6, <1>7, <1>8, <1>9, <1>10,
       <1>11, <1>12, <1>13, <1>14
    DEF Next, AgreementStep, RequestStep

\* Every variable keeps its type in every behaviour of the invoices.
THEOREM TypeCorrect == Spec => []TypeOK
  BY InitTypeOK, NextTypeOK, PTL DEF Spec

-----------------------------------------------------------------------------
(* Whatever overlaps and whoever crashes. *)

Paying == {"cash", "cashing", "stake", "staking", "mark"}

\* A payment in flight concerns an invoice that was verified once, and where
\* it stands says what it has credited.
Progress ==
    \A r \in Requests :
      /\ pc[r] \in Paying => req[r].op = "pay" /\ req[r].invoice \in certified
      /\ pc[r] \in {"stake", "staking"} => /\ received[req[r].invoice] >= plan[r]
                                           /\ plan[r] < Amount
      /\ pc[r] = "mark" => received[req[r].invoice] >= Amount
      /\ r \in staked => pc[r] \in {"mark", "done", "crashed"}

VerifiedOnce == \A i \in Invoices : invoice[i] = "verified" => i \in certified

\* Declining is all cash from then on.
AllCash ==
    /\ \A a \in Agreements : response[a] = "declined" => share[a] = Amount
    /\ \A r \in Requests : pc[r] \in Paying /\ asked[r] = "declined" => plan[r] = Amount

SafeInv ==
    /\ TypeOK /\ Progress /\ VerifiedOnce /\ AllCash
    /\ OnlyVerifiedIsPaid /\ PaidIsCredited /\ DeclineIsHonoured

LEMMA InitSafeInv == Init => SafeInv
  BY InitTypeOK DEF Init, SafeInv, Progress, VerifiedOnce, AllCash, Paying,
     OnlyVerifiedIsPaid, PaidIsCredited, DeclineIsHonoured

LEMMA NextSafeInv == SafeInv /\ [Next]_vars => SafeInv'
  <1> SUFFICES ASSUME SafeInv, [Next]_vars PROVE SafeInv'
    OBVIOUS
  <1>0. TypeOK /\ TypeOK'
    BY NextTypeOK DEF SafeInv
  <1> USE <1>0, SuppliersAssumption, AskFields
      DEF SafeInv, TypeOK, Progress, VerifiedOnce, AllCash, Paying,
          OnlyVerifiedIsPaid, PaidIsCredited, DeclineIsHonoured
  <1>1. ASSUME NEW a \in Agreements, AddSupplier(a) PROVE SafeInv'
    BY <1>1 DEF AddSupplier, agreement, purse, session, history
  <1>2. ASSUME NEW a \in Agreements, NEW yes \in BOOLEAN, Respond(a, yes) PROVE SafeInv'
    BY <1>2 DEF Respond, agreement, purse, session, history
  <1>3. ASSUME NEW i \in Invoices, SubmitInvoice(i) PROVE SafeInv'
    BY <1>3 DEF SubmitInvoice, agreement, purse, session, history
  <1>4. ASSUME NEW r \in Requests, RefuseRequest(r) PROVE SafeInv'
    BY <1>4 DEF RefuseRequest, MayStart, Accepts, agreement, purse, session, history
  <1>5. ASSUME NEW r \in Requests, LoadToVerify(r) PROVE SafeInv'
    BY <1>5 DEF LoadToVerify, Meet, MayStart, Accepts, agreement, purse, session, history
  <1>6. ASSUME NEW r \in Requests, CommitVerdict(r) PROVE SafeInv'
    <2> DEFINE i == req[r].invoice
    <2>1. /\ i \in Invoices /\ pc[r] = "verify"
          /\ pc' = [pc EXCEPT ![r] = "done"]
          /\ UNCHANGED <<agreement, cash, units, transfers, req, plan, received, asked, staked>>
      BY <1>6 DEF CommitVerdict, purse, session, history
    <2>0. /\ \A j \in Invoices : j # i => invoice'[j] = invoice[j]
          /\ invoice'[i] \in {"verified", "rejected", invoice[i]}
      BY <1>6, <2>1 DEF CommitVerdict, Verdict
    <2>2. /\ certified \subseteq certified'
          /\ invoice'[i] = "verified" => i \in certified'
      <3>1. CASE Verdict(r) = "verified"
        BY <1>6, <3>1, <2>1 DEF CommitVerdict
      <3>2. CASE Verdict(r) = "rejected"
        <4>1. certified' = certified
          BY <1>6, <3>2 DEF CommitVerdict
        <4>2. invoice'[i] = "verified" => invoice[i] = "verified"
          BY <1>6, <3>2, <2>1 DEF CommitVerdict
        <4> QED
          BY <4>1, <4>2, <2>1
      <3> QED
        BY <3>1, <3>2 DEF Verdict
    <2>3. Progress'
      BY <2>1, <2>2
    <2>4. VerifiedOnce'
      BY <2>0, <2>1, <2>2
    <2>5. AllCash'
      BY <2>1 DEF agreement
    <2>6. OnlyVerifiedIsPaid'
      BY <2>0, <2>1, <2>2
    <2>7. PaidIsCredited'
      BY <2>0, <2>1
    <2>8. DeclineIsHonoured'
      BY <2>1
    <2> QED
      BY <2>3, <2>4, <2>5, <2>6, <2>7, <2>8
  <1>7. ASSUME NEW r \in Requests, LoadToPay(r) PROVE SafeInv'
    <2> DEFINE i == req[r].invoice
               a == Of[i]
    <2>1. /\ i \in Invoices /\ a \in Agreements /\ req[r].op = "pay" /\ invoice[i] = "verified"
          /\ i \in certified /\ share[a] \in 0..Amount /\ received[i] \in Nat
      BY <1>7 DEF LoadToPay, Accepts
    <2>2. /\ plan' = [plan EXCEPT ![r] = share[a]]
          /\ asked' = [asked EXCEPT ![r] = response[a]]
          /\ pc' = [pc EXCEPT ![r] = IF share[a] > 0 THEN "cash" ELSE "stake"]
          /\ pc[r] = "idle"
          /\ UNCHANGED <<response, share, invoice, transfers, req, certified, received, staked>>
      BY <1>7 DEF LoadToPay, Meet, MayStart, agreement, purse
    <2>3. Progress'
      BY <2>1, <2>2
    <2>4. AllCash' /\ VerifiedOnce'
      BY <2>1, <2>2
    <2>5. OnlyVerifiedIsPaid' /\ PaidIsCredited'
      BY SMTT(30), <2>1, <2>2
    <2>6. staked \subseteq Requests /\ r \notin staked
      BY <2>2
    <2>7. DeclineIsHonoured'
      BY <2>2, <2>6
    <2> QED
      BY <2>3, <2>4, <2>5, <2>7
  <1>8. ASSUME NEW r \in Requests, FindCash(r) PROVE SafeInv'
    BY <1>8 DEF FindCash, Payee, agreement, purse, session, history
  <1>9. ASSUME NEW r \in Requests, CreditCash(r) PROVE SafeInv'
    <2> DEFINE i == req[r].invoice
    <2>1. /\ i \in Invoices /\ i \in certified /\ received[i] \in Nat /\ pc[r] = "cashing"
          /\ plan[r] \in 0..Amount /\ r \notin staked
      BY <1>9 DEF CreditCash
    <2>2. Stake(r) > 0 <=> plan[r] < Amount
      BY <2>1 DEF Stake
    <2>3. /\ received' = [received EXCEPT ![i] = received[i] + plan[r]]
          /\ pc' = [pc EXCEPT ![r] = IF plan[r] < Amount THEN "stake" ELSE "mark"]
          /\ UNCHANGED <<response, share, invoice, transfers, req, plan, certified, asked, staked>>
      BY <1>9, <2>2 DEF CreditCash, agreement
    <2>4. \A j \in Invoices : received'[j] >= received[j]
      BY <2>1, <2>3
    <2>5. Progress'
      BY <2>1, <2>3, <2>4
    <2>6. VerifiedOnce' /\ AllCash' /\ DeclineIsHonoured'
      BY <2>1, <2>3
    <2>7. OnlyVerifiedIsPaid'
      BY <2>1, <2>3
    <2>8. PaidIsCredited'
      BY <2>1, <2>3, <2>4
    <2> QED
      BY <2>5, <2>6, <2>7, <2>8
  <1>10. ASSUME NEW r \in Requests, FindUnits(r) PROVE SafeInv'
    BY SMTT(30), <1>10 DEF FindUnits, Payee, agreement, purse, session, history
  <1>11. ASSUME NEW r \in Requests, CreditUnits(r) PROVE SafeInv'
    <2> DEFINE i == req[r].invoice
    <2>1. /\ i \in Invoices /\ i \in certified /\ received[i] \in Nat /\ pc[r] = "staking"
          /\ plan[r] \in 0..Amount /\ plan[r] < Amount /\ received[i] >= plan[r]
          /\ asked[r] # "declined"
      BY <1>11 DEF CreditUnits
    <2>2. received[i] + Stake(r) \in Nat /\ received[i] + Stake(r) >= Amount
      BY <2>1 DEF Stake
    <2>3. /\ received' = [received EXCEPT ![i] = received[i] + Stake(r)]
          /\ pc' = [pc EXCEPT ![r] = "mark"]
          /\ staked' = staked \cup {r} /\ transfers \subseteq transfers'
          /\ UNCHANGED <<response, share, invoice, req, plan, certified, asked>>
      BY <1>11 DEF CreditUnits, WithTransfer, agreement
    <2>4. \A j \in Invoices : received'[j] >= received[j]
      BY <2>1, <2>2, <2>3 DEF Stake
    <2>5. Progress'
      <3>1. \A q \in Requests : pc[q] \in {"stake", "staking", "mark"} =>
              received'[req[q].invoice] >= received[req[q].invoice]
        BY <2>4
      <3>2. received'[i] >= Amount /\ received'[i] \in Nat
        BY <2>1, <2>2, <2>3
      <3> QED
        BY <2>1, <2>3, <3>1, <3>2
    <2>6. VerifiedOnce' /\ AllCash'
      BY <2>1, <2>3
    <2>7. OnlyVerifiedIsPaid'
      BY <2>1, <2>3
    <2>8. DeclineIsHonoured'
      BY <2>1, <2>3
    <2>9. PaidIsCredited'
      <3>1. ASSUME NEW j \in Invoices, invoice'[j] = "paid" PROVE received'[j] >= Amount
        BY <2>3, <2>4, <3>1
      <3> QED
        BY <2>1, <2>3, <3>1
    <2> QED
      BY <2>5, <2>6, <2>7, <2>8, <2>9
  <1>12. ASSUME NEW r \in Requests, MarkPaid(r) PROVE SafeInv'
    <2> DEFINE i == req[r].invoice
    <2>1. /\ i \in Invoices /\ pc[r] = "mark" /\ req[r].op = "pay"
          /\ i \in certified /\ received[i] >= Amount
      BY <1>12 DEF MarkPaid
    <2>2. /\ invoice' = [invoice EXCEPT ![i] = "paid"]
          /\ pc' = [pc EXCEPT ![r] = "done"]
          /\ transfers \subseteq transfers' /\ (plan[r] > 0 => r \in transfers')
          /\ UNCHANGED <<agreement, req, plan, received, certified, asked, staked>>
      BY <1>12 DEF MarkPaid, WithTransfer, session, history
    <2>3. Progress' /\ VerifiedOnce'
      BY <2>1, <2>2
    <2>4. AllCash' /\ DeclineIsHonoured'
      BY <2>2 DEF agreement
    <2>5. OnlyVerifiedIsPaid'
      BY <2>1, <2>2
    <2>6. PaidIsCredited'
      BY <2>1, <2>2
    <2> QED
      BY <2>3, <2>4, <2>5, <2>6
  <1>13. ASSUME NEW r \in Requests, Crash(r) PROVE SafeInv'
    BY <1>13 DEF Crash, InFlight, Busy, agreement, purse, session, history
  <1>14. CASE UNCHANGED vars
    BY <1>14 DEF vars, agreement, purse, session, history
  <1> QED
    BY SMTT(30), <1>1, <1>2, <1>3, <1>4, <1>5, <1>6, <1>7, <1>8, <1>9, <1>10,
       <1>11, <1>12, <1>13, <1>14
    DEF Next, AgreementStep, RequestStep

LEMMA SafeInvHolds == Spec => []SafeInv
  BY InitSafeInv, NextSafeInv, PTL DEF Spec

\* Only verified work is paid (verify_invoice), however requests overlap or die.
THEOREM OnlyVerifiedIsPaidHolds == Spec => []OnlyVerifiedIsPaid
  <1>1. SafeInv => OnlyVerifiedIsPaid
    BY DEF SafeInv
  <1> QED
    BY <1>1, SafeInvHolds, PTL

\* A paid invoice has been credited in full (pay_invoice marks it last).
THEOREM PaidIsCreditedHolds == Spec => []PaidIsCredited
  <1>1. SafeInv => PaidIsCredited
    BY DEF SafeInv
  <1> QED
    BY <1>1, SafeInvHolds, PTL

\* After a supplier declined, no payment begun issues units to that supplier
\* (respond_to_agreement).
THEOREM DeclineIsHonouredHolds == Spec => []DeclineIsHonoured
  <1>1. SafeInv => DeclineIsHonoured
    BY DEF SafeInv
  <1> QED
    BY <1>1, SafeInvHolds, PTL

-----------------------------------------------------------------------------
(* Until requests for one invoice overlap. *)

OneInFlight ==
    \A q, r \in Requests :
      InFlight(q) /\ InFlight(r) /\ req[q].invoice = req[r].invoice => q = r

\* A request in flight knows the status of its invoice.
FreshStatus ==
    \A r \in Requests : InFlight(r) =>
      /\ loaded[r] = invoice[req[r].invoice]
      /\ loaded[r] \in (IF pc[r] = "verify" THEN {"submitted", "verified"} ELSE {"verified"})

Orderly == OneInFlight /\ FreshStatus

AloneInv == TypeOK /\ (Apart => Orderly)

\* Requests that have met have met for good, and one that died stays dead.
LEMMA NothingForgotten ==
  TypeOK /\ [Next]_vars =>
    /\ req' = req
    /\ \A r \in Requests : /\ met[r] \subseteq met'[r]
                           /\ pc[r] = "crashed" => pc'[r] = "crashed"
  BY SMTT(30) DEF TypeOK, Next, AgreementStep, RequestStep, AddSupplier, Respond, SubmitInvoice,
     RefuseRequest, LoadToVerify, CommitVerdict, LoadToPay, FindCash, CreditCash,
     FindUnits, CreditUnits, MarkPaid, Crash, MayStart, Meet, InFlight, Busy,
     vars, session, history

LEMMA ApartBefore == TypeOK /\ [Next]_vars /\ Apart' => Apart
  BY NothingForgotten DEF Apart

LEMMA CalmBefore == TypeOK /\ [Next]_vars /\ Calm' => Calm
  BY NothingForgotten DEF Calm, Apart

LEMMA InitAloneInv == Init => AloneInv
  BY InitTypeOK DEF Init, AloneInv, Orderly, OneInFlight, FreshStatus, InFlight, Busy

LEMMA NextAloneInv == AloneInv /\ [Next]_vars => AloneInv'
  <1> SUFFICES ASSUME AloneInv, [Next]_vars PROVE AloneInv'
    OBVIOUS
  <1>0. TypeOK /\ TypeOK'
    BY NextTypeOK DEF AloneInv
  <1> SUFFICES ASSUME Apart' PROVE Orderly'
    BY <1>0 DEF AloneInv
  <1>o. Orderly
    BY <1>0, ApartBefore DEF AloneInv
  <1>l. ASSUME NEW r \in Requests, MayStart(r), Meet(r), req' = req
        PROVE  \A q \in Requests : InFlight(q) => req[q].invoice # req[r].invoice
    <2>1. \A q \in met'[r] : req'[q].invoice # req'[r].invoice
      BY DEF Apart
    <2> QED
      BY <1>0, <1>l, <2>1 DEF Meet, TypeOK
  <1> USE <1>0, <1>o, AskFields
      DEF Orderly, TypeOK, OneInFlight, FreshStatus, InFlight, Busy
  <1>1. ASSUME NEW a \in Agreements, AddSupplier(a) PROVE Orderly'
    BY <1>1 DEF AddSupplier, agreement, purse, session, history
  <1>2. ASSUME NEW a \in Agreements, NEW yes \in BOOLEAN, Respond(a, yes) PROVE Orderly'
    BY <1>2 DEF Respond, agreement, purse, session, history
  <1>3. ASSUME NEW i \in Invoices, SubmitInvoice(i) PROVE Orderly'
    BY <1>3 DEF SubmitInvoice, agreement, purse, session, history
  <1>4. ASSUME NEW r \in Requests, RefuseRequest(r) PROVE Orderly'
    BY <1>4 DEF RefuseRequest, MayStart, Accepts, agreement, purse, session, history
  <1>5. ASSUME NEW r \in Requests, LoadToVerify(r) PROVE Orderly'
    BY <1>5, <1>l DEF LoadToVerify, MayStart, Accepts, agreement, purse, session, history
  <1>6. ASSUME NEW r \in Requests, CommitVerdict(r) PROVE Orderly'
    BY <1>6 DEF CommitVerdict, Verdict, agreement, purse, session, history
  <1>7. ASSUME NEW r \in Requests, LoadToPay(r) PROVE Orderly'
    BY <1>7, <1>l DEF LoadToPay, MayStart, Accepts, agreement, purse, session, history
  <1>8. ASSUME NEW r \in Requests, FindCash(r) PROVE Orderly'
    BY <1>8 DEF FindCash, Payee, agreement, purse, session, history
  <1>9. ASSUME NEW r \in Requests, CreditCash(r) PROVE Orderly'
    <2>1. /\ pc[r] = "cashing" /\ UNCHANGED <<req, loaded, invoice>>
          /\ \/ pc' = [pc EXCEPT ![r] = "stake"]
             \/ pc' = [pc EXCEPT ![r] = "mark"]
      BY <1>9 DEF CreditCash
    <2>2. \A q \in Requests : pc[q] \in Busy <=> pc'[q] \in Busy
      BY <2>1
    <2>3. OneInFlight'
      BY <2>1, <2>2
    <2>4. FreshStatus'
      BY <2>1, <2>2, SMTT(30)
    <2> QED
      BY <2>3, <2>4
  <1>10. ASSUME NEW r \in Requests, FindUnits(r) PROVE Orderly'
    BY <1>10 DEF FindUnits, Payee, agreement, purse, session, history
  <1>11. ASSUME NEW r \in Requests, CreditUnits(r) PROVE Orderly'
    <2>1. /\ pc[r] = "staking" /\ UNCHANGED <<req, loaded, invoice>>
          /\ pc' = [pc EXCEPT ![r] = "mark"]
      BY <1>11 DEF CreditUnits
    <2> QED
      BY <2>1
  <1>12. ASSUME NEW r \in Requests, MarkPaid(r) PROVE Orderly'
    BY <1>12 DEF MarkPaid, WithTransfer, agreement, purse, session, history
  <1>13. ASSUME NEW r \in Requests, Crash(r) PROVE Orderly'
    BY <1>13 DEF Crash, InFlight, Busy, agreement, purse, session, history
  <1>14. CASE UNCHANGED vars
    BY <1>14 DEF vars, agreement, purse, session, history
  <1> QED
    BY <1>1, <1>2, <1>3, <1>4, <1>5, <1>6, <1>7, <1>8, <1>9, <1>10,
       <1>11, <1>12, <1>13, <1>14
    DEF Next, AgreementStep, RequestStep

\* No late verdict reopens a paid invoice, whoever dies, until requests for one
\* invoice overlap (verify_invoice refuses a paid invoice).
THEOREM PaidIsFinalHolds == Spec => PaidIsFinal
  <1>2. ASSUME AloneInv, [Next]_vars, Apart'
        PROVE  \A i \in Invoices : invoice[i] = "paid" => invoice'[i] = "paid"
    <2> SUFFICES ASSUME NEW i \in Invoices, invoice[i] = "paid" PROVE invoice'[i] = "paid"
      OBVIOUS
    <2>0. TypeOK /\ FreshStatus
      BY <1>2, ApartBefore DEF AloneInv, Orderly
    <2>1. ASSUME NEW j \in Invoices, SubmitInvoice(j) PROVE invoice'[i] = "paid"
      BY <2>0, <2>1 DEF SubmitInvoice, TypeOK
    <2>2. ASSUME NEW r \in Requests, CommitVerdict(r) PROVE invoice'[i] = "paid"
      BY <2>0, <2>2, AskFields
      DEF CommitVerdict, TypeOK, FreshStatus, InFlight, Busy
    <2>3. ASSUME NEW r \in Requests, MarkPaid(r) PROVE invoice'[i] = "paid"
      BY <2>0, <2>3, AskFields DEF MarkPaid, TypeOK
    <2> QED
      BY <1>2, <2>1, <2>2, <2>3
      DEF Next, AgreementStep, RequestStep, AddSupplier, Respond, RefuseRequest,
          LoadToVerify, LoadToPay, FindCash, FindUnits, CreditCash, CreditUnits, Crash,
          vars
  <1>3. AloneInv /\ [Next]_vars
          => [Apart' => \A i \in Invoices : invoice[i] = "paid" => invoice'[i] = "paid"]_vars
    BY <1>2
  <1> QED
    BY InitAloneInv, NextAloneInv, <1>3, PTL DEF Spec, PaidIsFinal

-----------------------------------------------------------------------------
(* Until a request dies, too. *)

\* What an invoice has received follows from its status and from where the
\* payment in flight stands.
Exact ==
    /\ \A i \in Invoices :
         /\ invoice[i] \in {"none", "submitted", "rejected"} => received[i] = 0
         /\ invoice[i] = "paid" => received[i] = Amount
         /\ invoice[i] = "verified" /\ received[i] # 0 =>
              \E r \in Requests : /\ req[r].invoice = i
                                  /\ pc[r] \in {"stake", "staking", "mark"}
    /\ \A r \in Requests :
         /\ pc[r] \in {"verify", "cash", "cashing"} => received[req[r].invoice] = 0
         /\ pc[r] \in {"cash", "cashing"} => plan[r] > 0
         /\ pc[r] \in {"stake", "staking"} => /\ received[req[r].invoice] = plan[r]
                                              /\ plan[r] < Amount
         /\ pc[r] = "mark" => received[req[r].invoice] = Amount

CleanInv == AloneInv /\ (Calm => Exact)

LEMMA InitCleanInv == Init => CleanInv
  BY InitAloneInv DEF Init, CleanInv, Exact

LEMMA NextCleanInv == CleanInv /\ [Next]_vars => CleanInv'
  <1> SUFFICES ASSUME CleanInv, [Next]_vars PROVE CleanInv'
    OBVIOUS
  <1>a. AloneInv /\ AloneInv'
    BY NextAloneInv DEF CleanInv
  <1> SUFFICES ASSUME Calm' PROVE Exact'
    BY <1>a DEF CleanInv
  <1>0. TypeOK /\ TypeOK'
    BY <1>a DEF AloneInv
  <1>01. Calm
    BY <1>0, CalmBefore
  <1>02. Exact /\ Orderly
    BY <1>01, <1>a DEF CleanInv, AloneInv, Calm
  <1>03. Orderly'
    BY <1>a DEF AloneInv, Calm
  <1> USE <1>0, <1>02, <1>03, SuppliersAssumption, AskFields
      DEF Orderly, TypeOK, OneInFlight, FreshStatus, InFlight, Busy, Exact
  <1>1. ASSUME NEW a \in Agreements, AddSupplier(a) PROVE Exact'
    BY <1>1 DEF AddSupplier, agreement, purse, session, history
  <1>2. ASSUME NEW a \in Agreements, NEW yes \in BOOLEAN, Respond(a, yes) PROVE Exact'
    BY <1>2 DEF Respond, agreement, purse, session, history
  <1>3. ASSUME NEW i \in Invoices, SubmitInvoice(i) PROVE Exact'
    BY <1>3 DEF SubmitInvoice, agreement, purse, session, history
  <1>4. ASSUME NEW r \in Requests, RefuseRequest(r) PROVE Exact'
    BY <1>4 DEF RefuseRequest, MayStart, Accepts, agreement, purse, session, history
  <1>5. ASSUME NEW r \in Requests, LoadToVerify(r) PROVE Exact'
    <2> DEFINE i == req[r].invoice
    <2>1. /\ i \in Invoices /\ pc[r] = "idle" /\ invoice[i] \in {"submitted", "verified"}
          /\ pc' = [pc EXCEPT ![r] = "verify"]
          /\ UNCHANGED <<invoice, req, plan, received>>
      BY <1>5 DEF LoadToVerify, MayStart, Accepts, agreement, purse, session, history
    <2>2. ASSUME NEW q \in Requests, req[q].invoice = i, InFlight(q) PROVE FALSE
      <3>1. q # r /\ pc'[q] \in Busy /\ pc'[r] \in Busy
        BY <2>1, <2>2
      <3>2. req'[q].invoice = req'[r].invoice
        BY <2>1, <2>2
      <3> QED
        BY <3>1, <3>2, <1>03
    <2>3. received[i] = 0
      <3>1. received[i] # 0 /\ invoice[i] = "verified" =>
              \E q \in Requests : req[q].invoice = i /\ pc[q] \in {"stake", "staking", "mark"}
        BY <1>02, <2>1
      <3>2. invoice[i] = "submitted" => received[i] = 0
        BY <1>02, <2>1
      <3> QED
        BY <2>1, <2>2, <3>1, <3>2
    <2>4. ASSUME NEW j \in Invoices, invoice'[j] = "verified", received'[j] # 0
          PROVE  \E q \in Requests : req'[q].invoice = j /\ pc'[q] \in {"stake", "staking", "mark"}
      <3>1. PICK q \in Requests : req[q].invoice = j /\ pc[q] \in {"stake", "staking", "mark"}
        BY <1>02, <2>1, <2>4
      <3> QED
        BY <3>1, <2>1
    <2> QED
      BY <2>1, <2>3, <2>4
  <1>6. ASSUME NEW r \in Requests, CommitVerdict(r) PROVE Exact'
    <2> DEFINE i == req[r].invoice
    <2>1. /\ i \in Invoices /\ pc[r] = "verify" /\ received[i] = 0
          /\ pc' = [pc EXCEPT ![r] = "done"]
          /\ \E s \in {"verified", "rejected", invoice[i]} :
                invoice' = [invoice EXCEPT ![i] = s]
          /\ UNCHANGED <<req, plan, received>>
      BY <1>6 DEF CommitVerdict, Verdict, session, history
    <2>2. \A q \in Requests : pc'[q] \in Busy => pc'[q] = pc[q]
      BY <2>1
    <2>3. \A j \in Invoices : j # i => invoice'[j] = invoice[j]
      BY <2>1
    <2>4. ASSUME NEW j \in Invoices, invoice'[j] = "verified", received'[j] # 0
          PROVE  \E q \in Requests : req'[q].invoice = j /\ pc'[q] \in {"stake", "staking", "mark"}
      <3>1. j # i /\ invoice[j] = "verified" /\ received[j] # 0
        BY <2>1, <2>3, <2>4
      <3>2. PICK q \in Requests : req[q].invoice = j /\ pc[q] \in {"stake", "staking", "mark"}
        BY <3>1
      <3> QED
        BY <3>2, <2>1
    <2>5. \A j \in Invoices :
            /\ invoice'[j] \in {"none", "submitted", "rejected"} => received'[j] = 0
            /\ invoice'[j] = "paid" => received'[j] = Amount
      <3>1. invoice[i] # "paid"
        BY <1>02, <2>1, SuppliersAssumption
      <3> QED
        BY <2>1, <2>3, <3>1
    <2> QED
      BY <2>1, <2>2, <2>4, <2>5
  <1>7. ASSUME NEW r \in Requests, LoadToPay(r) PROVE Exact'
    <2> DEFINE i == req[r].invoice
    <2>1. /\ i \in Invoices /\ invoice[i] = "verified" /\ pc[r] = "idle"
          /\ share[Of[i]] \in 0..Amount
      BY <1>7 DEF LoadToPay, MayStart, Accepts
    <2>2. /\ plan' = [plan EXCEPT ![r] = share[Of[i]]]
          /\ pc' = [pc EXCEPT ![r] = IF share[Of[i]] > 0 THEN "cash" ELSE "stake"]
          /\ UNCHANGED <<invoice, req, received>>
      BY <1>7 DEF LoadToPay
    <2>3. ASSUME NEW q \in Requests, req[q].invoice = i, InFlight(q) PROVE FALSE
      <3>1. q # r /\ pc'[q] = pc[q] /\ req'[q].invoice = req'[r].invoice
        BY <2>1, <2>2, <2>3
      <3>2. pc'[q] \in Busy /\ pc'[r] \in Busy
        BY <2>1, <2>2, <2>3, <3>1
      <3> QED
        BY <3>1, <3>2, <1>03
    <2>4. received[i] = 0
      <3>1. received[i] # 0 => \E q \in Requests : /\ req[q].invoice = i
                                                   /\ pc[q] \in {"stake", "staking", "mark"}
        BY <1>02, <2>1
      <3> QED
        BY <2>3, <3>1
    <2>5. \A j \in Invoices : invoice'[j] = "verified" /\ received'[j] # 0 =>
            \E q \in Requests : req'[q].invoice = j /\ pc'[q] \in {"stake", "staking", "mark"}
      BY SMTT(30), <2>1, <2>2
    <2>6. \A j \in Invoices :
            /\ invoice'[j] \in {"none", "submitted", "rejected"} => received'[j] = 0
            /\ invoice'[j] = "paid" => received'[j] = Amount
      BY <2>2
    <2>7. ASSUME NEW q \in Requests, q # r
          PROVE  pc'[q] = pc[q] /\ plan'[q] = plan[q] /\ req'[q] = req[q]
      BY <2>2, <2>7
    <2>8. /\ pc'[r] \in {"cash", "stake"} /\ plan'[r] = share[Of[i]] /\ req'[r].invoice = i
          /\ pc'[r] = "cash" <=> share[Of[i]] > 0
      BY <2>1, <2>2
    <2>9. /\ pc'[r] \in {"cash"} => received'[req'[r].invoice] = 0 /\ plan'[r] > 0
          /\ pc'[r] = "stake" => received'[req'[r].invoice] = plan'[r] /\ plan'[r] < Amount
      BY <2>1, <2>2, <2>4, <2>8
    <2>10. \A q \in Requests :
            /\ pc'[q] \in {"verify", "cash", "cashing"} => received'[req'[q].invoice] = 0
            /\ pc'[q] \in {"cash", "cashing"} => plan'[q] > 0
            /\ pc'[q] \in {"stake", "staking"} => /\ received'[req'[q].invoice] = plan'[q]
                                                  /\ plan'[q] < Amount
            /\ pc'[q] = "mark" => received'[req'[q].invoice] = Amount
      BY <2>2, <2>7, <2>8, <2>9
    <2> QED
      BY <2>5, <2>6, <2>10
  <1>8. ASSUME NEW r \in Requests, FindCash(r) PROVE Exact'
    BY <1>8 DEF FindCash, Payee, agreement, purse, session, history
  <1>9. ASSUME NEW r \in Requests, CreditCash(r) PROVE Exact'
    <2> DEFINE i == req[r].invoice
    <2>1. /\ i \in Invoices /\ plan[r] \in 1..Amount /\ received[i] = 0 /\ invoice[i] = "verified"
          /\ pc[r] = "cashing"
      BY <1>9 DEF CreditCash
    <2>a. /\ received' = [received EXCEPT ![i] = received[i] + plan[r]]
          /\ received[i] + plan[r] = plan[r]
      BY <1>9, <2>1 DEF CreditCash
    <2>b. /\ pc' = [pc EXCEPT ![r] = IF Stake(r) > 0 THEN "stake" ELSE "mark"]
          /\ Stake(r) > 0 <=> plan[r] < Amount
      BY <1>9, <2>1 DEF CreditCash, Stake
    <2>2. /\ received' = [received EXCEPT ![i] = plan[r]]
          /\ pc' = [pc EXCEPT ![r] = IF plan[r] < Amount THEN "stake" ELSE "mark"]
          /\ UNCHANGED <<invoice, req, plan>>
      BY <1>9, <2>a, <2>b DEF CreditCash
    <2>3. \A q \in Requests \ {r} : req[q].invoice = i => ~InFlight(q)
      BY <2>1
    <2>4. \A j \in Invoices :
            /\ invoice'[j] \in {"none", "submitted", "rejected"} => received'[j] = 0
            /\ invoice'[j] = "paid" => received'[j] = Amount
      BY <2>1, <2>2
    <2>5. \A j \in Invoices : invoice'[j] = "verified" /\ received'[j] # 0 =>
            \E q \in Requests : req'[q].invoice = j /\ pc'[q] \in {"stake", "staking", "mark"}
      BY <2>1, <2>2
    <2>6. \A q \in Requests :
            /\ pc'[q] \in {"verify", "cash", "cashing"} => received'[req'[q].invoice] = 0
            /\ pc'[q] \in {"cash", "cashing"} => plan'[q] > 0
            /\ pc'[q] \in {"stake", "staking"} => /\ received'[req'[q].invoice] = plan'[q]
                                                  /\ plan'[q] < Amount
            /\ pc'[q] = "mark" => received'[req'[q].invoice] = Amount
      BY <2>1, <2>2, <2>3
    <2> QED
      BY <2>4, <2>5, <2>6
  <1>10. ASSUME NEW r \in Requests, FindUnits(r) PROVE Exact'
    BY <1>10 DEF FindUnits, Payee, agreement, purse, session, history
  <1>11. ASSUME NEW r \in Requests, CreditUnits(r) PROVE Exact'
    <2> DEFINE i == req[r].invoice
    <2>1. /\ i \in Invoices /\ plan[r] \in 0..Amount
          /\ received[i] = plan[r] /\ invoice[i] = "verified"
          /\ pc[r] = "staking"
      BY <1>11 DEF CreditUnits
    <2>a. /\ received' = [received EXCEPT ![i] = received[i] + Stake(r)]
          /\ received[i] + Stake(r) = Amount
      BY <1>11, <2>1 DEF CreditUnits, Stake
    <2>2. /\ received' = [received EXCEPT ![i] = Amount]
          /\ pc' = [pc EXCEPT ![r] = "mark"]
          /\ UNCHANGED <<invoice, req, plan>>
      BY <1>11, <2>a DEF CreditUnits
    <2>3. \A q \in Requests \ {r} : req[q].invoice = i => ~InFlight(q)
      BY <2>1
    <2>4. \A j \in Invoices :
            /\ invoice'[j] \in {"none", "submitted", "rejected"} => received'[j] = 0
            /\ invoice'[j] = "paid" => received'[j] = Amount
      BY <2>1, <2>2
    <2>5. \A j \in Invoices : invoice'[j] = "verified" /\ received'[j] # 0 =>
            \E q \in Requests : req'[q].invoice = j /\ pc'[q] \in {"stake", "staking", "mark"}
      BY <2>1, <2>2
    <2>6. \A q \in Requests :
            /\ pc'[q] \in {"verify", "cash", "cashing"} => received'[req'[q].invoice] = 0
            /\ pc'[q] \in {"cash", "cashing"} => plan'[q] > 0
            /\ pc'[q] \in {"stake", "staking"} => /\ received'[req'[q].invoice] = plan'[q]
                                                  /\ plan'[q] < Amount
            /\ pc'[q] = "mark" => received'[req'[q].invoice] = Amount
      BY <2>1, <2>2, <2>3
    <2> QED
      BY <2>4, <2>5, <2>6
  <1>12. ASSUME NEW r \in Requests, MarkPaid(r) PROVE Exact'
    BY <1>12 DEF MarkPaid, WithTransfer, agreement, purse, session, history
  <1>13. ASSUME NEW r \in Requests, Crash(r) PROVE Exact'
    <2>1. pc'[r] # "crashed"
      BY DEF Calm
    <2> QED
      BY <1>13, <2>1 DEF Crash
  <1>14. CASE UNCHANGED vars
    BY <1>14 DEF vars, agreement, purse, session, history
  <1> QED
    BY <1>1, <1>2, <1>3, <1>4, <1>5, <1>6, <1>7, <1>8, <1>9, <1>10,
       <1>11, <1>12, <1>13, <1>14
    DEF Next, AgreementStep, RequestStep

LEMMA CleanInvHolds == Spec => []CleanInv
  BY InitCleanInv, NextCleanInv, PTL DEF Spec

\* Until requests for an invoice overlap or die, none is credited beyond what
\* was verified (pay_invoice).
THEOREM PaysOnlyWhatWasVerifiedHolds == Spec => []PaysOnlyWhatWasVerified
  <1>1. CleanInv => PaysOnlyWhatWasVerified
    <2> SUFFICES ASSUME CleanInv, Calm, NEW i \in Invoices PROVE received[i] <= Amount
      BY DEF PaysOnlyWhatWasVerified
    <2>1. Exact /\ Orderly /\ TypeOK
      BY DEF CleanInv, AloneInv, Calm
    <2> QED
      BY <2>1, SuppliersAssumption DEF Exact, TypeOK, Statuses
  <1> QED
    BY <1>1, CleanInvHolds, PTL

LEMMA InitContract == Init => Contract!Init
  BY DEF Init, Contract!Init, WorkOf

LEMMA StepContract ==
  ASSUME CleanInv, [Next]_vars, Calm'
  PROVE  [Contract!Next]_(Contract!vars)
  <1> DEFINE work == [i \in Invoices |-> WorkOf(i)]
  <1>0. TypeOK /\ TypeOK'
    BY NextTypeOK DEF CleanInv, AloneInv
  <1>c. Exact /\ FreshStatus
    BY <1>0, CalmBefore DEF CleanInv, AloneInv, Calm, Orderly
  <1>s. ASSUME UNCHANGED <<invoice, received>> PROVE UNCHANGED Contract!vars
    BY <1>s DEF Contract!vars, WorkOf
  <1>1. ASSUME NEW i \in Invoices, SubmitInvoice(i) PROVE Contract!Claim(i)
    BY <1>0, <1>1 DEF SubmitInvoice, Contract!Claim, Contract!Becomes, WorkOf, TypeOK,
        history
  <1>2. ASSUME NEW r \in Requests, CommitVerdict(r) PROVE [Contract!Next]_(Contract!vars)
    <2> DEFINE i == req[r].invoice
    <2>0. /\ i \in Invoices /\ loaded[r] = invoice[i] /\ invoice[i] \in {"submitted", "verified"}
          /\ received[i] = 0 /\ received' = received
          /\ invoice' = [invoice EXCEPT ![i] = IF Verdict(r) # loaded[r] THEN Verdict(r) ELSE @]
          /\ invoice \in [Invoices -> Statuses]
      BY <1>0, <1>c, <1>2, AskFields
      DEF CommitVerdict, FreshStatus, InFlight, Busy, Exact, TypeOK
    <2>1. CASE Verdict(r) = loaded[r]
      <3>1. invoice' = invoice
        BY <2>0, <2>1
      <3> QED
        BY <2>0, <3>1, <1>s
    <2>2. CASE Verdict(r) = "verified" /\ Verdict(r) # loaded[r]
      <3>1. Contract!Certify(i)
        BY <2>0, <2>2 DEF Contract!Certify, Contract!Becomes, WorkOf
      <3> QED
        BY <2>0, <3>1 DEF Contract!Next
    <2>3. CASE Verdict(r) = "rejected"
      <3>1. Contract!Reject(i)
        BY <2>0, <2>3 DEF Contract!Reject, Contract!Becomes, WorkOf
      <3> QED
        BY <2>0, <3>1 DEF Contract!Next
    <2> QED
      BY <2>1, <2>2, <2>3 DEF Verdict
  <1>3. ASSUME NEW r \in Requests, CreditCash(r)
        PROVE  Contract!Give(req[r].invoice, plan[r]) /\ plan[r] \in 1..Amount
    <2>1. /\ req[r].invoice \in Invoices /\ invoice[req[r].invoice] = "verified"
          /\ received[req[r].invoice] = 0 /\ plan[r] \in 1..Amount
      BY <1>0, <1>c, <1>3, AskFields, SuppliersAssumption
      DEF CreditCash, FreshStatus, InFlight, Busy, Exact, TypeOK
    <2> QED
      BY <1>0, <1>3, <2>1, SuppliersAssumption DEF CreditCash, Contract!Give, WorkOf,
          TypeOK
  <1>4. ASSUME NEW r \in Requests, CreditUnits(r)
        PROVE  Contract!Give(req[r].invoice, Stake(r)) /\ Stake(r) \in 1..Amount
    <2>1. /\ req[r].invoice \in Invoices /\ invoice[req[r].invoice] = "verified"
          /\ received[req[r].invoice] = plan[r] /\ plan[r] \in 0..Amount /\ plan[r] < Amount
      BY <1>0, <1>c, <1>4, AskFields
      DEF CreditUnits, FreshStatus, InFlight, Busy, Exact, TypeOK
    <2>2. Stake(r) \in 1..Amount /\ received[req[r].invoice] + Stake(r) <= Amount
      BY <2>1, SuppliersAssumption DEF Stake
    <2> QED
      BY <1>0, <1>4, <2>1, <2>2 DEF CreditUnits, Contract!Give, WorkOf, TypeOK
  <1>5. ASSUME NEW r \in Requests, MarkPaid(r) PROVE Contract!Close(req[r].invoice)
    <2>1. /\ req[r].invoice \in Invoices /\ invoice[req[r].invoice] = "verified"
          /\ received[req[r].invoice] = Amount
      BY <1>0, <1>c, <1>5, AskFields
      DEF MarkPaid, FreshStatus, InFlight, Busy, Exact, TypeOK
    <2> QED
      BY <1>0, <1>5, <2>1 DEF MarkPaid, Contract!Close, Contract!Becomes, WorkOf,
          TypeOK, history
  <1>6. ASSUME NEW r \in Requests PROVE req[r].invoice \in Invoices
    BY <1>0, AskFields DEF TypeOK
  <1>7. ASSUME \/ \E a \in Agreements : AddSupplier(a) \/ \E yes \in BOOLEAN : Respond(a, yes)
               \/ \E r \in Requests : \/ RefuseRequest(r) \/ LoadToVerify(r) \/ LoadToPay(r)
                                      \/ FindCash(r) \/ FindUnits(r) \/ Crash(r)
               \/ UNCHANGED vars
        PROVE  UNCHANGED <<invoice, received>>
    BY <1>7 DEF AddSupplier, Respond, RefuseRequest, LoadToVerify, LoadToPay, FindCash,
                FindUnits, Crash, vars, history
  <1> QED
    BY <1>s, <1>1, <1>2, <1>3, <1>4, <1>5, <1>6, <1>7
    DEF Next, AgreementStep, RequestStep, Contract!Next

\* Until requests for an invoice overlap or die, invoices are what supplier and
\* sponsor are promised.
THEOREM SuppliersImplementContract == Spec => ContractKept
  <1>1. CleanInv /\ [Next]_vars => [Calm' => [Contract!Next]_(Contract!vars)]_vars
    BY StepContract
  <1> QED
    BY InitContract, <1>1, CleanInvHolds, PTL DEF Spec, ContractKept

-----------------------------------------------------------------------------
(* Wallets, until two requests for one supplier overlap, whoever dies. *)

OnePerPayee ==
    \A q, r \in Requests : InFlight(q) /\ InFlight(r) /\ Payee(q) = Payee(r) => q = r

\* The position is still the one that credit() found.
FoundIsTrue ==
    \A r \in Requests : /\ pc[r] = "cashing" => found[r] = cash[Payee(r)]
                        /\ pc[r] = "staking" => found[r] = units[Payee(r)]

HoldsAll(u) ==
    InRow(cash[u]) + InRow(units[u]) = SumFunctionOnSet(received, InvoicesOf(u))

Stocked == OnePerPayee /\ FoundIsTrue /\ \A u \in Users : HoldsAll(u)

WalletInv == TypeOK /\ (PayeesApart => Stocked)

LEMMA InitWalletInv == Init => WalletInv
  <1> SUFFICES ASSUME Init PROVE WalletInv
    OBVIOUS
  <1>1. OnePerPayee /\ FoundIsTrue
    BY DEF Init, OnePerPayee, FoundIsTrue, InFlight, Busy
  <1>2. ASSUME NEW u \in Users PROVE HoldsAll(u)
    <2>1. IsFiniteSet(InvoicesOf(u))
      BY SuppliersAssumption, FS_Subset DEF InvoicesOf
    <2>2. \A i \in InvoicesOf(u) : received[i] = 0
      BY DEF Init, InvoicesOf
    <2>3. SumFunctionOnSet(received, InvoicesOf(u)) = 0
      BY <2>1, <2>2, SumOfZeros
    <2>4. InRow(cash[u]) + InRow(units[u]) = 0
      BY DEF Init, InRow
    <2> QED
      BY <2>3, <2>4 DEF HoldsAll
  <1> QED
    BY <1>1, <1>2, InitTypeOK DEF WalletInv, Stocked

LEMMA PayeesApartBefore == TypeOK /\ [Next]_vars /\ PayeesApart' => PayeesApart
  <1> SUFFICES ASSUME TypeOK, [Next]_vars, PayeesApart', NEW r \in Requests, NEW q \in met[r]
               PROVE  Payee(q) # Payee(r)
    BY DEF PayeesApart
  <1>1. req' = req
    BY DEF Next, AgreementStep, RequestStep, AddSupplier, Respond, SubmitInvoice,
       RefuseRequest, LoadToVerify, CommitVerdict, LoadToPay, FindCash, CreditCash, FindUnits,
       CreditUnits, MarkPaid, Crash, vars
  <1>2. met[r] \subseteq met'[r]
    BY SMTT(30) DEF TypeOK, Next, AgreementStep, RequestStep, AddSupplier, Respond, SubmitInvoice,
       RefuseRequest, LoadToVerify, CommitVerdict, LoadToPay, FindCash, CreditCash, FindUnits,
       CreditUnits, MarkPaid, Crash, vars, history, Meet
  <1> QED
    BY <1>1, <1>2 DEF PayeesApart, Payee

\* What a supplier holds after one of the supplier's invoices is credited.
LEMMA CreditedSum ==
  ASSUME NEW f \in [Invoices -> Nat], NEW g \in [Invoices -> Nat], NEW i \in Invoices,
         NEW a \in Nat, g[i] = f[i] + a, \A j \in Invoices \ {i} : g[j] = f[j],
         NEW u \in Users
  PROVE  /\ u = Supplier[Of[i]] => SumFunctionOnSet(g, InvoicesOf(u))
                                     = SumFunctionOnSet(f, InvoicesOf(u)) + a
         /\ u # Supplier[Of[i]] => SumFunctionOnSet(g, InvoicesOf(u))
                                     = SumFunctionOnSet(f, InvoicesOf(u))
         /\ SumFunctionOnSet(f, InvoicesOf(u)) \in Int
  <1>1. IsFiniteSet(InvoicesOf(u)) /\ InvoicesOf(u) \subseteq Invoices
    BY SuppliersAssumption, FS_Subset DEF InvoicesOf
  <1>2. \A j \in Invoices \ {i} : f[j] = g[j]
    OBVIOUS
  <1>3. IsWhole(f, InvoicesOf(u)) /\ IsWhole(g, InvoicesOf(u))
    BY <1>1 DEF IsWhole
  <1>4. ASSUME u = Supplier[Of[i]]
        PROVE  SumFunctionOnSet(g, InvoicesOf(u)) = SumFunctionOnSet(f, InvoicesOf(u)) + a
    <2>1. i \in InvoicesOf(u)
      BY <1>4 DEF InvoicesOf
    <2>2. \A j \in InvoicesOf(u) \ {i} : f[j] = g[j]
      BY <1>1, <1>2
    <2>3. SumFunctionOnSet(g, InvoicesOf(u))
            = SumFunctionOnSet(f, InvoicesOf(u)) + (g[i] - f[i])
      BY ONLY <1>1, <1>3, <2>1, <2>2, SumOfChanged
    <2>4. g[i] - f[i] = a
      OBVIOUS
    <2> QED
      BY <2>3, <2>4
  <1>5. ASSUME u # Supplier[Of[i]]
        PROVE  SumFunctionOnSet(g, InvoicesOf(u)) = SumFunctionOnSet(f, InvoicesOf(u))
    <2>1. \A j \in InvoicesOf(u) : f[j] = g[j]
      BY <1>2, <1>5 DEF InvoicesOf
    <2> QED
      BY <1>1, <2>1, SumOfSame
  <1>6. SumFunctionOnSet(f, InvoicesOf(u)) \in Int
    BY <1>1, <1>3, SumIsWhole
  <1> QED
    BY <1>4, <1>5, <1>6

LEMMA NextWalletInv == WalletInv /\ [Next]_vars => WalletInv'
  <1> SUFFICES ASSUME WalletInv, [Next]_vars, PayeesApart' PROVE Stocked'
    BY NextTypeOK DEF WalletInv
  <1>0. TypeOK /\ TypeOK' /\ Stocked
    BY NextTypeOK, PayeesApartBefore DEF WalletInv
  <1>r. req' = req
    BY DEF Next, AgreementStep, RequestStep, AddSupplier, Respond, SubmitInvoice,
       RefuseRequest, LoadToVerify, CommitVerdict, LoadToPay, FindCash, CreditCash, FindUnits,
       CreditUnits, MarkPaid, Crash, vars
  <1>p. \A q \in Requests : Payee(q)' = Payee(q)
    BY <1>r DEF Payee
  <1>s. ASSUME UNCHANGED <<cash, units, received>> PROVE \A u \in Users : HoldsAll(u)'
    BY <1>s, <1>0 DEF Stocked, HoldsAll
  <1>1. ASSUME UNCHANGED <<pc, found, cash, units, received>> PROVE Stocked'
    <2>1. OnePerPayee' /\ FoundIsTrue'
      BY <1>1, <1>0, <1>p DEF Stocked, OnePerPayee, FoundIsTrue, InFlight
    <2> QED
      BY <1>1, <1>s, <2>1 DEF Stocked
  <1>2. CASE AgreementStep
    BY <1>1, <1>2 DEF AgreementStep, AddSupplier, Respond, SubmitInvoice, purse, session, history
  <1>3. CASE UNCHANGED vars
    BY <1>1, <1>3 DEF vars, purse, session, history
  <1>4. ASSUME NEW r \in Requests, LoadToVerify(r) \/ LoadToPay(r) PROVE Stocked'
    <2>1. \A q \in Requests : InFlight(q) => Payee(q) # Payee(r)
      <3>1. \A q \in met'[r] : Payee(q) # Payee(r)
        BY <1>p, <1>0 DEF PayeesApart, TypeOK
      <3> QED
        BY <1>4, <1>0, <3>1 DEF LoadToVerify, LoadToPay, Meet, TypeOK
    <2>2. /\ \E s \in {"verify", "cash", "stake"} : pc' = [pc EXCEPT ![r] = s]
          /\ UNCHANGED <<found, cash, units, received>>
      BY <1>4 DEF LoadToVerify, LoadToPay, purse
    <2>3. OnePerPayee' /\ FoundIsTrue'
      BY <1>0, <1>p, <2>1, <2>2
      DEF Stocked, OnePerPayee, FoundIsTrue, InFlight, Busy, TypeOK
    <2> QED
      BY <1>s, <2>2, <2>3 DEF Stocked
  <1>5. ASSUME NEW r \in Requests, RequestStep(r), ~LoadToVerify(r), ~LoadToPay(r)
        PROVE  OnePerPayee' /\ FoundIsTrue'
    <2> USE <1>0, <1>p, <1>5 DEF Stocked, OnePerPayee, FoundIsTrue, InFlight, Busy, TypeOK
    <2>1. CASE RefuseRequest(r)
      BY <2>1 DEF RefuseRequest, purse, session, MayStart
    <2>2. CASE CommitVerdict(r)
      BY <2>2 DEF CommitVerdict, purse, session
    <2>3. CASE FindCash(r)
      BY <2>3 DEF FindCash, purse
    <2>4. CASE CreditCash(r)
      BY <2>4 DEF CreditCash
    <2>5. CASE FindUnits(r)
      BY <2>5 DEF FindUnits, purse
    <2>6. CASE CreditUnits(r)
      BY <2>6 DEF CreditUnits
    <2>7. CASE MarkPaid(r)
      BY <2>7 DEF MarkPaid, session
    <2>8. CASE Crash(r)
      BY <2>8 DEF Crash, purse
    <2> QED
      BY <2>1, <2>2, <2>3, <2>4, <2>5, <2>6, <2>7, <2>8 DEF RequestStep
  <1>6. ASSUME NEW r \in Requests, CreditCash(r), NEW u \in Users PROVE HoldsAll(u)'
    <2>1. PICK i \in Invoices : i = req[r].invoice
      BY <1>0 DEF TypeOK, Asks
    <2>2. PICK a \in Nat : a = plan[r]
      BY <1>0, SuppliersAssumption DEF TypeOK
    <2>3. /\ received \in [Invoices -> Nat] /\ received' \in [Invoices -> Nat]
          /\ received'[i] = received[i] + a
          /\ \A j \in Invoices \ {i} : received'[j] = received[j]
          /\ Supplier[Of[i]] = Payee(r)
      BY <1>0, <1>6, <2>1, <2>2 DEF TypeOK, CreditCash, Payee
    <2>s. SumFunctionOnSet(received, InvoicesOf(u)) \in Int
      BY ONLY <2>1, <2>2, <2>3, CreditedSum
    <2>4. units' = units /\ InRow(units[u]) \in Nat /\ InRow(cash[u]) \in Nat
      BY <1>0, <1>6 DEF CreditCash, InRow, TypeOK
    <2>5. CASE u = Payee(r)
      <3>1. found[r] = cash[u]
        BY <1>0, <1>6, <2>5 DEF CreditCash, Stocked, FoundIsTrue
      <3>2. cash'[u] = AfterCredit(found[r], cash[u], a)
        BY <1>0, <1>6, <2>2, <2>5 DEF CreditCash, TypeOK
      <3>3. cash'[u] = a + InRow(cash[u])
        BY <3>1, <3>2 DEF AfterCredit, InRow
      <3>4. InRow(cash'[u]) = a + InRow(cash[u])
        BY <2>2, <2>4, <3>3 DEF InRow, None
      <3>5. SumFunctionOnSet(received', InvoicesOf(u))
              = SumFunctionOnSet(received, InvoicesOf(u)) + a
        BY ONLY <2>1, <2>2, <2>3, <2>5, u \in Users, CreditedSum
      <3>6. HoldsAll(u)
        BY <1>0 DEF Stocked
      <3> QED
        BY ONLY <2>2, <2>4, <2>s, <3>4, <3>5, <3>6 DEF HoldsAll
    <2>6. CASE u # Payee(r)
      <3>1. cash'[u] = cash[u]
        BY <1>0, <1>6, <2>6 DEF CreditCash, TypeOK
      <3>2. SumFunctionOnSet(received', InvoicesOf(u))
              = SumFunctionOnSet(received, InvoicesOf(u))
        BY ONLY <2>1, <2>2, <2>3, <2>6, u \in Users, CreditedSum
      <3> QED
        BY <1>0, <2>4, <3>1, <3>2 DEF Stocked, HoldsAll
    <2> QED
      BY <2>5, <2>6
  <1>7. ASSUME NEW r \in Requests, CreditUnits(r), NEW u \in Users PROVE HoldsAll(u)'
    <2>1. PICK i \in Invoices : i = req[r].invoice
      BY <1>0 DEF TypeOK, Asks
    <2>2. PICK a \in Nat : a = Stake(r)
      BY <1>0, SuppliersAssumption DEF TypeOK, Stake
    <2>3. /\ received \in [Invoices -> Nat] /\ received' \in [Invoices -> Nat]
          /\ received'[i] = received[i] + a
          /\ \A j \in Invoices \ {i} : received'[j] = received[j]
          /\ Supplier[Of[i]] = Payee(r)
      BY <1>0, <1>7, <2>1, <2>2 DEF TypeOK, CreditUnits, Payee
    <2>s. SumFunctionOnSet(received, InvoicesOf(u)) \in Int
      BY ONLY <2>1, <2>2, <2>3, CreditedSum
    <2>4. cash' = cash /\ InRow(units[u]) \in Nat /\ InRow(cash[u]) \in Nat
      BY <1>0, <1>7 DEF CreditUnits, InRow, TypeOK
    <2>5. CASE u = Payee(r)
      <3>1. found[r] = units[u]
        BY <1>0, <1>7, <2>5 DEF CreditUnits, Stocked, FoundIsTrue
      <3>2. units'[u] = AfterCredit(found[r], units[u], a)
        BY <1>0, <1>7, <2>2, <2>5 DEF CreditUnits, TypeOK
      <3>3. units'[u] = a + InRow(units[u])
        BY <3>1, <3>2 DEF AfterCredit, InRow
      <3>4. InRow(units'[u]) = a + InRow(units[u])
        BY <2>2, <2>4, <3>3 DEF InRow, None
      <3>5. SumFunctionOnSet(received', InvoicesOf(u))
              = SumFunctionOnSet(received, InvoicesOf(u)) + a
        BY ONLY <2>1, <2>2, <2>3, <2>5, u \in Users, CreditedSum
      <3>6. HoldsAll(u)
        BY <1>0 DEF Stocked
      <3> QED
        BY ONLY <2>2, <2>4, <2>s, <3>4, <3>5, <3>6 DEF HoldsAll
    <2>6. CASE u # Payee(r)
      <3>1. units'[u] = units[u]
        BY <1>0, <1>7, <2>6 DEF CreditUnits, TypeOK
      <3>2. SumFunctionOnSet(received', InvoicesOf(u))
              = SumFunctionOnSet(received, InvoicesOf(u))
        BY ONLY <2>1, <2>2, <2>3, <2>6, u \in Users, CreditedSum
      <3> QED
        BY <1>0, <2>4, <3>1, <3>2 DEF Stocked, HoldsAll
    <2> QED
      BY <2>5, <2>6
  <1>8. ASSUME NEW r \in Requests, RequestStep(r), ~CreditCash(r), ~CreditUnits(r)
        PROVE  \A u \in Users : HoldsAll(u)'
    BY <1>8, <1>s DEF RequestStep, RefuseRequest, LoadToVerify, CommitVerdict, LoadToPay,
       FindCash, FindUnits, MarkPaid, Crash, purse, history
  <1> QED
    BY <1>2, <1>3, <1>4, <1>5, <1>6, <1>7, <1>8 DEF Next, Stocked

\* Until two requests for one supplier overlap the supplier's wallet holds all
\* that was credited, cash and units together (credit, pay_invoice).
THEOREM WalletHoldsAllHolds == Spec => []WalletHoldsAll
  <1>1. WalletInv => WalletHoldsAll
    BY DEF WalletInv, Stocked, HoldsAll, WalletHoldsAll
  <1> QED
    BY InitWalletInv, NextWalletInv, <1>1, PTL DEF Spec
=============================================================================
