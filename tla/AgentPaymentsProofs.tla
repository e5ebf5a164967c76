------------------------- MODULE AgentPaymentsProofs -------------------------
(***************************************************************************)
(* Theorems about AgentPayments, for every set of mandates, users and      *)
(* requests and every limit.  Those of the first part hold whatever        *)
(* overlaps and whoever crashes; those of the second as long as an agent   *)
(* awaits each answer and no request dies.                                 *)
(***************************************************************************)
EXTENDS AgentPayments, SumTheorems, TLAPS

\* The fields of what an agent asks for.
LEMMA AttemptFields ==
    \A a \in Attempts : /\ a.mandate \in Mandates /\ a.payee \in Users
                        /\ a.amount \in Nat \ {0} /\ a.conforms \in BOOLEAN
  BY PaymentsAssumption DEF Attempts

-----------------------------------------------------------------------------
(* Types. *)

LEMMA InitTypeOK == Init => TypeOK
  BY PaymentsAssumption DEF Init, TypeOK, Steps, None

LEMMA NextTypeOK == TypeOK /\ [Next]_vars => TypeOK'
  <1> SUFFICES ASSUME TypeOK, [Next]_vars PROVE TypeOK'
    OBVIOUS
  <1> USE PaymentsAssumption, AttemptFields DEF TypeOK, None, Steps
  <1>1. ASSUME NEW m \in Mandates, GrantMandate(m) PROVE TypeOK'
    BY <1>1 DEF GrantMandate, sessions, history
  <1>2. ASSUME NEW m \in Mandates, RevokeMandate(m) PROVE TypeOK'
    BY <1>2 DEF RevokeMandate, sessions, history
  <1>3. ASSUME NEW m \in Mandates, ExpireMandate(m) PROVE TypeOK'
    BY <1>3 DEF ExpireMandate, sessions, history
  <1>4. ASSUME NEW r \in Requests, ReceivePayment(r) PROVE TypeOK'
    BY <1>4 DEF ReceivePayment, Payer
  <1>5. ASSUME NEW r \in Requests, RefusePayment(r) PROVE TypeOK'
    BY <1>5 DEF RefusePayment, history
  <1>6. ASSUME NEW r \in Requests, SettleOnRail(r) PROVE TypeOK'
    BY <1>6 DEF SettleOnRail, rows, history
  <1>7. ASSUME NEW r \in Requests, TakeFromPayer(r) PROVE TypeOK'
    BY <1>7 DEF TakeFromPayer, rows, history, Held, InRow, Payer
  <1>8. ASSUME NEW r \in Requests, OpenPayeeWallet(r) PROVE TypeOK'
    BY <1>8 DEF OpenPayeeWallet, history, Payer
  <1>9. ASSUME NEW r \in Requests, FindPayeeCash(r) PROVE TypeOK'
    BY <1>9 DEF FindPayeeCash, rows, history
  <1>10. ASSUME NEW r \in Requests, CreditPayee(r) PROVE TypeOK'
    BY <1>10 DEF CreditPayee, Merged, AfterCredit, Held, InRow, Payer
  <1>11. ASSUME NEW r \in Requests, ReloadMandate(r) PROVE TypeOK'
    BY <1>11 DEF ReloadMandate, rows, history
  <1>12. ASSUME NEW r \in Requests, RecordPayment(r) PROVE TypeOK'
    BY <1>12 DEF RecordPayment, Counted, StatusAfter, Exhausts
  <1>13. ASSUME NEW r \in Requests, Crash(r) PROVE TypeOK'
    BY <1>13 DEF Crash, rows, history
  <1>14. CASE UNCHANGED vars
    BY <1>14 DEF vars, rows, sessions, history
  <1>15. QED
    BY <1>1, <1>2, <1>3, <1>4, <1>5, <1>6, <1>7, <1>8, <1>9, <1>10, <1>11,
       <1>12, <1>13, <1>14 DEF Next, MandateStep, PayStep

\* Every variable keeps its type in every behaviour of the payments.
THEOREM TypeCorrect == Spec => []TypeOK
  BY InitTypeOK, NextTypeOK, PTL DEF Spec

-----------------------------------------------------------------------------
(* Whatever overlaps and whoever crashes. *)

\* Where a request stands says what it has done: only an admitted request is
\* at the rail, a payee is credited before the payment is counted.
Progress ==
    \A r \in Requests :
      /\ pc[r] \in {"idle", "check"} => r \notin rail
      /\ pc[r] \in {"count", "record"} => r \in credited
      /\ pc[r] \in {"idle", "check", "take", "taken", "moving"} => r \notin credited
      /\ outcome[r] # "none" => pc[r] = "done"

\* A late request holds a view that check_mandate refuses.
LateIsRefused ==
    \A r \in late : /\ pc[r] \in {"check", "done", "crashed"}
                    /\ pc[r] = "check" => view[r].status # "active"

\* No count is ahead of the payments, neither in the row nor in a session
\* about to write it.
CountsLag ==
    \A r \in Requests : pc[r] = "record" => view[r].spent <= paid[req[r].mandate]

SafeInv ==
    /\ TypeOK /\ Progress /\ LateIsRefused /\ CountsLag
    /\ LateNeverPays /\ AuditTrail /\ CountNeverOverstates /\ ExhaustedIsSpent

LEMMA InitSafeInv == Init => SafeInv
  BY InitTypeOK, PaymentsAssumption
  DEF Init, SafeInv, Progress, LateIsRefused, CountsLag, LateNeverPays, AuditTrail,
      CountNeverOverstates, ExhaustedIsSpent

LEMMA NextSafeInv == SafeInv /\ [Next]_vars => SafeInv'
  <1> SUFFICES ASSUME SafeInv, [Next]_vars PROVE SafeInv'
    OBVIOUS
  <1> DEFINE Rest == /\ Progress /\ LateIsRefused /\ CountsLag
                     /\ LateNeverPays /\ AuditTrail /\ CountNeverOverstates
                     /\ ExhaustedIsSpent
  <1>0. TypeOK'
    BY NextTypeOK DEF SafeInv
  <1>t. TypeOK
    BY DEF SafeInv
  <1> USE <1>0, <1>t, PaymentsAssumption, AttemptFields
      DEF SafeInv, TypeOK, Progress, LateIsRefused, CountsLag, LateNeverPays, AuditTrail,
          CountNeverOverstates, ExhaustedIsSpent
  <1>1. ASSUME NEW m \in Mandates, GrantMandate(m) PROVE Rest'
    BY <1>1 DEF GrantMandate, sessions, history
  <1>2. ASSUME NEW m \in Mandates, RevokeMandate(m) PROVE Rest'
    BY <1>2 DEF RevokeMandate, sessions, history
  <1>3. ASSUME NEW m \in Mandates, ExpireMandate(m) PROVE Rest'
    BY <1>3 DEF ExpireMandate, sessions, history
  <1>4. ASSUME NEW r \in Requests, ReceivePayment(r) PROVE Rest'
    BY <1>4 DEF ReceivePayment, Payer
  <1>5. ASSUME NEW r \in Requests, RefusePayment(r) PROVE Rest'
    BY <1>5 DEF RefusePayment, history
  <1>6. ASSUME NEW r \in Requests, SettleOnRail(r) PROVE Rest'
    BY SMTT(30), <1>6 DEF SettleOnRail, rows, history, CheckMandate
  <1>7. ASSUME NEW r \in Requests, TakeFromPayer(r) PROVE Rest'
    BY <1>7 DEF TakeFromPayer, rows, history
  <1>8. ASSUME NEW r \in Requests, OpenPayeeWallet(r) PROVE Rest'
    BY <1>8 DEF OpenPayeeWallet, history
  <1>9. ASSUME NEW r \in Requests, FindPayeeCash(r) PROVE Rest'
    BY <1>9 DEF FindPayeeCash, rows, history
  <1>10. ASSUME NEW r \in Requests, CreditPayee(r) PROVE Rest'
    BY <1>10 DEF CreditPayee
  <1>11. ASSUME NEW r \in Requests, ReloadMandate(r) PROVE Rest'
    BY <1>11 DEF ReloadMandate, rows, history
  <1>12. ASSUME NEW r \in Requests, RecordPayment(r) PROVE Rest'
    BY <1>12 DEF RecordPayment, Counted, StatusAfter, Exhausts
  <1>13. ASSUME NEW r \in Requests, Crash(r) PROVE Rest'
    BY <1>13 DEF Crash, rows, history, InFlight
  <1>14. CASE UNCHANGED vars
    BY <1>14 DEF vars, rows, sessions, history
  <1>15. QED
    BY <1>1, <1>2, <1>3, <1>4, <1>5, <1>6, <1>7, <1>8, <1>9, <1>10, <1>11,
       <1>12, <1>13, <1>14 DEF Next, MandateStep, PayStep

LEMMA SafeInvHolds == Spec => []SafeInv
  BY InitSafeInv, NextSafeInv, PTL DEF Spec

\* An attempt received after its mandate was withdrawn never reaches the rail.
THEOREM LateNeverPaysHolds == Spec => []LateNeverPays
  <1>1. SafeInv => LateNeverPays
    BY DEF SafeInv
  <1>2. QED
    BY SafeInvHolds, <1>1, PTL

\* A refused attempt reached no rail and a settled one has credited its payee.
THEOREM AuditTrailHolds == Spec => []AuditTrail
  <1>1. SafeInv => AuditTrail
    BY DEF SafeInv
  <1>2. QED
    BY SafeInvHolds, <1>1, PTL

\* spent_total is never above what was paid, lost updates included.
THEOREM CountNeverOverstatesHolds == Spec => []CountNeverOverstates
  <1>1. SafeInv => CountNeverOverstates
    BY DEF SafeInv
  <1>2. QED
    BY SafeInvHolds, <1>1, PTL

\* A mandate is exhausted only when it has paid out its total.
THEOREM ExhaustedIsSpentHolds == Spec => []ExhaustedIsSpent
  <1>1. SafeInv => ExhaustedIsSpent
    BY DEF SafeInv
  <1>2. QED
    BY SafeInvHolds, <1>1, PTL

\* A mandate that was withdrawn stays withdrawn: RecordPayment is the only
\* step of a payment that writes the status.
THEOREM NeverReactivatedHolds == Spec => NeverReactivated
  <1> DEFINE Stays == \A m \in Mandates : status[m] \in {"revoked", "exhausted"}
                                            => status'[m] \in {"revoked", "exhausted"}
  <1>1. TypeOK /\ [Next]_vars => [Stays]_vars
    <2> SUFFICES ASSUME TypeOK, Next PROVE Stays
      OBVIOUS
    <2>1. CASE MandateStep
      BY <2>1 DEF MandateStep, GrantMandate, RevokeMandate, ExpireMandate, TypeOK
    <2>2. ASSUME NEW r \in Requests, RecordPayment(r) PROVE Stays
      BY <2>2, AttemptFields DEF RecordPayment, StatusAfter, TypeOK
    <2>3. ASSUME NEW r \in Requests, PayStep(r), ~RecordPayment(r) PROVE status' = status
      BY <2>3 DEF PayStep, ReceivePayment, RefusePayment, SettleOnRail, TakeFromPayer,
         OpenPayeeWallet, FindPayeeCash, CreditPayee, ReloadMandate, Crash, rows
    <2>4. QED
      BY <2>1, <2>2, <2>3 DEF Next
  <1>2. QED
    BY TypeCorrect, <1>1, PTL DEF Spec, NeverReactivated

-----------------------------------------------------------------------------
(* As long as agents await their answers and no request dies.              *)

\* At most one attempt is under way for a mandate; nobody else moves its
\* counters, so what the session read is still true when it is used.
OneAtATime ==
    \A q, r \in Requests :
      InFlight(q) /\ InFlight(r) /\ req[q].mandate = req[r].mandate => q = r

\* An admitted attempt fits.
Fits ==
    \A r \in Requests :
      pc[r] \in {"take", "taken", "moving", "count", "record"} =>
        /\ req[r].amount <= MaxPerPayment[req[r].mandate]
        /\ spent[req[r].mandate] + req[r].amount <= MaxTotal[req[r].mandate]

ViewIsTrue ==
    \A r \in Requests :
      pc[r] \in {"check", "record"} => view[r].spent = spent[req[r].mandate]

\* Only the payment between its two commits is credited and not yet counted.
Balance ==
    /\ \A m \in Mandates : spent[m] = paid[m] /\ paid[m] <= MaxTotal[m]
    /\ \A m \in Mandates :
         (\A r \in Requests : pc[r] \in {"count", "record"} => req[r].mandate # m)
           => sent[m] = paid[m]
    /\ \A r \in Requests :
         pc[r] \in {"count", "record"}
           => sent[req[r].mandate] = paid[req[r].mandate] + req[r].amount

\* Nobody attempts a payment under a mandate before it is granted.
Granted == \A r \in Requests : InFlight(r) => status[req[r].mandate] # "none"

Orderly == OneAtATime /\ Fits /\ ViewIsTrue /\ Balance

AwaitedInv == SafeInv /\ Granted /\ (Awaited => Orderly)

\* Once attempts have overlapped or died, they have for good.
LEMMA AwaitedBefore == TypeOK /\ [Next]_vars /\ Awaited' => Awaited
  <1> SUFFICES ASSUME TypeOK, [Next]_vars, Awaited', NEW r \in Requests
               PROVE  /\ pc[r] # "crashed"
                      /\ \A q \in met[r] : req[q].mandate # req[r].mandate
    BY DEF Awaited
  <1>1. pc[r] = "crashed" => pc'[r] = "crashed"
    BY DEF TypeOK, Next, MandateStep, PayStep, GrantMandate, RevokeMandate, ExpireMandate,
       ReceivePayment, RefusePayment, SettleOnRail, TakeFromPayer, OpenPayeeWallet,
       FindPayeeCash, CreditPayee, ReloadMandate, RecordPayment, Crash, InFlight,
       vars, sessions
  <1>2. req' = req
    BY DEF Next, MandateStep, PayStep, GrantMandate, RevokeMandate, ExpireMandate,
       ReceivePayment, RefusePayment, SettleOnRail, TakeFromPayer, OpenPayeeWallet,
       FindPayeeCash, CreditPayee, ReloadMandate, RecordPayment, Crash, vars
  <1>3. met[r] \subseteq met'[r]
    BY DEF TypeOK, Next, MandateStep, PayStep, GrantMandate, RevokeMandate, ExpireMandate,
       ReceivePayment, RefusePayment, SettleOnRail, TakeFromPayer, OpenPayeeWallet,
       FindPayeeCash, CreditPayee, ReloadMandate, RecordPayment, Crash, vars, history
  <1>4. QED
    BY <1>1, <1>2, <1>3 DEF Awaited

LEMMA InitAwaitedInv == Init => AwaitedInv
  BY InitSafeInv, PaymentsAssumption, AttemptFields
  DEF Init, AwaitedInv, Orderly, Granted, OneAtATime, Fits, ViewIsTrue, Balance, InFlight

LEMMA NextGranted == TypeOK /\ Granted /\ [Next]_vars => Granted'
  <1> SUFFICES ASSUME TypeOK, Granted, [Next]_vars, NEW r \in Requests, InFlight(r)'
               PROVE  status'[req'[r].mandate] # "none"
    BY DEF Granted
  <1> USE AttemptFields DEF TypeOK, Granted, InFlight
  <1>1. req' = req /\ req[r].mandate \in Mandates
    BY DEF Next, MandateStep, PayStep, GrantMandate, RevokeMandate, ExpireMandate,
       ReceivePayment, RefusePayment, SettleOnRail, TakeFromPayer, OpenPayeeWallet,
       FindPayeeCash, CreditPayee, ReloadMandate, RecordPayment, Crash, vars
  <1>2. InFlight(r) \/ status[req[r].mandate] # "none"
    BY DEF Next, MandateStep, PayStep, GrantMandate, RevokeMandate, ExpireMandate,
       ReceivePayment, RefusePayment, SettleOnRail, TakeFromPayer, OpenPayeeWallet,
       FindPayeeCash, CreditPayee, ReloadMandate, RecordPayment, Crash, vars, sessions
  <1>3. \A m \in Mandates : status[m] # "none" => status'[m] # "none"
    BY DEF Next, MandateStep, PayStep, GrantMandate, RevokeMandate, ExpireMandate,
       ReceivePayment, RefusePayment, SettleOnRail, TakeFromPayer, OpenPayeeWallet,
       FindPayeeCash, CreditPayee, ReloadMandate, RecordPayment, StatusAfter, Crash,
       vars, rows
  <1>4. QED
    BY <1>1, <1>2, <1>3

LEMMA NextAwaitedInv == AwaitedInv /\ [Next]_vars => AwaitedInv'
  <1> SUFFICES ASSUME AwaitedInv, [Next]_vars PROVE AwaitedInv'
    OBVIOUS
  <1>g. SafeInv' /\ Granted'
    BY NextSafeInv, NextGranted DEF AwaitedInv, SafeInv
  <1>t. TypeOK /\ TypeOK'
    BY <1>g DEF SafeInv, AwaitedInv
  <1> SUFFICES ASSUME Awaited' PROVE Orderly'
    BY <1>g DEF AwaitedInv
  <1>o. Orderly
    BY <1>t, AwaitedBefore DEF AwaitedInv
  <1>l. ASSUME NEW r \in Requests
        PROVE  pc'[r] # "crashed" /\ \A q \in met'[r] : req'[q].mandate # req'[r].mandate
    BY DEF Awaited
  <1> DEFINE Rest == OneAtATime /\ Fits /\ ViewIsTrue /\ Balance
  <1> USE <1>t, <1>o, PaymentsAssumption, AttemptFields
      DEF Orderly, TypeOK, OneAtATime, Fits, ViewIsTrue, Balance, InFlight
  <1>1. ASSUME NEW m \in Mandates, GrantMandate(m) PROVE Rest'
    BY <1>1 DEF GrantMandate, sessions, history
  <1>2. ASSUME NEW m \in Mandates, RevokeMandate(m) PROVE Rest'
    BY <1>2 DEF RevokeMandate, sessions, history
  <1>3. ASSUME NEW m \in Mandates, ExpireMandate(m) PROVE Rest'
    BY <1>3 DEF ExpireMandate, sessions, history
  <1>4. ASSUME NEW r \in Requests, ReceivePayment(r) PROVE Rest'
    <2>1. \A q \in Requests : InFlight(q) => req[q].mandate # req[r].mandate
      BY <1>4, <1>l DEF ReceivePayment
    <2>2. QED
      BY <1>4, <2>1 DEF ReceivePayment, Payer
  <1>5. ASSUME NEW r \in Requests, RefusePayment(r) PROVE Rest'
    <2>1. UNCHANGED <<spent, sent, paid, req, view>>
          /\ pc[r] = "check" /\ pc' = [pc EXCEPT ![r] = "done"]
      BY <1>5 DEF RefusePayment, history
    <2>2. OneAtATime' /\ Fits' /\ ViewIsTrue'
      BY <2>1
    <2>3. Balance'
      BY <2>1
    <2>4. QED
      BY <2>2, <2>3
  <1>6. ASSUME NEW r \in Requests, SettleOnRail(r) PROVE Rest'
    BY <1>6 DEF SettleOnRail, rows, history, CheckMandate
  <1>7. ASSUME NEW r \in Requests, TakeFromPayer(r) PROVE Rest'
    <2>1. UNCHANGED <<status, spent, sent, paid, req, view>>
          /\ pc[r] = "take" /\ pc' = [pc EXCEPT ![r] = "taken"]
      BY <1>7 DEF TakeFromPayer, rows, history
    <2>2. OneAtATime'
      BY <2>1
    <2>3. Fits' /\ ViewIsTrue'
      BY <2>1
    <2>4. Balance'
      BY <2>1
    <2>5. QED
      BY <2>2, <2>3, <2>4
  <1>8. ASSUME NEW r \in Requests, OpenPayeeWallet(r) PROVE Rest'
    BY <1>8 DEF OpenPayeeWallet, history
  <1>9. ASSUME NEW r \in Requests, FindPayeeCash(r) PROVE Rest'
    BY SMTT(30), <1>9 DEF FindPayeeCash, rows, history
  <1>10. ASSUME NEW r \in Requests, CreditPayee(r) PROVE Rest'
    <2>1. UNCHANGED <<spent, paid, req, view>>
          /\ sent' = [sent EXCEPT ![req[r].mandate] = @ + req[r].amount]
          /\ pc[r] = "moving" /\ pc' = [pc EXCEPT ![r] = "count"]
      BY <1>10 DEF CreditPayee
    <2>2. OneAtATime' /\ Fits' /\ ViewIsTrue'
      BY <2>1
    <2>3. \A q \in Requests : pc[q] \in {"count", "record"} => req[q].mandate # req[r].mandate
      BY <2>1
    <2>4. sent[req[r].mandate] = paid[req[r].mandate]
      BY <2>3
    <2>5. ASSUME NEW m \in Mandates,
                 \A q \in Requests : pc'[q] \in {"count", "record"} => req'[q].mandate # m
          PROVE  sent'[m] = paid'[m]
      <3>1. m # req[r].mandate
        BY <2>1, <2>5
      <3>2. \A q \in Requests : pc[q] \in {"count", "record"} => req[q].mandate # m
        BY <2>1, <2>5
      <3>3. QED
        BY <2>1, <3>1, <3>2
    <2>6. ASSUME NEW q \in Requests, pc'[q] \in {"count", "record"}
          PROVE  sent'[req'[q].mandate] = paid'[req'[q].mandate] + req'[q].amount
      BY <2>1, <2>3, <2>4, <2>6
    <2>7. Balance'
      BY <2>1, <2>5, <2>6
    <2>8. QED
      BY <2>2, <2>7
  <1>11. ASSUME NEW r \in Requests, ReloadMandate(r) PROVE Rest'
    BY <1>11 DEF ReloadMandate, rows, history
  <1>12. ASSUME NEW r \in Requests, RecordPayment(r) PROVE Rest'
    BY <1>12 DEF RecordPayment, Counted, StatusAfter
  <1>13. ASSUME NEW r \in Requests, Crash(r) PROVE FALSE
    BY <1>13, <1>l DEF Crash
  <1>14. ASSUME UNCHANGED vars PROVE Rest'
    BY <1>14 DEF vars, rows, sessions, history
  <1>15. QED
    BY <1>1, <1>2, <1>3, <1>4, <1>5, <1>6, <1>7, <1>8, <1>9, <1>10, <1>11,
       <1>12, <1>13, <1>14 DEF Next, MandateStep, PayStep

LEMMA AwaitedInvHolds == Spec => []AwaitedInv
  BY InitAwaitedInv, NextAwaitedInv, PTL DEF Spec

\* What reaches payees under a mandate stays within its total until attempts
\* overlap or die.
THEOREM CeilingHolds == Spec => []CeilingWhenAwaited
  <1>1. AwaitedInv => CeilingWhenAwaited
    <2> SUFFICES ASSUME AwaitedInv, Orderly, NEW m \in Mandates PROVE sent[m] <= MaxTotal[m]
      BY DEF CeilingWhenAwaited, AwaitedInv
    <2>1. CASE \E r \in Requests : pc[r] \in {"count", "record"} /\ req[r].mandate = m
      BY <2>1 DEF Orderly, Balance, Fits
    <2>2. CASE \A r \in Requests : pc[r] \in {"count", "record"} => req[r].mandate # m
      BY <2>2 DEF Orderly, Balance
    <2>3. QED
      BY <2>1, <2>2
  <1>2. QED
    BY AwaitedInvHolds, <1>1, PTL

\* Until then the count of a mandate is exact between payments.
THEOREM CountIsExactHolds == Spec => []CountWhenAwaited
  <1>1. AwaitedInv => CountWhenAwaited
    BY DEF AwaitedInv, Orderly, Balance, CountWhenAwaited, AtRest, InFlight
  <1>2. QED
    BY AwaitedInvHolds, <1>1, PTL

\* Lemma for the refinement: one step of the payments is a step of the
\* contract or leaves it as it is.
LEMMA InitContract == Init => Contract!Init
  BY PaymentsAssumption
  DEF Init, Contract!Init, StandingOf, AttemptOf

LEMMA NextContract ==
  AwaitedInv /\ [Next]_vars => [Awaited' => [Contract!Next]_(Contract!vars)]_vars
  <1> SUFFICES ASSUME AwaitedInv, Next, Awaited'
               PROVE  Contract!Next \/ UNCHANGED Contract!vars
    BY DEF Contract!vars
  <1>n. [Next]_vars
    OBVIOUS
  <1>o. Orderly
    BY AwaitedBefore DEF AwaitedInv, SafeInv
  <1> DEFINE Standing == [m \in Mandates |-> StandingOf(m)]
             Attempt  == [r \in Requests |-> AttemptOf(r)]
  <1>t. TypeOK /\ TypeOK'
    BY <1>n, NextTypeOK DEF AwaitedInv, SafeInv
  <1> USE <1>t, AttemptFields DEF TypeOK
  <1>s. (UNCHANGED <<status, sent, req, pc, late, credited>>) => UNCHANGED Contract!vars
    BY DEF Contract!vars, StandingOf, AttemptOf
  <1>1. ASSUME NEW m \in Mandates, GrantMandate(m) PROVE Contract!Grant(m)
    <2>1. Standing[m] = "none" /\ Standing' = [Standing EXCEPT ![m] = "live"]
      BY <1>1 DEF GrantMandate, StandingOf
    <2>2. Attempt' = Attempt /\ sent' = sent /\ req' = req
      BY <1>1 DEF GrantMandate, AttemptOf, sessions, history
    <2>3. QED
      BY <2>1, <2>2 DEF Contract!Grant
  <1>2. ASSUME NEW m \in Mandates, RevokeMandate(m)
        PROVE  Contract!Withdraw(m) \/ UNCHANGED Contract!vars
    <2>1. Attempt' = Attempt /\ sent' = sent /\ req' = req
      BY <1>2 DEF RevokeMandate, AttemptOf, sessions, history
    <2>2. CASE status[m] = "active"
      <3>1. Standing[m] = "live" /\ Standing' = [Standing EXCEPT ![m] = "withdrawn"]
        BY <1>2, <2>2 DEF RevokeMandate, StandingOf
      <3>2. QED
        BY <2>1, <3>1 DEF Contract!Withdraw
    <2>3. CASE status[m] # "active"
      <3>1. Standing' = Standing
        BY <1>2, <2>3 DEF RevokeMandate, StandingOf
      <3>2. QED
        BY <2>1, <3>1 DEF Contract!vars
    <2>4. QED
      BY <2>2, <2>3
  <1>3. ASSUME NEW m \in Mandates, ExpireMandate(m) PROVE UNCHANGED Contract!vars
    BY <1>3, <1>s DEF ExpireMandate, sessions, history
  <1>4. ASSUME NEW r \in Requests, ReceivePayment(r)
        PROVE  Contract!Open(r) \/ UNCHANGED Contract!vars
    <2>1. Standing' = Standing /\ sent' = sent /\ req' = req
      BY <1>4 DEF ReceivePayment, StandingOf
    <2>2. pc[r] = "idle" /\ pc'[r] = "check" /\ r \notin credited /\ r \notin late
      <3>1. pc[r] = "idle" /\ pc' = [pc EXCEPT ![r] = "check"]
        BY <1>4 DEF ReceivePayment
      <3>2. Progress /\ LateIsRefused
        BY DEF AwaitedInv, SafeInv
      <3>3. r \notin credited
        BY <3>1, <3>2 DEF Progress
      <3>4. r \notin late
        BY <3>1, <3>2 DEF LateIsRefused
      <3>5. pc'[r] = "check"
        BY <3>1
      <3>6. QED
        BY <3>1, <3>3, <3>4, <3>5
    <2>3. ASSUME NEW q \in Requests, q # r PROVE AttemptOf(q)' = AttemptOf(q)
      BY <1>4, <2>3 DEF ReceivePayment, AttemptOf
    <2>4. CASE status[req[r].mandate] = "active"
      <3>1. AttemptOf(r) = "none" /\ AttemptOf(r)' = "open"
        BY <1>4, <2>2, <2>4 DEF ReceivePayment, AttemptOf
      <3>2. Attempt[r] = "none" /\ Attempt' = [Attempt EXCEPT ![r] = "open"]
        BY <3>1, <2>3
      <3>3. QED
        BY <2>1, <2>4, <3>2 DEF Contract!Open, StandingOf
    <2>5. CASE status[req[r].mandate] # "active"
      <3>1. AttemptOf(r) = "none" /\ AttemptOf(r)' = "none"
        BY <1>4, <2>2, <2>5 DEF ReceivePayment, AttemptOf
      <3>2. QED
        BY <2>1, <2>3, <3>1 DEF Contract!vars
    <2>6. QED
      BY <2>4, <2>5
  <1>5. ASSUME NEW r \in Requests, RefusePayment(r) PROVE Contract!Refuse(r)
    <2>1. r \notin credited
      BY <1>5 DEF RefusePayment, AwaitedInv, SafeInv, Progress
    <2>2. Attempt[r] \in {"none", "open"} /\ Attempt' = [Attempt EXCEPT ![r] = "closed"]
      <3>1. AttemptOf(r) \in {"none", "open"} /\ AttemptOf(r)' = "closed"
        <4>1. pc[r] = "check" /\ pc'[r] = "done" /\ UNCHANGED <<late, credited>>
          BY <1>5 DEF RefusePayment, history
        <4>2. QED
          BY <4>1, <2>1 DEF AttemptOf
      <3>2. ASSUME NEW q \in Requests, q # r PROVE AttemptOf(q)' = AttemptOf(q)
        BY <1>5, <3>2 DEF RefusePayment, AttemptOf, history
      <3>3. QED
        BY <3>1, <3>2
    <2>3. Standing' = Standing /\ sent' = sent /\ req' = req
      BY <1>5 DEF RefusePayment, StandingOf, history
    <2>4. QED
      BY <2>2, <2>3 DEF Contract!Refuse
  <1>6. ASSUME NEW r \in Requests,
               SettleOnRail(r) \/ TakeFromPayer(r) \/ OpenPayeeWallet(r) \/ FindPayeeCash(r)
                 \/ ReloadMandate(r)
        PROVE  UNCHANGED Contract!vars
    BY <1>6 DEF SettleOnRail, TakeFromPayer, OpenPayeeWallet, FindPayeeCash, ReloadMandate,
       Contract!vars, StandingOf, AttemptOf, rows, history,
       AwaitedInv, SafeInv, Progress, Steps
  <1>7. ASSUME NEW r \in Requests, CreditPayee(r) PROVE Contract!Pay(r)
    <2>1. r \notin credited /\ r \notin late /\ pc[r] = "moving"
      BY <1>7 DEF CreditPayee, AwaitedInv, SafeInv, Progress, LateIsRefused
    <2>2. Attempt[r] = "open" /\ Attempt' = [Attempt EXCEPT ![r] = "paid"]
      <3>1. AttemptOf(r) = "open" /\ AttemptOf(r)' = "paid"
        BY <1>7, <2>1 DEF CreditPayee, AttemptOf
      <3>2. ASSUME NEW q \in Requests, q # r PROVE AttemptOf(q)' = AttemptOf(q)
        BY <1>7, <3>2 DEF CreditPayee, AttemptOf
      <3>3. QED
        BY <3>1, <3>2
    <2>3. Standing' = Standing /\ req' = req
      BY <1>7 DEF CreditPayee, StandingOf
    <2>4. req[r].amount <= MaxPerPayment[req[r].mandate]
      BY <2>1, <1>o DEF Orderly, Fits
    <2>5. sent[req[r].mandate] = spent[req[r].mandate]
      BY ZenonT(30), <2>1, <1>o DEF Orderly, OneAtATime, Balance, InFlight
    <2>6. sent[req[r].mandate] + req[r].amount <= MaxTotal[req[r].mandate]
      BY <2>1, <2>5, <1>o DEF Orderly, Fits
    <2>7. sent' = [sent EXCEPT ![req[r].mandate] = @ + req[r].amount]
      BY <1>7 DEF CreditPayee
    <2>8. QED
      BY <2>2, <2>3, <2>4, <2>6, <2>7 DEF Contract!Pay
  <1>8. ASSUME NEW r \in Requests, RecordPayment(r)
        PROVE  Contract!Withdraw(req[r].mandate) \/ UNCHANGED Contract!vars
    <2> DEFINE m == req[r].mandate
    <2>1. Attempt' = Attempt /\ sent' = sent /\ req' = req
      BY <1>8 DEF RecordPayment, AttemptOf, AwaitedInv, SafeInv, Progress
    <2>2. CASE status[m] = "active" /\ Exhausts(r)
      <3>1. Standing[m] = "live" /\ Standing' = [Standing EXCEPT ![m] = "withdrawn"]
        BY <1>8, <2>2 DEF RecordPayment, StandingOf, StatusAfter
      <3>2. QED
        BY <2>1, <3>1 DEF Contract!Withdraw
    <2>3. CASE status[m] # "active" \/ ~Exhausts(r)
      <3>1. status[m] # "none"
        BY <1>8 DEF RecordPayment, AwaitedInv, Granted, InFlight
      <3>2. Standing' = Standing
        BY <1>8, <2>3, <3>1 DEF RecordPayment, StandingOf, StatusAfter
      <3>3. QED
        BY <2>1, <3>2 DEF Contract!vars
    <2>4. QED
      BY <2>2, <2>3
  <1>9. ASSUME NEW r \in Requests, Crash(r) PROVE FALSE
    BY <1>9, Awaited' DEF Crash, Awaited
  <1>10. QED
    BY <1>1, <1>2, <1>3, <1>4, <1>5, <1>6, <1>7, <1>8, <1>9
    DEF Next, MandateStep, PayStep, Contract!Next

\* The payments implement what a mandate promises as long as attempts are awaited.
THEOREM PaymentsImplementContract == Spec => ContractKept
  BY InitContract, NextContract, AwaitedInvHolds, PTL DEF Spec, ContractKept

-----------------------------------------------------------------------------
(* Money, as long as requests come one after the other, whoever dies.      *)

OneAtAll == \A q, r \in Requests : InFlight(q) /\ InFlight(r) => q = r

\* The payer still holds what was checked, what is about to be written is what
\* is left, and the payee's cash is the one found.
Prepared(r) ==
    /\ pc[r] = "take" => req[r].amount <= Held(Payer(r))
    /\ pc[r] \in {"taken", "moving"} /\ pending[r] # None
         => pending[r] = Held(Payer(r)) - req[r].amount
    /\ pc[r] = "moving" => seen[r] = cash[req[r].payee]

\* The payer has been debited and the payee is not yet credited.
InTransit(r) == pc[r] \in {"taken", "moving"} /\ pending[r] = None

\* All cash is there but for what is in transit, and but for what was lost when
\* a request died.
AllButLost(a) ==
    /\ TotalCash + a <= OpeningCash
    /\ crashes = 0 => TotalCash + a = OpeningCash

Whole ==
    /\ \A r \in Requests : InTransit(r) => AllButLost(req[r].amount)
    /\ (\A r \in Requests : ~InTransit(r)) => AllButLost(0)

Lone == OneAtAll /\ (\A r \in Requests : Prepared(r)) /\ Whole

LoneInv == TypeOK /\ (Alone => Lone)

\* Whole numbers for what users hold.
LEMMA HeldIsNat ==
  ASSUME NEW c \in [Users -> Nat \cup {None}]
  PROVE  \A u \in Users : InRow(c[u]) \in Nat
  BY DEF InRow, None

LEMMA TotalIsWhole ==
  ASSUME NEW c \in [Users -> Nat \cup {None}]
  PROVE  /\ IsWhole([u \in Users |-> InRow(c[u])], Users)
         /\ SumFunctionOnSet([u \in Users |-> InRow(c[u])], Users) \in Int
  <1>1. IsWhole([u \in Users |-> InRow(c[u])], Users)
    BY HeldIsNat DEF IsWhole
  <1> QED
    BY <1>1, SumIsWhole, PaymentsAssumption

\* The total after one or two users' cash has changed.
LEMMA TotalOfOne ==
  ASSUME NEW c \in [Users -> Nat \cup {None}], NEW d \in [Users -> Nat \cup {None}],
         NEW x \in Users, \A u \in Users \ {x} : d[u] = c[u]
  PROVE  SumFunctionOnSet([u \in Users |-> InRow(d[u])], Users)
           = SumFunctionOnSet([u \in Users |-> InRow(c[u])], Users)
               + (InRow(d[x]) - InRow(c[x]))
  <1>1. PICK f : f = [u \in Users |-> InRow(c[u])]
    OBVIOUS
  <1>2. PICK g : g = [u \in Users |-> InRow(d[u])]
    OBVIOUS
  <1>3. IsWhole(f, Users) /\ IsWhole(g, Users)
    BY <1>1, <1>2, TotalIsWhole
  <1>4. \A u \in Users \ {x} : f[u] = g[u]
    BY <1>1, <1>2
  <1>5. SumFunctionOnSet(g, Users) = SumFunctionOnSet(f, Users) + (g[x] - f[x])
    BY <1>3, <1>4, SumOfChanged, PaymentsAssumption
  <1> QED
    BY <1>1, <1>2, <1>5

LEMMA TotalOfTwo ==
  ASSUME NEW c \in [Users -> Nat \cup {None}], NEW d \in [Users -> Nat \cup {None}],
         NEW x \in Users, NEW y \in Users, x # y, \A u \in Users \ {x, y} : d[u] = c[u]
  PROVE  SumFunctionOnSet([u \in Users |-> InRow(d[u])], Users)
           = SumFunctionOnSet([u \in Users |-> InRow(c[u])], Users)
               + (InRow(d[x]) - InRow(c[x])) + (InRow(d[y]) - InRow(c[y]))
  <1>1. PICK f : f = [u \in Users |-> InRow(c[u])]
    OBVIOUS
  <1>2. PICK g : g = [u \in Users |-> InRow(d[u])]
    OBVIOUS
  <1>3. IsWhole(f, Users) /\ IsWhole(g, Users)
    BY <1>1, <1>2, TotalIsWhole
  <1>4. \A u \in Users \ {x, y} : f[u] = g[u]
    BY <1>1, <1>2
  <1>5. SumFunctionOnSet(g, Users)
          = SumFunctionOnSet(f, Users) + (g[x] - f[x]) + (g[y] - f[y])
    BY <1>3, <1>4, SumOfTwoChanged, PaymentsAssumption
  <1> QED
    BY <1>1, <1>2, <1>5

\* Requests that are alone were alone before.
LEMMA AloneBefore == TypeOK /\ [Next]_vars /\ Alone' => Alone
  <1> SUFFICES ASSUME TypeOK, [Next]_vars, Alone', NEW r \in Requests PROVE met[r] = {}
    BY DEF Alone
  <1>1. met[r] \subseteq met'[r]
    BY DEF TypeOK, Next, MandateStep, PayStep, GrantMandate, RevokeMandate, ExpireMandate,
       ReceivePayment, RefusePayment, SettleOnRail, TakeFromPayer, OpenPayeeWallet,
       FindPayeeCash, CreditPayee, ReloadMandate, RecordPayment, Crash, vars, history
  <1> QED
    BY <1>1 DEF Alone

LEMMA InitLoneInv == Init => LoneInv
  <1> SUFFICES ASSUME Init PROVE Lone
    BY InitTypeOK DEF LoneInv
  <1>1. OneAtAll /\ \A r \in Requests : Prepared(r) /\ ~InTransit(r)
    BY DEF Init, OneAtAll, Prepared, InFlight, InTransit
  <1>2. TotalCash = OpeningCash
    BY DEF Init, TotalCash, OpeningCash, Held
  <1>3. OpeningCash \in Int
    BY TotalIsWhole, PaymentsAssumption DEF OpeningCash
  <1> QED
    BY <1>1, <1>2, <1>3 DEF Lone, Whole, AllButLost

\* The account of one request, when no other is in flight.
WholeBy(r) == AllButLost(IF InTransit(r) THEN req[r].amount ELSE 0)

\* A step of the one request in flight, or of the first, leaves the others out
\* of it.
LEMMA OthersIdle ==
  ASSUME TypeOK, OneAtAll, Alone', NEW r \in Requests, PayStep(r)
  PROVE  \A q \in Requests \ {r} : ~InFlight(q) /\ pc'[q] = pc[q]
  <1>1. ASSUME ReceivePayment(r) PROVE \A q \in Requests \ {r} : ~InFlight(q)
    <2>1. met'[r] = {}
      BY DEF Alone
    <2> QED
      BY <1>1, <2>1 DEF ReceivePayment, TypeOK
  <1>2. ASSUME ~ReceivePayment(r) PROVE InFlight(r)
    BY <1>2 DEF PayStep, RefusePayment, SettleOnRail, TakeFromPayer, OpenPayeeWallet,
       FindPayeeCash, CreditPayee, ReloadMandate, RecordPayment, Crash, InFlight
  <1>3. \A q \in Requests \ {r} : pc'[q] = pc[q]
    BY DEF TypeOK, PayStep, ReceivePayment, RefusePayment, SettleOnRail, TakeFromPayer,
       OpenPayeeWallet, FindPayeeCash, CreditPayee, ReloadMandate, RecordPayment, Crash
  <1> QED
    BY <1>1, <1>2, <1>3 DEF OneAtAll

\* So it is enough to look at the request that takes the step.
LEMMA OneRequestCounts ==
  ASSUME TypeOK, OneAtAll, Alone', NEW r \in Requests, PayStep(r), Prepared(r)', WholeBy(r)'
  PROVE  Lone'
  <1>1. \A q \in Requests \ {r} : ~InFlight(q)'
    BY OthersIdle DEF InFlight
  <1>2. \A q \in Requests \ {r} : Prepared(q)' /\ ~InTransit(q)'
    BY <1>1 DEF InFlight, Prepared, InTransit
  <1>3. OneAtAll'
    BY <1>1 DEF OneAtAll
  <1>4. \A q \in Requests : Prepared(q)'
    BY <1>2
  <1>5. Whole'
    BY <1>2 DEF Whole, WholeBy
  <1> QED
    BY <1>3, <1>4, <1>5 DEF Lone

LEMMA WholeIsWholeBy ==
  ASSUME TypeOK, OneAtAll, Whole, Alone', NEW r \in Requests, PayStep(r)
  PROVE  WholeBy(r)
  <1>1. \A q \in Requests \ {r} : ~InTransit(q)
    BY OthersIdle DEF InFlight, InTransit
  <1> QED
    BY <1>1 DEF Whole, WholeBy

\* A step that moves no money keeps the account as it stood.
LEMMA SameAccount ==
  ASSUME NEW r \in Requests, WholeBy(r), req' = req, cash' = cash, crashes' = crashes,
         InTransit(r)' = InTransit(r)
  PROVE  WholeBy(r)'
  <1>1. TotalCash' = TotalCash
    BY DEF TotalCash, Held
  <1> QED
    BY <1>1 DEF WholeBy, AllButLost, OpeningCash

\* The payee's wallet is opened and the payer's debit is committed with it.
LEMMA OpeningInTransit ==
  ASSUME TypeOK, TypeOK', NEW r \in Requests, OpenPayeeWallet(r), Prepared(r), WholeBy(r)
  PROVE  Prepared(r)' /\ WholeBy(r)'
  <1> USE AttemptFields, PaymentsAssumption DEF TypeOK
  <1>c. cash \in [Users -> Nat \cup {None}] /\ cash' \in [Users -> Nat \cup {None}]
    OBVIOUS
  <1>1. pc[r] = "taken" /\ pc' = pc /\ req' = req /\ pending'[r] = None /\ crashes' = crashes
    BY DEF OpenPayeeWallet
  <1>2. Prepared(r)' /\ InTransit(r)'
    BY <1>1 DEF Prepared, InTransit
  <1>3. CASE pending[r] = None
    <2>1. cash' = cash
      BY <1>3 DEF OpenPayeeWallet, Payer
    <2> QED
      BY <1>1, <1>2, <1>3, <2>1, SameAccount DEF InTransit
  <1>4. CASE pending[r] # None
    <2>1. Payer(r) \in Users
      BY DEF Payer
    <2>2. pending[r] = InRow(cash[Payer(r)]) - req[r].amount /\ pending[r] \in Nat
      BY <1>1, <1>4 DEF Prepared, Held
    <2>3. cash'[Payer(r)] = pending[r] /\ \A u \in Users \ {Payer(r)} : cash'[u] = cash[u]
      BY <1>4, <2>1 DEF OpenPayeeWallet
    <2>4. InRow(cash'[Payer(r)]) = InRow(cash[Payer(r)]) - req[r].amount
      BY <2>2, <2>3 DEF InRow, None
    <2>5. TotalCash' = TotalCash + (InRow(cash'[Payer(r)]) - InRow(cash[Payer(r)]))
      BY ONLY <1>c, <2>1, <2>3, TotalOfOne DEF TotalCash, Held
    <2>6. InRow(cash[Payer(r)]) \in Int /\ TotalCash \in Int /\ req[r].amount \in Int
      <3>1. InRow(cash[Payer(r)]) \in Int
        BY ONLY <1>c, <2>1, HeldIsNat
      <3>2. TotalCash \in Int
        BY ONLY <1>c, TotalIsWhole DEF TotalCash, Held
      <3> QED
        BY <3>1, <3>2
    <2>7. TotalCash' + req[r].amount = TotalCash
      BY <2>4, <2>5, <2>6
    <2>8. AllButLost(0) /\ TotalCash + 0 = TotalCash
      BY <1>4, <2>6 DEF WholeBy, InTransit
    <2>9. AllButLost(req[r].amount)'
      BY <1>1, <2>7, <2>8 DEF AllButLost, OpeningCash
    <2> QED
      BY <1>2, <2>9 DEF WholeBy
  <1> QED
    BY <1>3, <1>4

\* The credit puts back what was in transit, or moves the amount in one commit.
LEMMA CreditEndsTransit ==
  ASSUME TypeOK, TypeOK', NEW r \in Requests, CreditPayee(r), Prepared(r), WholeBy(r)
  PROVE  Prepared(r)' /\ WholeBy(r)'
  <1> USE AttemptFields, PaymentsAssumption DEF TypeOK
  <1>c. cash \in [Users -> Nat \cup {None}] /\ cash' \in [Users -> Nat \cup {None}]
    OBVIOUS
  <1>1. pc[r] = "moving" /\ pc'[r] = "count" /\ req' = req /\ crashes' = crashes
    BY DEF CreditPayee
  <1>2. Prepared(r)' /\ ~InTransit(r)'
    BY <1>1 DEF Prepared, InTransit
  <1>3. PICK p \in Users, q \in Users : p = Payer(r) /\ q = req[r].payee
    BY DEF Payer
  <1>4. p # q
    BY <1>3 DEF Payer, Attempts
  <1>5. PICK a \in Nat : a = req[r].amount /\ a > 0
    <2>1. req[r].amount \in Nat \ {0}
      OBVIOUS
    <2> QED
      BY ONLY <2>1
  <1>6. cash'[q] = a + InRow(cash[q]) /\ InRow(cash[q]) \in Nat
    <2>1. cash'[q] = Merged(r)
      BY <1>3, <1>4 DEF CreditPayee
    <2>2. seen[r] = cash[q]
      BY <1>1, <1>3 DEF Prepared
    <2>3. Merged(r) = a + InRow(cash[q])
      BY ONLY <1>3, <1>5, <2>2 DEF Merged, AfterCredit, InRow
    <2>4. InRow(cash[q]) \in Nat
      BY ONLY <1>3, <1>c, HeldIsNat
    <2> QED
      BY ONLY <2>1, <2>3, <2>4
  <1>7. InRow(cash'[q]) = InRow(cash[q]) + a
    BY <1>5, <1>6 DEF InRow, None
  <1>8. TotalCash \in Int /\ TotalCash' \in Int
    <2>1. TotalCash = SumFunctionOnSet([u \in Users |-> InRow(cash[u])], Users)
      BY DEF TotalCash, Held
    <2>2. TotalCash' = SumFunctionOnSet([u \in Users |-> InRow(cash'[u])], Users)
      BY DEF TotalCash, Held
    <2> QED
      BY <2>1, <2>2, TotalIsWhole
  <1>9. AllButLost(0)'
    <2>1. CASE pending[r] = None
      <3>1. \A u \in Users \ {q} : cash'[u] = cash[u]
        BY <1>3, <2>1 DEF CreditPayee
      <3>2. TotalCash' = TotalCash + (InRow(cash'[q]) - InRow(cash[q]))
        BY ONLY <1>c, <1>3, <3>1, TotalOfOne DEF TotalCash, Held
      <3>3. TotalCash' + 0 = TotalCash + a
        BY <1>5, <1>6, <1>7, <1>8, <3>2
      <3>4. AllButLost(a)
        BY <1>1, <1>5, <2>1 DEF WholeBy, InTransit
      <3> QED
        BY <1>1, <3>3, <3>4 DEF AllButLost, OpeningCash
    <2>2. CASE pending[r] # None
      <3>1. pending[r] = InRow(cash[p]) - a /\ pending[r] \in Nat
        BY <1>1, <1>3, <1>5, <2>2 DEF Prepared, Held
      <3>2. cash'[p] = pending[r] /\ \A u \in Users \ {p, q} : cash'[u] = cash[u]
        BY <1>3, <1>4, <2>2 DEF CreditPayee
      <3>3. InRow(cash'[p]) = InRow(cash[p]) - a /\ InRow(cash[p]) \in Int
        BY <3>1, <3>2 DEF InRow, None
      <3>4. TotalCash' = TotalCash + (InRow(cash'[p]) - InRow(cash[p]))
                                   + (InRow(cash'[q]) - InRow(cash[q]))
        BY ONLY <1>c, <1>3, <1>4, <3>2, TotalOfTwo DEF TotalCash, Held
      <3>5. TotalCash' + 0 = TotalCash + 0
        BY <1>5, <1>6, <1>7, <1>8, <3>3, <3>4
      <3>6. AllButLost(0)
        BY <2>2 DEF WholeBy, InTransit
      <3> QED
        BY <1>1, <3>5, <3>6 DEF AllButLost, OpeningCash
    <2> QED
      BY <2>1, <2>2
  <1> QED
    BY <1>2, <1>9 DEF WholeBy

\* What dies in transit is lost, and nothing else is.
LEMMA CrashLosesTransit ==
  ASSUME TypeOK, NEW r \in Requests, Crash(r), WholeBy(r)
  PROVE  Prepared(r)' /\ WholeBy(r)'
  <1> USE AttemptFields DEF TypeOK
  <1>1. pc'[r] = "crashed" /\ cash' = cash /\ crashes' # 0
    BY PaymentsAssumption DEF Crash, rows
  <1>2. Prepared(r)' /\ ~InTransit(r)'
    BY <1>1 DEF Prepared, InTransit
  <1>3. TotalCash' = TotalCash /\ TotalCash \in Int /\ OpeningCash \in Int
    BY <1>1, TotalIsWhole, PaymentsAssumption DEF TotalCash, OpeningCash, Held
  <1>4. TotalCash + 0 <= OpeningCash
    BY <1>3 DEF WholeBy, AllButLost
  <1> QED
    BY <1>1, <1>2, <1>3, <1>4 DEF WholeBy, AllButLost, OpeningCash

LEMMA NextLoneInv == LoneInv /\ [Next]_vars => LoneInv'
  <1> SUFFICES ASSUME LoneInv, [Next]_vars, Alone' PROVE Lone'
    BY NextTypeOK DEF LoneInv
  <1>0. TypeOK /\ TypeOK' /\ Lone
    BY NextTypeOK, AloneBefore DEF LoneInv
  <1>1. ASSUME UNCHANGED <<pc, req, cash, pending, seen, crashes>> PROVE Lone'
    <2>1. TotalCash' = TotalCash
      BY <1>1 DEF TotalCash, Held
    <2>2. Whole'
      BY <1>0, <1>1, <2>1 DEF Lone, Whole, InTransit, AllButLost, OpeningCash
    <2>3. OneAtAll' /\ \A r \in Requests : Prepared(r)'
      BY <1>0, <1>1 DEF Lone, OneAtAll, InFlight, Prepared, Held, Payer
    <2> QED
      BY <2>2, <2>3 DEF Lone
  <1>2. CASE MandateStep
    BY <1>1, <1>2 DEF MandateStep, GrantMandate, RevokeMandate, ExpireMandate, sessions
  <1>3. CASE UNCHANGED vars
    BY <1>1, <1>3 DEF vars, rows, sessions
  <1>4. ASSUME NEW r \in Requests, PayStep(r) PROVE Lone'
    <2>0. Prepared(r) /\ WholeBy(r)
      BY <1>0, <1>4, WholeIsWholeBy DEF Lone
    <2> SUFFICES Prepared(r)' /\ WholeBy(r)'
      BY <1>0, <1>4, OneRequestCounts DEF Lone
    <2> USE <1>0, <2>0, AttemptFields DEF TypeOK, Prepared, InTransit
    <2>1. CASE ReceivePayment(r)
      <3>1. pc[r] = "idle" /\ pc'[r] = "check" /\ UNCHANGED <<req, cash, crashes>>
        BY <2>1 DEF ReceivePayment
      <3>2. Prepared(r)' /\ InTransit(r)' = InTransit(r)
        BY <3>1
      <3> QED
        BY <3>1, <3>2, SameAccount
    <2>2. CASE RefusePayment(r)
      BY <2>2, SameAccount DEF RefusePayment
    <2>3. CASE SettleOnRail(r)
      BY <2>3, SameAccount DEF SettleOnRail, AvailableCash, Held, Payer, rows
    <2>4. CASE TakeFromPayer(r)
      <3>1. Held(Payer(r)) \in Nat /\ req[r].amount \in Nat \ {0}
        BY PaymentsAssumption DEF Held, InRow, Payer, None
      <3>2. pending'[r] = Held(Payer(r)) - req[r].amount /\ pending'[r] # None
        BY <2>4, <3>1 DEF TakeFromPayer, None
      <3>3. cash' = cash /\ req' = req /\ crashes' = crashes /\ pc'[r] = "taken"
        BY <2>4 DEF TakeFromPayer, rows
      <3>4. Prepared(r)' /\ InTransit(r)' = InTransit(r)
        BY <2>4, <3>2, <3>3 DEF TakeFromPayer, Held, Payer
      <3> QED
        BY <3>3, <3>4, SameAccount
    <2>5. CASE OpenPayeeWallet(r)
      BY <2>5, OpeningInTransit
    <2>6. CASE FindPayeeCash(r)
      BY <2>6, SameAccount DEF FindPayeeCash, Held, Payer, rows
    <2>7. CASE CreditPayee(r)
      BY <2>7, CreditEndsTransit
    <2>8. CASE ReloadMandate(r)
      BY <2>8, SameAccount DEF ReloadMandate, rows
    <2>9. CASE RecordPayment(r)
      BY <2>9, SameAccount DEF RecordPayment
    <2>10. CASE Crash(r)
      BY <2>10, CrashLosesTransit
    <2> QED
      BY <1>4, <2>1, <2>2, <2>3, <2>4, <2>5, <2>6, <2>7, <2>8, <2>9, <2>10 DEF PayStep
  <1> QED
    BY <1>2, <1>3, <1>4 DEF Next

\* No cash appears, and none is lost unless a request dies, as long as requests
\* come one after the other (pay, credit, get_or_create_wallet).
THEOREM MoneyKeptHolds == Spec => []MoneyKept
  <1>1. LoneInv => MoneyKept
    <2> SUFFICES ASSUME LoneInv, Alone
                 PROVE  /\ TotalCash <= OpeningCash
                        /\ (crashes = 0 /\ \A r \in Requests : ~InFlight(r))
                             => TotalCash = OpeningCash
      BY DEF MoneyKept
    <2>1. TotalCash \in Int /\ OpeningCash \in Int
      BY TotalIsWhole, PaymentsAssumption DEF LoneInv, TypeOK, TotalCash, OpeningCash, Held
    <2>2. Whole
      BY DEF LoneInv, Lone
    <2>3. CASE \A r \in Requests : ~InTransit(r)
      BY <2>1, <2>2, <2>3 DEF Whole, AllButLost
    <2>4. ASSUME NEW r \in Requests, InTransit(r)
          PROVE  InFlight(r) /\ TotalCash <= OpeningCash
      <3>1. req[r].amount \in Nat
        BY AttemptFields DEF LoneInv, TypeOK
      <3> QED
        BY <2>1, <2>2, <2>4, <3>1 DEF Whole, AllButLost, InTransit, InFlight
    <2> QED
      BY <2>3, <2>4
  <1> QED
    BY InitLoneInv, NextLoneInv, <1>1, PTL DEF Spec
=============================================================================
