---------------------------- MODULE AgentPayments ----------------------------
(***************************************************************************)
(* Payments an agent makes under a mandate                                 *)
(* (backend/app/bridge/agent_payments.py, routes.py, mandate_models.py).   *)
(*                                                                         *)
(* A request is served by a thread with a database session of its own.     *)
(* Every read returns what is committed at that moment (READ COMMITTED),   *)
(* every write replaces the row's value with one computed in Python, and   *)
(* nothing locks a row.  pay() commits up to three times: when             *)
(* get_or_create_wallet inserts the payee's wallet, inside credit(), and   *)
(* at its end.  Each step below is the code from one read or commit to the *)
(* next, so that steps of other requests may fall between.                 *)
(*                                                                         *)
(* Amounts are whole units, so the code's round() changes nothing.  Cash   *)
(* cannot be pledged (create_pledge refuses the fiat layer), so the free   *)
(* amount of a cash row is its amount.  A wallet's cash rows are one       *)
(* number, their sum.  Agent, currency, purpose, payee list and evidence   *)
(* of an attempt are one Boolean: all of them conform to the mandate.      *)
(***************************************************************************)
EXTENDS Wallet, FiniteSets, Functions

CONSTANTS
    Mandates,       \* payment mandates
    Users,          \* owners of wallets
    Requests,       \* POST /bridge/payments requests
    Granter,        \* Granter[m]: the user whose money mandate m spends
    MaxPerPayment,  \* MaxPerPayment[m], MaxTotal[m]: the mandate's limits
    MaxTotal,
    Amounts,        \* amounts an agent may ask for
    Opening,        \* Opening[u]: cash before the first payment, or None
    MaxCrashes      \* bound on requests that die on the way

\* What the agent sends.  An agent paying the granter itself is left out.
Attempts == { a \in [mandate : Mandates, payee : Users,
                     amount : Amounts, conforms : BOOLEAN] :
                a.payee # Granter[a.mandate] }

ASSUME PaymentsAssumption ==
    /\ IsFiniteSet(Users)
    /\ Granter \in [Mandates -> Users]
    /\ MaxPerPayment \in [Mandates -> Nat \ {0}]
    /\ MaxTotal \in [Mandates -> Nat \ {0}]
    /\ Amounts \subseteq Nat \ {0}
    /\ Opening \in [Users -> Nat \cup {None}]
    /\ MaxCrashes \in Nat

VARIABLES
    \* --- rows of the database ---
    status,     \* status[m]: none, active, revoked or exhausted
    spent,      \* spent[m]: PaymentMandate.spent_total
    expired,    \* mandates whose expires_at has passed
    wallets,    \* users who have a Wallet row
    cash,       \* cash[u]: the amount of u's cash holding, or None
    outcome,    \* outcome[r]: the AgentPayment row of request r
    \* --- outside the database ---
    rail,       \* requests whose transfer was given to the rail
    \* --- the sessions ---
    req,        \* req[r]: what request r asks for
    pc,         \* pc[r]: how far request r has come
    view,       \* view[r]: the mandate as r's session last read it
    pending,    \* pending[r]: new amount of the payer's row, unwritten, or None
    seen,       \* seen[r]: the payee's cash row as r read it
    crashes,
    \* --- history, read by properties only ---
    late,       \* requests received when the mandate was not active
    credited,   \* requests whose payee has been credited
    sent,       \* sent[m]: cash credited to payees under m
    paid,       \* paid[m]: total of the settled AgentPayment rows under m
    met         \* met[r]: requests in flight when r was received

rows     == <<status, spent, expired, wallets, cash, outcome>>
sessions == <<pc, view, pending, seen>>
history  == <<late, credited, sent, paid, met>>
vars == <<rows, rail, req, sessions, crashes, history>>

-----------------------------------------------------------------------------
\* The steps of a request; the last three are no longer in flight.
Steps == {"idle", "check", "take", "taken", "moving", "count", "record",
          "done", "crashed"}
InFlight(r) == pc[r] \in {"check", "take", "taken", "moving", "count", "record"}

Payer(r)  == Granter[req[r].mandate]
Held(u)   == InRow(cash[u])

TypeOK ==
    /\ status  \in [Mandates -> {"none", "active", "revoked", "exhausted"}]
    /\ spent   \in [Mandates -> Nat]
    /\ expired \subseteq Mandates
    /\ wallets \subseteq Users
    /\ cash    \in [Users -> Nat \cup {None}]
    /\ outcome \in [Requests -> {"none", "refused", "settled"}]
    /\ rail    \subseteq Requests
    /\ req     \in [Requests -> Attempts]
    /\ pc      \in [Requests -> Steps]
    /\ view    \in [Requests -> [status : {"none", "active", "revoked", "exhausted"},
                                 spent  : Nat]]
    /\ pending \in [Requests -> Nat \cup {None}]
    /\ seen    \in [Requests -> Nat \cup {None}]
    /\ crashes \in 0..MaxCrashes
    /\ late    \subseteq Requests
    /\ credited \subseteq Requests
    /\ sent    \in [Mandates -> Nat]
    /\ paid    \in [Mandates -> Nat]
    /\ met     \in [Requests -> SUBSET Requests]

Init ==
    /\ status  = [m \in Mandates |-> "none"]
    /\ spent   = [m \in Mandates |-> 0]
    /\ expired = {}
    /\ wallets = {u \in Users : Opening[u] # None}
    /\ cash    = Opening
    /\ outcome = [r \in Requests |-> "none"]
    /\ rail    = {}
    /\ req     \in [Requests -> Attempts]
    /\ pc      = [r \in Requests |-> "idle"]
    /\ view    = [r \in Requests |-> [status |-> "none", spent |-> 0]]
    /\ pending = [r \in Requests |-> None]
    /\ seen    = [r \in Requests |-> None]
    /\ crashes = 0
    /\ late    = {}
    /\ credited = {}
    /\ sent    = [m \in Mandates |-> 0]
    /\ paid    = [m \in Mandates |-> 0]
    /\ met     = [r \in Requests |-> {}]

-----------------------------------------------------------------------------
(* The person whose money it is. *)

\* The limits and the granter of m are constants.
GrantMandate(m) ==
    /\ status[m] = "none"
    /\ status' = [status EXCEPT ![m] = "active"]
    /\ UNCHANGED <<spent, expired, wallets, cash, outcome, rail, req, sessions,
                   crashes, history>>

\* No guard on the status: an exhausted mandate becomes revoked.
RevokeMandate(m) ==
    /\ status[m] # "none"
    /\ status' = [status EXCEPT ![m] = "revoked"]
    /\ UNCHANGED <<spent, expired, wallets, cash, outcome, rail, req, sessions,
                   crashes, history>>

\* The clock passes expires_at.
ExpireMandate(m) ==
    /\ status[m] # "none" /\ m \notin expired
    /\ expired' = expired \cup {m}
    /\ UNCHANGED <<status, spent, wallets, cash, outcome, rail, req, sessions,
                   crashes, history>>

-----------------------------------------------------------------------------
(* One request: agent_pay and pay. *)

\* The mandate row is read; the payer's wallet is opened.
ReceivePayment(r) ==
    LET m == req[r].mandate IN
    /\ pc[r] = "idle" /\ status[m] # "none"
    /\ met' = [met EXCEPT ![r] = @ \cup {q \in Requests : InFlight(q)}]
    /\ view' = [view EXCEPT ![r] = [status |-> status[m], spent |-> spent[m]]]
    /\ wallets' = wallets \cup {Payer(r)}
    /\ late' = IF status[m] = "active" THEN late ELSE late \cup {r}
    /\ pc' = [pc EXCEPT ![r] = "check"]
    /\ UNCHANGED <<status, spent, expired, cash, outcome, rail, req, pending,
                   seen, crashes, credited, sent, paid>>

\* Mutants of CheckMandate: the status, the total or the limit is not checked.
CheckMandateAnyStatus(r) ==
    /\ req[r].conforms /\ req[r].mandate \notin expired
    /\ req[r].amount <= MaxPerPayment[req[r].mandate]
    /\ view[r].spent + req[r].amount <= MaxTotal[req[r].mandate]

CheckMandateNoTotal(r) ==
    /\ req[r].conforms /\ req[r].mandate \notin expired
    /\ view[r].status = "active"
    /\ req[r].amount <= MaxPerPayment[req[r].mandate]

\* check_mandate, on the mandate as the session holds it.
CheckMandate(r) ==
    LET m == req[r].mandate IN
    /\ req[r].conforms
    /\ view[r].status = "active"
    /\ m \notin expired
    /\ req[r].amount <= MaxPerPayment[m]
    /\ view[r].spent + req[r].amount <= MaxTotal[m]

\* Mutant of AvailableCash: the balance is taken on trust.
AvailableCashOnTrust(r) == req[r].amount

\* _available_cash
AvailableCash(r) == Held(Payer(r))

\* A refusal is recorded too.
RefusePayment(r) ==
    /\ pc[r] = "check"
    /\ ~CheckMandate(r) \/ AvailableCash(r) < req[r].amount
    /\ outcome' = [outcome EXCEPT ![r] = "refused"]
    /\ pc' = [pc EXCEPT ![r] = "done"]
    /\ UNCHANGED <<status, spent, expired, wallets, cash, rail, req, view,
                   pending, seen, crashes, history>>

\* Mutant of SettleOnRail: the amount is counted before it moves.
SettleOnRailCounting(r) ==
    /\ pc[r] = "check" /\ CheckMandate(r) /\ AvailableCash(r) >= req[r].amount
    /\ rail' = rail \cup {r}
    /\ spent' = [spent EXCEPT ![req[r].mandate] = @ + req[r].amount]
    /\ pc' = [pc EXCEPT ![r] = "take"]
    /\ UNCHANGED <<status, expired, wallets, cash, outcome, req, view, pending,
                   seen, crashes, history>>

SettleOnRail(r) ==
    /\ pc[r] = "check"
    /\ CheckMandate(r)
    /\ AvailableCash(r) >= req[r].amount
    /\ rail' = rail \cup {r}
    /\ pc' = [pc EXCEPT ![r] = "take"]
    /\ UNCHANGED <<rows, req, view, pending, seen, crashes, history>>

\* The loop over the payer's cash: min(free, remaining) of each row, read
\* afresh.  A payer who meanwhile holds less than the amount is emptied; one
\* who holds nothing has no row that changes.
TakeFromPayer(r) ==
    LET c == Held(Payer(r))
        a == req[r].amount
    IN  /\ pc[r] = "take"
        /\ pending' = [pending EXCEPT ![r] = IF c = 0 THEN None
                                             ELSE IF c < a THEN 0 ELSE c - a]
        /\ pc' = [pc EXCEPT ![r] = "taken"]
        /\ UNCHANGED <<rows, rail, req, view, seen, crashes, history>>

\* get_or_create_wallet commits when it inserts the payee's wallet, and with
\* it the payer's new amount.
OpenPayeeWallet(r) ==
    /\ pc[r] = "taken" /\ req[r].payee \notin wallets
    /\ wallets' = wallets \cup {req[r].payee}
    /\ cash' = [cash EXCEPT ![Payer(r)] = IF pending[r] = None THEN @ ELSE pending[r]]
    /\ pending' = [pending EXCEPT ![r] = None]
    /\ UNCHANGED <<status, spent, expired, outcome, rail, req, pc, view, seen,
                   crashes, history>>

\* credit() looks for a row to merge into.
FindPayeeCash(r) ==
    /\ pc[r] = "taken" /\ req[r].payee \in wallets
    /\ seen' = [seen EXCEPT ![r] = cash[req[r].payee]]
    /\ pc' = [pc EXCEPT ![r] = "moving"]
    /\ UNCHANGED <<rows, rail, req, view, pending, crashes, history>>

\* Mutant of Merged: the row is replaced, not added to.
MergedOver(r) == req[r].amount + (IF seen[r] = None THEN Held(req[r].payee) ELSE 0)

\* The payee's cash afterwards: the row that was seen plus the amount, or one
\* row more.
Merged(r) == AfterCredit(seen[r], cash[req[r].payee], req[r].amount)

\* credit() commits, with the payer's row when that is still pending.
CreditPayee(r) ==
    /\ pc[r] = "moving"
    /\ cash' = [u \in Users |->
                  CASE u = req[r].payee -> Merged(r)
                    [] u = Payer(r) /\ pending[r] # None -> pending[r]
                    [] OTHER -> cash[u]]
    /\ pending' = [pending EXCEPT ![r] = None]
    /\ seen' = [seen EXCEPT ![r] = None]
    /\ sent' = [sent EXCEPT ![req[r].mandate] = @ + req[r].amount]
    /\ credited' = credited \cup {r}
    /\ pc' = [pc EXCEPT ![r] = "count"]
    /\ UNCHANGED <<status, spent, expired, wallets, outcome, rail, req, view,
                   crashes, late, paid, met>>

\* credit's commit expired the session, so the mandate is read again.
ReloadMandate(r) ==
    LET m == req[r].mandate IN
    /\ pc[r] = "count"
    /\ view' = [view EXCEPT ![r] = [status |-> status[m], spent |-> spent[m]]]
    /\ pc' = [pc EXCEPT ![r] = "record"]
    /\ UNCHANGED <<rows, rail, req, pending, seen, crashes, history>>

\* Mutant of Counted: what was spent before is forgotten.
CountedAlone(r) == req[r].amount

\* The new spent_total.
Counted(r) == view[r].spent + req[r].amount

Exhausts(r) == Counted(r) >= MaxTotal[req[r].mandate] /\ view[r].status # "exhausted"

\* Only a changed column is written.
StatusAfter(r) == IF Exhausts(r) THEN "exhausted" ELSE status[req[r].mandate]

\* The last commit: the count, the status, the payment.
RecordPayment(r) ==
    LET m == req[r].mandate IN
    /\ pc[r] = "record"
    /\ spent' = [spent EXCEPT ![m] = Counted(r)]
    /\ status' = [status EXCEPT ![m] = StatusAfter(r)]
    /\ outcome' = [outcome EXCEPT ![r] = "settled"]
    /\ paid' = [paid EXCEPT ![m] = @ + req[r].amount]
    /\ pc' = [pc EXCEPT ![r] = "done"]
    /\ UNCHANGED <<expired, wallets, cash, rail, req, view, pending, seen,
                   crashes, late, credited, sent, met>>

\* The request dies (the process, the database connection, an exception in
\* the rail or in building the transaction object, a wallet that another
\* request inserted first): what it had not committed is lost.
Crash(r) ==
    /\ InFlight(r) /\ crashes < MaxCrashes
    /\ crashes' = crashes + 1
    /\ pending' = [pending EXCEPT ![r] = None]
    /\ seen' = [seen EXCEPT ![r] = None]
    /\ pc' = [pc EXCEPT ![r] = "crashed"]
    /\ UNCHANGED <<rows, rail, req, view, history>>

-----------------------------------------------------------------------------
MandateStep == \E m \in Mandates : GrantMandate(m) \/ RevokeMandate(m) \/ ExpireMandate(m)

PayStep(r) ==
    \/ ReceivePayment(r) \/ RefusePayment(r) \/ SettleOnRail(r) \/ TakeFromPayer(r)
    \/ OpenPayeeWallet(r) \/ FindPayeeCash(r) \/ CreditPayee(r)
    \/ ReloadMandate(r) \/ RecordPayment(r) \/ Crash(r)

Next == MandateStep \/ \E r \in Requests : PayStep(r)

Spec == Init /\ [][Next]_vars

-----------------------------------------------------------------------------
(* Properties that hold whatever overlaps and whoever crashes. *)

\* An attempt received after the mandate was revoked or exhausted never
\* reaches the rail, however far the attempts before it have come
\* (revoke_mandate: "The next payment attempt is refused").
LateNeverPays == late \cap rail = {}

\* A refused attempt reached no rail, and the payee of a settled one has been
\* credited: the record comes last (pay's order of commits).
AuditTrail ==
    \A r \in Requests : /\ outcome[r] = "refused" => r \notin rail
                        /\ outcome[r] = "settled" => r \in credited

\* Lost updates and crashes leave spent_total below what was paid, never
\* above: no agent is refused room it has not used.
CountNeverOverstates == \A m \in Mandates : spent[m] <= paid[m]

\* A mandate called exhausted has paid out its total (the re-read after
\* credit's commit).
ExhaustedIsSpent ==
    \A m \in Mandates : status[m] = "exhausted" => paid[m] >= MaxTotal[m]

\* No late commit of a payment brings a withdrawn mandate back to life.
NeverReactivated ==
    [][\A m \in Mandates : status[m] \in {"revoked", "exhausted"}
                              => status'[m] \in {"revoked", "exhausted"}]_vars

-----------------------------------------------------------------------------
(* Properties of payments that an agent makes one after the other.         *)

\* No two attempts under a mandate have overlapped, and no request has died.
Awaited ==
    \A r \in Requests : /\ pc[r] # "crashed"
                        /\ \A q \in met[r] : req[q].mandate # req[r].mandate

AtRest(m) == \A r \in Requests : InFlight(r) => req[r].mandate # m

\* What reaches payees under a mandate exceeds its total only after attempts
\* overlapped or died (check_mandate counts what the database has counted).
CeilingWhenAwaited == Awaited => \A m \in Mandates : sent[m] <= MaxTotal[m]

\* Until then, between payments, the mandate's count is the sum of its settled
\* payments, and these are all that was credited.
CountWhenAwaited ==
    Awaited => \A m \in Mandates : AtRest(m) => spent[m] = paid[m] /\ paid[m] = sent[m]

-----------------------------------------------------------------------------
(* Properties of payments that come one after the other, whatever mandate. *)

Alone == \A r \in Requests : met[r] = {}

TotalCash   == SumFunctionOnSet([u \in Users |-> Held(u)], Users)
OpeningCash == SumFunctionOnSet([u \in Users |-> InRow(Opening[u])], Users)

\* Absolute amounts are written back, yet no cash appears unless two requests
\* overlapped, whoever dies when; and none is lost either unless one died
\* (_available_cash before the rail; pay and credit).
MoneyKept ==
    Alone =>
      /\ TotalCash <= OpeningCash
      /\ (crashes = 0 /\ \A r \in Requests : ~InFlight(r)) => TotalCash = OpeningCash

-----------------------------------------------------------------------------
(* What a mandate promises. *)

\* An attempt as the granter sees it: received while the mandate stood, it is
\* open; it has paid once the payee is credited.
AttemptOf(r) ==
    IF r \in credited THEN "paid"
    ELSE IF pc[r] \in {"done", "crashed"} THEN "closed"
    ELSE IF pc[r] = "idle" \/ r \in late THEN "none"
    ELSE "open"

StandingOf(m) == CASE status[m] = "none" -> "none"
                   [] status[m] = "active" -> "live"
                   [] OTHER -> "withdrawn"

Contract == INSTANCE PaymentContract WITH
    standing <- [m \in Mandates |-> StandingOf(m)],
    given    <- sent,
    attempt  <- [r \in Requests |-> AttemptOf(r)],
    asks     <- req

\* As long as attempts are awaited the payments implement the contract: they
\* begin as it begins, and every step is a step of it or leaves it alone.
ContractKept ==
    Contract!Init /\ [][Awaited' => [Contract!Next]_(Contract!vars)]_vars

-----------------------------------------------------------------------------
(* What the code does not keep. *)

\* What reaches payees under a mandate never exceeds its total
\* (test_the_total_is_a_ceiling_not_a_suggestion).
Ceiling == \A m \in Mandates : sent[m] <= MaxTotal[m]
=============================================================================
