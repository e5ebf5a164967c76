------------------------------ MODULE Suppliers -------------------------------
(***************************************************************************)
(* Supplier agreements and invoices of one project                         *)
(* (backend/app/bridge/routes.py: add_supplier, respond_to_agreement,      *)
(* submit_invoice, verify_invoice, pay_invoice; service.py: pay_invoice).  *)
(*                                                                         *)
(* A request is served by a thread with a session of its own; it reads the *)
(* invoice and the agreement once, at its start, and writes what it        *)
(* computed from them.  A payment commits when it credits the cash, when   *)
(* it credits the units, and when it marks the invoice.                    *)
(*                                                                         *)
(* Every invoice asks Amount, a share is the part of it paid in cash, and  *)
(* a participation unit is worth 1, so round() changes nothing.  The       *)
(* supplier's Wallet row, opened on demand, holds nothing else.  The       *)
(* evidence reference and the rail's reference are left out.               *)
(***************************************************************************)
EXTENDS Wallet, FiniteSets, Functions

CONSTANTS
    Users,
    Agreements,
    Invoices,
    Requests,       \* requests to verify or to pay an invoice
    Sponsor,
    Reviewers,      \* users with the role of reviewer or administrator
    Supplier,       \* Supplier[a]: whom the sponsor named
    Of,             \* Of[i]: the agreement of invoice i
    Amount,
    Shares,         \* cash parts the sponsor may offer
    MaxCrashes      \* bound on requests that die on the way

ASSUME SuppliersAssumption ==
    /\ IsFiniteSet(Invoices)
    /\ Sponsor \in Users /\ Reviewers \subseteq Users
    /\ Supplier \in [Agreements -> Users] /\ Of \in [Invoices -> Agreements]
    /\ Amount \in Nat \ {0} /\ Shares \subseteq 0..Amount
    /\ MaxCrashes \in Nat

\* Only the sponsor pays; approve is not used then.
Asks == { a \in [op : {"verify", "pay"}, invoice : Invoices, approve : BOOLEAN,
                 by : {Sponsor} \cup Reviewers] :
            a.op = "pay" => a.by = Sponsor /\ a.approve }

Responses == {"none", "pending", "accepted", "declined"}
Statuses  == {"none", "submitted", "verified", "rejected", "paid"}

VARIABLES
    \* --- rows of the database ---
    response,   \* response[a]: accepted_by_supplier, or none
    share,      \* share[a]: the cash part of each invoice
    invoice,    \* invoice[i]: status of the invoice, or none
    cash,       \* cash[u], units[u]: positions in u's wallet
    units,
    transfers,  \* payments with a BridgeTransfer row
    \* --- the sessions ---
    req, pc,
    loaded,     \* loaded[r]: the invoice's status as r read it
    plan,       \* plan[r]: the cash part as r computed it
    found,      \* found[r]: the position that credit() found
    crashes,
    \* --- history, read by properties only ---
    certified,  \* invoices whose status was verified at some time
    received,   \* received[i]: value credited for i
    asked,      \* asked[r]: the supplier's response when r read the agreement
    staked,     \* payments that issued units
    judges,     \* judges[i]: users who gave a verdict on i
    met         \* met[r]: requests in flight when r was received

agreement == <<response, share>>
purse     == <<cash, units, transfers>>
session   == <<loaded, plan, found>>
history   == <<certified, received, asked, staked, judges, met>>
vars == <<agreement, invoice, purse, req, pc, session, crashes, history>>

-----------------------------------------------------------------------------
Busy == {"verify", "cash", "cashing", "stake", "staking", "mark"}
InFlight(r) == pc[r] \in Busy

Payee(r) == Supplier[Of[req[r].invoice]]

\* What is not paid in cash is paid in participation units.
Stake(r) == Amount - plan[r]

TypeOK ==
    /\ response \in [Agreements -> Responses]
    /\ share \in [Agreements -> 0..Amount]
    /\ invoice \in [Invoices -> Statuses]
    /\ cash \in [Users -> Nat \cup {None}] /\ units \in [Users -> Nat \cup {None}]
    /\ transfers \subseteq Requests
    /\ req \in [Requests -> Asks]
    /\ pc \in [Requests -> Busy \cup {"idle", "done", "refused", "crashed"}]
    /\ loaded \in [Requests -> Statuses]
    /\ plan \in [Requests -> 0..Amount]
    /\ found \in [Requests -> Nat \cup {None}]
    /\ crashes \in 0..MaxCrashes
    /\ certified \subseteq Invoices
    /\ received \in [Invoices -> Nat]
    /\ asked \in [Requests -> Responses]
    /\ staked \subseteq Requests
    /\ judges \in [Invoices -> SUBSET Users]
    /\ met \in [Requests -> SUBSET Requests]

Init ==
    /\ response = [a \in Agreements |-> "none"]
    /\ share = [a \in Agreements |-> Amount]
    /\ invoice = [i \in Invoices |-> "none"]
    /\ cash = [u \in Users |-> None] /\ units = [u \in Users |-> None]
    /\ transfers = {}
    /\ req \in [Requests -> Asks]
    /\ pc = [r \in Requests |-> "idle"]
    /\ loaded = [r \in Requests |-> "none"]
    /\ plan = [r \in Requests |-> 0]
    /\ found = [r \in Requests |-> None]
    /\ crashes = 0
    /\ certified = {}
    /\ received = [i \in Invoices |-> 0]
    /\ asked = [r \in Requests |-> "none"]
    /\ staked = {}
    /\ judges = [i \in Invoices |-> {}]
    /\ met = [r \in Requests |-> {}]

-----------------------------------------------------------------------------
(* The agreement. *)

AddSupplier(a) ==
    /\ response[a] = "none"
    /\ response' = [response EXCEPT ![a] = "pending"]
    /\ \E s \in Shares : share' = [share EXCEPT ![a] = s]
    /\ UNCHANGED <<invoice, purse, req, pc, session, crashes, history>>

\* Mutant of Respond: declining is noted and the split stays.
RespondOnly(a, accept) ==
    /\ response[a] # "none"
    /\ response' = [response EXCEPT ![a] = IF accept THEN "accepted" ELSE "declined"]
    /\ UNCHANGED <<share, invoice, purse, req, pc, session, crashes, history>>

\* At any time and as often as the supplier likes.  Declining means all cash,
\* and accepting afterwards does not bring the split back.
Respond(a, accept) ==
    /\ response[a] # "none"
    /\ response' = [response EXCEPT ![a] = IF accept THEN "accepted" ELSE "declined"]
    /\ share' = [share EXCEPT ![a] = IF accept THEN @ ELSE Amount]
    /\ UNCHANGED <<invoice, purse, req, pc, session, crashes, history>>

SubmitInvoice(i) ==
    /\ invoice[i] = "none" /\ response[Of[i]] # "none"
    /\ invoice' = [invoice EXCEPT ![i] = "submitted"]
    /\ UNCHANGED <<agreement, purse, req, pc, session, crashes, history>>

-----------------------------------------------------------------------------
(* A request to verify or to pay. *)

MayStart(r) == pc[r] = "idle" /\ invoice[req[r].invoice] # "none"

Meet(r) == met' = [met EXCEPT ![r] = @ \cup {q \in Requests : InFlight(q)}]

\* Mutant of Accepts: only an unverified invoice is held back from payment.
AcceptsAnyButSubmitted(r, s) ==
    IF req[r].op = "pay" THEN s # "submitted" ELSE s \in {"submitted", "verified"}

\* The guards on the status read: of the verify route, and of pay_invoice.
Accepts(r, s) ==
    IF req[r].op = "pay" THEN s = "verified" ELSE s \in {"submitted", "verified"}

RefuseRequest(r) ==
    /\ MayStart(r) /\ ~Accepts(r, invoice[req[r].invoice])
    /\ pc' = [pc EXCEPT ![r] = "refused"]
    /\ UNCHANGED <<agreement, invoice, purse, req, session, crashes, history>>

LoadToVerify(r) ==
    LET i == req[r].invoice IN
    /\ MayStart(r) /\ req[r].op = "verify" /\ Accepts(r, invoice[i]) /\ Meet(r)
    /\ loaded' = [loaded EXCEPT ![r] = invoice[i]]
    /\ pc' = [pc EXCEPT ![r] = "verify"]
    /\ UNCHANGED <<agreement, invoice, purse, req, plan, found, crashes,
                   certified, received, asked, staked, judges>>

Verdict(r) == IF req[r].approve THEN "verified" ELSE "rejected"

\* The status is written when it differs from the one read, whatever it is by
\* then.
CommitVerdict(r) ==
    LET i == req[r].invoice IN
    /\ pc[r] = "verify"
    /\ invoice' = [invoice EXCEPT ![i] = IF Verdict(r) # loaded[r] THEN Verdict(r) ELSE @]
    /\ judges' = [judges EXCEPT ![i] = @ \cup {req[r].by}]
    /\ certified' = IF Verdict(r) = "verified" THEN certified \cup {i} ELSE certified
    /\ pc' = [pc EXCEPT ![r] = "done"]
    /\ UNCHANGED <<agreement, purse, req, session, crashes, received, asked,
                   staked, met>>

\* pay_invoice computes the split and gives the cash to the rail.
LoadToPay(r) ==
    LET i == req[r].invoice
        s == share[Of[i]]
    IN  /\ MayStart(r) /\ req[r].op = "pay" /\ Accepts(r, invoice[i]) /\ Meet(r)
        /\ loaded' = [loaded EXCEPT ![r] = invoice[i]]
        /\ plan' = [plan EXCEPT ![r] = s]
        /\ asked' = [asked EXCEPT ![r] = response[Of[i]]]
        /\ pc' = [pc EXCEPT ![r] = IF s > 0 THEN "cash" ELSE "stake"]
        /\ UNCHANGED <<agreement, invoice, purse, req, found, crashes,
                       certified, received, staked, judges>>

\* credit() looks for the supplier's cash, or for the supplier's units.
FindCash(r) ==
    /\ pc[r] = "cash"
    /\ found' = [found EXCEPT ![r] = cash[Payee(r)]]
    /\ pc' = [pc EXCEPT ![r] = "cashing"]
    /\ UNCHANGED <<agreement, invoice, purse, req, loaded, plan, crashes, history>>

FindUnits(r) ==
    /\ pc[r] = "stake"
    /\ found' = [found EXCEPT ![r] = units[Payee(r)]]
    /\ pc' = [pc EXCEPT ![r] = "staking"]
    /\ UNCHANGED <<agreement, invoice, purse, req, loaded, plan, crashes, history>>

\* Mutants of CreditCash: the stake is forgotten; the row is written over.
CreditCashOnly(r) ==
    /\ pc[r] = "cashing"
    /\ cash' = [cash EXCEPT ![Payee(r)] = AfterCredit(found[r], @, plan[r])]
    /\ received' = [received EXCEPT ![req[r].invoice] = @ + plan[r]]
    /\ found' = [found EXCEPT ![r] = None]
    /\ pc' = [pc EXCEPT ![r] = "mark"]
    /\ UNCHANGED <<agreement, invoice, units, transfers, req, loaded, plan,
                   crashes, certified, asked, staked, judges, met>>

CreditCashOver(r) ==
    /\ pc[r] = "cashing"
    /\ cash' = [cash EXCEPT ![Payee(r)] = plan[r]]
    /\ received' = [received EXCEPT ![req[r].invoice] = @ + plan[r]]
    /\ found' = [found EXCEPT ![r] = None]
    /\ pc' = [pc EXCEPT ![r] = IF Stake(r) > 0 THEN "stake" ELSE "mark"]
    /\ UNCHANGED <<agreement, invoice, units, transfers, req, loaded, plan,
                   crashes, certified, asked, staked, judges, met>>

\* credit() commits the cash.
CreditCash(r) ==
    /\ pc[r] = "cashing"
    /\ cash' = [cash EXCEPT ![Payee(r)] = AfterCredit(found[r], @, plan[r])]
    /\ received' = [received EXCEPT ![req[r].invoice] = @ + plan[r]]
    /\ found' = [found EXCEPT ![r] = None]
    /\ pc' = [pc EXCEPT ![r] = IF Stake(r) > 0 THEN "stake" ELSE "mark"]
    /\ UNCHANGED <<agreement, invoice, units, transfers, req, loaded, plan,
                   crashes, certified, asked, staked, judges, met>>

\* The row of the cash transfer goes with the commit that comes next.
WithTransfer(r) == IF plan[r] > 0 THEN transfers \cup {r} ELSE transfers

CreditUnits(r) ==
    /\ pc[r] = "staking"
    /\ units' = [units EXCEPT ![Payee(r)] = AfterCredit(found[r], @, Stake(r))]
    /\ received' = [received EXCEPT ![req[r].invoice] = @ + Stake(r)]
    /\ transfers' = WithTransfer(r)
    /\ staked' = staked \cup {r}
    /\ found' = [found EXCEPT ![r] = None]
    /\ pc' = [pc EXCEPT ![r] = "mark"]
    /\ UNCHANGED <<agreement, invoice, cash, req, loaded, plan, crashes,
                   certified, asked, judges, met>>

\* The last commit: the credits' commits expired the invoice, so its status
\* is written without being read.
MarkPaid(r) ==
    /\ pc[r] = "mark"
    /\ invoice' = [invoice EXCEPT ![req[r].invoice] = "paid"]
    /\ transfers' = WithTransfer(r)
    /\ pc' = [pc EXCEPT ![r] = "done"]
    /\ UNCHANGED <<agreement, cash, units, req, session, crashes, history>>

\* What the request had not committed is lost.
Crash(r) ==
    /\ InFlight(r) /\ crashes < MaxCrashes
    /\ crashes' = crashes + 1
    /\ found' = [found EXCEPT ![r] = None]
    /\ pc' = [pc EXCEPT ![r] = "crashed"]
    /\ UNCHANGED <<agreement, invoice, purse, req, loaded, plan, history>>

-----------------------------------------------------------------------------
AgreementStep ==
    \/ \E a \in Agreements : AddSupplier(a) \/ \E yes \in BOOLEAN : Respond(a, yes)
    \/ \E i \in Invoices : SubmitInvoice(i)

RequestStep(r) ==
    \/ RefuseRequest(r) \/ LoadToVerify(r) \/ CommitVerdict(r)
    \/ LoadToPay(r) \/ FindCash(r) \/ CreditCash(r) \/ FindUnits(r) \/ CreditUnits(r)
    \/ MarkPaid(r) \/ Crash(r)

Next == AgreementStep \/ \E r \in Requests : RequestStep(r)

Spec == Init /\ [][Next]_vars

-----------------------------------------------------------------------------
(* Whatever overlaps and whoever crashes. *)

\* Nothing is credited for an invoice that nobody ever verified
\* (verify_invoice: "Only verified work is paid").
OnlyVerifiedIsPaid ==
    \A i \in Invoices : received[i] > 0 \/ invoice[i] = "paid" => i \in certified

\* An invoice called paid has been credited in full, in cash and in units, by
\* a payment that ran to its end and whose cash has its transfer.
PaidIsCredited ==
    \A i \in Invoices : invoice[i] = "paid" =>
      /\ received[i] >= Amount
      /\ \E r \in Requests : /\ req[r].op = "pay" /\ req[r].invoice = i /\ pc[r] = "done"
                             /\ plan[r] > 0 => r \in transfers

\* A payment begun after the supplier declined issues no units, even when the
\* supplier has answered again since ("declining means all cash").
DeclineIsHonoured == \A r \in staked : asked[r] # "declined"

-----------------------------------------------------------------------------
(* When requests for an invoice do not overlap. *)

\* No two requests for one invoice have overlapped.
Apart == \A r \in Requests : \A q \in met[r] : req[q].invoice # req[r].invoice

\* Nor has any request died.
Calm == Apart /\ \A r \in Requests : pc[r] # "crashed"

\* A paid invoice stays paid: no late verdict reopens it, whoever dies
\* (verify_invoice refuses a paid invoice).
PaidIsFinal ==
    [][Apart' => \A i \in Invoices : invoice[i] = "paid" => invoice'[i] = "paid"]_vars

\* No invoice is credited beyond what was verified (pay_invoice: "pay only
\* what has been verified") until requests for it overlap or die.
PaysOnlyWhatWasVerified == Calm => \A i \in Invoices : received[i] <= Amount

WorkOf(i) == CASE invoice[i] = "submitted" -> "claimed"
               [] invoice[i] = "verified" -> "certified"
               [] OTHER -> invoice[i]

Contract == INSTANCE WorkContract WITH work <- [i \in Invoices |-> WorkOf(i)]

\* Until then the invoices implement what supplier and sponsor are promised.
ContractKept == Contract!Init /\ [][Calm' => [Contract!Next]_(Contract!vars)]_vars

-----------------------------------------------------------------------------
(* When requests for a supplier do not overlap, for whichever invoice. *)

PayeesApart == \A r \in Requests : \A q \in met[r] : Payee(q) # Payee(r)

InvoicesOf(u) == {i \in Invoices : Supplier[Of[i]] = u}

\* What a supplier was given is in the supplier's wallet, cash and units
\* together, whoever dies between the commits (credit merges into rows).
WalletHoldsAll ==
    PayeesApart => \A u \in Users :
      InRow(cash[u]) + InRow(units[u]) = SumFunctionOnSet(received, InvoicesOf(u))

-----------------------------------------------------------------------------
(* What the code does not keep. *)

\* Units are issued to suppliers who accepted the split (routes.py:
\* "Participation is always the supplier's choice, never a condition of being
\* paid."), here one request at a time and without a crash.
StakeByChoice == Calm => \A r \in staked : asked[r] = "accepted"
=============================================================================
