------------------------------ MODULE Leverage -------------------------------
(***************************************************************************)
(* Pledging holdings and settling them into money, while units are issued  *)
(* (backend/app/bridge/service.py: create_pledge, release_pledge,          *)
(* settle_down, credit).                                                   *)
(*                                                                         *)
(* One holder's wallet.  A request is served by a thread with a session of *)
(* its own: the holding is read when the route loads it, the pledged sum   *)
(* when the service asks for it, and the writes replace what was read.     *)
(* Between one read or commit and the next, other requests may run.        *)
(* Amounts are whole units; the tolerance of 1e-9 and the rounding vanish. *)
(***************************************************************************)
EXTENDS Wallet, FiniteSets, Functions

CONSTANTS
    Holdings,       \* the wallet's holdings
    Direct,         \* those of the direct-value layer
    Settleable,     \* those of a kind in SETTLEABLE_KINDS
    Fungible,       \* participation units: further issues merge into them
    UnitValue,      \* UnitValue[h]: terms.unit_value
    Start,          \* Start[h]: the amount at first
    Amounts,
    Requests,
    Operations,     \* what is asked for: among pledge, settle, issue
    MaxCrashes      \* bound on requests that die on the way

ASSUME LeverageAssumption ==
    /\ IsFiniteSet(Holdings)
    /\ Direct \subseteq Holdings /\ Settleable \subseteq Direct
    /\ Fungible \subseteq Settleable
    /\ UnitValue \in [Holdings -> Nat \ {0}]
    /\ Start \in [Holdings -> Nat]
    /\ Amounts \subseteq Nat \ {0}
    /\ Operations \subseteq {"pledge", "settle", "issue"}
    /\ MaxCrashes \in Nat

\* An issue comes from a decided contribution or a paid invoice.
Asks == { a \in [op : Operations, holding : Holdings, amount : Amounts] :
            a.op = "issue" => a.holding \in Fungible }

VARIABLES
    \* --- rows of the database ---
    units,      \* units[h]: Holding.amount
    pledge,     \* pledge[r]: status of the Pledge that request r inserted
    pledged,    \* pledged[h]: SUM(amount) over the active pledges on h
    cash,       \* amount of the wallet's cash holding, or None
    transfers,  \* requests with a BridgeTransfer row
    \* --- the sessions ---
    req, pc,
    seenUnits,  \* the holding's amount as the session holds it
    seenCash,   \* the cash holding as credit() found it
    crashes,
    \* --- history, read by properties only ---
    moved,      \* settlements whose money has been credited
    issued,     \* issued[h]: all units ever issued
    met         \* met[r]: requests in flight when r was received

rows    == <<units, pledge, pledged, cash, transfers>>
history == <<moved, issued, met>>
vars == <<rows, req, pc, seenUnits, seenCash, crashes, history>>

-----------------------------------------------------------------------------
Busy == {"loaded", "insert", "find", "move", "note"}
InFlight(r) == pc[r] \in Busy

TypeOK ==
    /\ units \in [Holdings -> Int]
    /\ pledge \in [Requests -> {"none", "active", "released"}]
    /\ pledged \in [Holdings -> Int]
    /\ cash \in Nat \cup {None}
    /\ transfers \subseteq Requests
    /\ req \in [Requests -> Asks]
    /\ pc \in [Requests -> Busy \cup {"idle", "done", "refused", "crashed"}]
    /\ seenUnits \in [Requests -> Int]
    /\ seenCash \in [Requests -> Nat \cup {None}]
    /\ crashes \in 0..MaxCrashes
    /\ moved \subseteq Requests
    /\ issued \in [Holdings -> Nat]
    /\ met \in [Requests -> SUBSET Requests]

Init ==
    /\ units = Start
    /\ pledge = [r \in Requests |-> "none"]
    /\ pledged = [h \in Holdings |-> 0]
    /\ cash = None
    /\ transfers = {}
    /\ req \in [Requests -> Asks]
    /\ pc = [r \in Requests |-> "idle"]
    /\ seenUnits = [r \in Requests |-> 0]
    /\ seenCash = [r \in Requests |-> None]
    /\ crashes = 0
    /\ moved = {}
    /\ issued = Start
    /\ met = [r \in Requests |-> {}]

-----------------------------------------------------------------------------
\* _holding in the route, or the query of credit(): the row is read.
LoadHolding(r) ==
    /\ pc[r] = "idle"
    /\ met' = [met EXCEPT ![r] = @ \cup {q \in Requests : InFlight(q)}]
    /\ seenUnits' = [seenUnits EXCEPT ![r] = units[req[r].holding]]
    /\ pc' = [pc EXCEPT ![r] = "loaded"]
    /\ UNCHANGED <<rows, req, seenCash, crashes, moved, issued>>

\* Mutant of Free: value that is pledged already counts as free.
FreeIgnoringPledges(r) == seenUnits[r]

\* The amount as loaded less the pledges as they are now.
Free(r) == seenUnits[r] - pledged[req[r].holding]

\* The guards of create_pledge and of settle_down.
MayPledge(r) ==
    req[r].op = "pledge" /\ req[r].holding \in Direct /\ req[r].amount <= Free(r)
MaySettle(r) ==
    req[r].op = "settle" /\ req[r].holding \in Settleable /\ req[r].amount <= Free(r)

Refuse(r) ==
    /\ pc[r] = "loaded" /\ req[r].op # "issue" /\ ~MayPledge(r) /\ ~MaySettle(r)
    /\ pc' = [pc EXCEPT ![r] = "refused"]
    /\ UNCHANGED <<rows, req, seenUnits, seenCash, crashes, history>>

CheckPledge(r) ==
    /\ pc[r] = "loaded" /\ MayPledge(r)
    /\ pc' = [pc EXCEPT ![r] = "insert"]
    /\ UNCHANGED <<rows, req, seenUnits, seenCash, crashes, history>>

\* create_pledge commits.
InsertPledge(r) ==
    /\ pc[r] = "insert"
    /\ pledge' = [pledge EXCEPT ![r] = "active"]
    /\ pledged' = [pledged EXCEPT ![req[r].holding] = @ + req[r].amount]
    /\ pc' = [pc EXCEPT ![r] = "done"]
    /\ UNCHANGED <<units, cash, transfers, req, seenUnits, seenCash, crashes, history>>

\* Mutant of ReleasePledge: the row is released again and again.
ReleasePledgeAgain(r) ==
    /\ pledge[r] # "none"
    /\ pledge' = [pledge EXCEPT ![r] = "released"]
    /\ pledged' = [pledged EXCEPT ![req[r].holding] = @ - req[r].amount]
    /\ UNCHANGED <<units, cash, transfers, req, pc, seenUnits, seenCash, crashes, history>>

\* release_pledge.  Overlapping releases of a pledge write the same row twice.
ReleasePledge(r) ==
    /\ pledge[r] = "active"
    /\ pledge' = [pledge EXCEPT ![r] = "released"]
    /\ pledged' = [pledged EXCEPT ![req[r].holding] = @ - req[r].amount]
    /\ UNCHANGED <<units, cash, transfers, req, pc, seenUnits, seenCash, crashes, history>>

\* settle_down gives the transfer to the rail.
CheckSettle(r) ==
    /\ pc[r] = "loaded" /\ MaySettle(r)
    /\ pc' = [pc EXCEPT ![r] = "find"]
    /\ UNCHANGED <<rows, req, seenUnits, seenCash, crashes, history>>

\* credit() looks for the cash holding.
FindCash(r) ==
    /\ pc[r] = "find"
    /\ seenCash' = [seenCash EXCEPT ![r] = cash]
    /\ pc' = [pc EXCEPT ![r] = "move"]
    /\ UNCHANGED <<rows, req, seenUnits, crashes, history>>

Worth(r) == req[r].amount * UnitValue[req[r].holding]

\* Mutant of CashAfter: the settled amount is credited without its unit value.
CashAfterUnits(r) == AfterCredit(seenCash[r], cash, req[r].amount)

CashAfter(r) == AfterCredit(seenCash[r], cash, Worth(r))

\* credit() commits, and with the money the holding's new amount.
MoveValue(r) ==
    /\ pc[r] = "move"
    /\ units' = [units EXCEPT ![req[r].holding] = seenUnits[r] - req[r].amount]
    /\ cash' = CashAfter(r)
    /\ moved' = moved \cup {r}
    /\ seenCash' = [seenCash EXCEPT ![r] = None]
    /\ pc' = [pc EXCEPT ![r] = "note"]
    /\ UNCHANGED <<pledge, pledged, transfers, req, seenUnits, crashes, issued, met>>

\* The last commit of settle_down.
NoteTransfer(r) ==
    /\ pc[r] = "note"
    /\ transfers' = transfers \cup {r}
    /\ pc' = [pc EXCEPT ![r] = "done"]
    /\ UNCHANGED <<units, pledge, pledged, cash, req, seenUnits, seenCash, crashes, history>>

\* credit() merges newly issued units into the holding and commits.
IssueUnits(r) ==
    LET h == req[r].holding IN
    /\ pc[r] = "loaded" /\ req[r].op = "issue"
    /\ units' = [units EXCEPT ![h] = seenUnits[r] + req[r].amount]
    /\ issued' = [issued EXCEPT ![h] = @ + req[r].amount]
    /\ pc' = [pc EXCEPT ![r] = "done"]
    /\ UNCHANGED <<pledge, pledged, cash, transfers, req, seenUnits, seenCash, crashes, moved, met>>

\* What the request had not committed is lost.
Crash(r) ==
    /\ InFlight(r) /\ crashes < MaxCrashes
    /\ crashes' = crashes + 1
    /\ seenCash' = [seenCash EXCEPT ![r] = None]
    /\ pc' = [pc EXCEPT ![r] = "crashed"]
    /\ UNCHANGED <<rows, req, seenUnits, history>>

-----------------------------------------------------------------------------
Step(r) ==
    \/ LoadHolding(r) \/ Refuse(r) \/ CheckPledge(r) \/ InsertPledge(r) \/ ReleasePledge(r)
    \/ CheckSettle(r) \/ FindCash(r) \/ MoveValue(r) \/ NoteTransfer(r)
    \/ IssueUnits(r) \/ Crash(r)

Next == \E r \in Requests : Step(r)

Spec == Init /\ [][Next]_vars

-----------------------------------------------------------------------------
(* Whatever overlaps and whoever crashes. *)

\* A transfer is recorded only for money that was credited, and an access
\* right is never turned into money (settle_down's order of commits).
TransferBacked ==
    /\ transfers \subseteq moved
    /\ \A r \in moved : req[r].holding \in Settleable

-----------------------------------------------------------------------------
(* When requests do not overlap.  Releases may come at any time.            *)

\* No two requests for one holding have overlapped.
Apart == \A r \in Requests : \A q \in met[r] : req[q].holding # req[r].holding

\* No two requests at all have overlapped.
Alone == \A r \in Requests : met[r] = {}

\* Neither a second pledge nor a settlement takes value that is pledged, and
\* requests that die leave nothing half done: a holding backs no more pledges
\* than it has value (create_pledge: "double pledging is visible";
\* settle_down: "Pledged value cannot be settled away").
CoveredWhenApart == Apart => \A h \in Holdings : pledged[h] <= units[h]

\* Settling neither makes nor loses value: what was issued is still held or has
\* become its worth in money, a crash between the commits included (settle_down
\* and credit).
ValueKept ==
    Alone => InRow(cash) = SumFunctionOnSet(
               [h \in Holdings |-> (issued[h] - units[h]) * UnitValue[h]], Holdings)

Vault == INSTANCE Escrow WITH
    free   <- [h \in Holdings |-> units[h] - pledged[h]],
    locked <- pledged,
    money  <- InRow(cash)

\* Until two requests overlap the holdings are an escrow, crashes included.
EscrowKept == Vault!Init /\ [][Alone' => [Vault!Next]_(Vault!vars)]_vars

-----------------------------------------------------------------------------
(* What the code does not keep. *)

\* The same without the condition (routes.py: "Double pledging is refused.").
PledgeCovered == \A h \in Holdings : pledged[h] <= units[h]
=============================================================================
