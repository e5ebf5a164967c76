---------------------------- MODULE Contributions -----------------------------
(***************************************************************************)
(* Contributions to one project and the sponsor's decisions                *)
(* (backend/app/bridge/routes.py: contribute, decide, set_status;          *)
(* service.py: propose_contribution, decide_contribution).                 *)
(*                                                                         *)
(* A decision is served by a thread with a session of its own.  What it    *)
(* sets on the contribution goes to the database with the next commit,     *)
(* whoever makes it: get_or_create_wallet when it inserts the wallet,      *)
(* credit() when it issues units or an access right.                       *)
(*                                                                         *)
(* A participation unit is worth 1, so round() changes nothing.  The       *)
(* valuation basis, the note and the required reviews are left out.        *)
(***************************************************************************)
EXTENDS Wallet

CONSTANTS
    Offers,             \* contributions
    Contributor,        \* Contributor[c]: who offers c
    Wants,              \* Wants[c]: participation, access or both
    Values,             \* what a sponsor may find an offer worth
    Decisions,          \* requests to decide
    MaxCrashes          \* bound on requests that die on the way

People == {Contributor[c] : c \in Offers}

ASSUME ContributionsAssumption ==
    /\ Wants \in [Offers -> {"participation", "access", "both"}]
    /\ Values \subseteq Nat \ {0}
    /\ MaxCrashes \in Nat

Asks == [offer : Offers, accept : BOOLEAN, value : Values]

VARIABLES
    \* --- rows of the database ---
    project,    \* status of the project
    status,     \* status[c]: status of contribution c, or none
    value,      \* value[c]: accepted_value, 0 when there is none
    wallets,    \* people who have a Wallet row
    units,      \* units[u]: u's participation units in the project
    rights,     \* rights[c]: access rights issued for c
    \* --- the sessions ---
    offering,   \* offers whose request has found the project open
    req, pc,
    dirty,      \* decisions that are set and not yet committed
    found,      \* found[d]: the units that credit() found
    crashes,
    \* --- history, read by properties only ---
    accepted,   \* offers whose status was accepted at some time
    issued,     \* issued[c]: units issued for c
    met         \* met[d]: decisions in flight when d was received

rows    == <<project, status, value, wallets, units, rights>>
history == <<accepted, issued, met>>
vars == <<rows, offering, req, pc, dirty, found, crashes, history>>

-----------------------------------------------------------------------------
Busy == {"reject", "wallet", "units", "crediting", "access"}
InFlight(d) == pc[d] \in Busy

ForUnits(c)  == Wants[c] \in {"participation", "both"}
ForAccess(c) == Wants[c] \in {"access", "both"}
Payee(d)     == Contributor[req[d].offer]

TypeOK ==
    /\ project \in {"funding", "funded", "delivering", "operating", "closed"}
    /\ status \in [Offers -> {"none", "proposed", "accepted", "rejected"}]
    /\ value \in [Offers -> Values \cup {0}]
    /\ wallets \subseteq People
    /\ units \in [People -> Nat \cup {None}]
    /\ rights \in [Offers -> Nat]
    /\ offering \subseteq Offers
    /\ req \in [Decisions -> Asks]
    /\ pc \in [Decisions -> Busy \cup {"idle", "done", "refused", "crashed"}]
    /\ dirty \subseteq Decisions
    /\ found \in [Decisions -> Nat \cup {None}]
    /\ crashes \in 0..MaxCrashes
    /\ accepted \subseteq Offers
    /\ issued \in [Offers -> Nat]
    /\ met \in [Decisions -> SUBSET Decisions]

Init ==
    /\ project = "funding"
    /\ status = [c \in Offers |-> "none"]
    /\ value = [c \in Offers |-> 0]
    /\ wallets = {}
    /\ units = [u \in People |-> None]
    /\ rights = [c \in Offers |-> 0]
    /\ offering = {}
    /\ req \in [Decisions -> Asks]
    /\ pc = [d \in Decisions |-> "idle"]
    /\ dirty = {}
    /\ found = [d \in Decisions |-> None]
    /\ crashes = 0
    /\ accepted = {}
    /\ issued = [c \in Offers |-> 0]
    /\ met = [d \in Decisions |-> {}]

-----------------------------------------------------------------------------
\* The sponsor sets any status at any time.
SetStatus(s) ==
    /\ s # project
    /\ project' = s
    /\ UNCHANGED <<status, value, wallets, units, rights, offering, req, pc, dirty,
                   found, crashes, history>>

\* propose_contribution reads the project ...
FindProjectOpen(c) ==
    /\ c \notin offering /\ project \in {"funding", "delivering"}
    /\ offering' = offering \cup {c}
    /\ UNCHANGED <<rows, req, pc, dirty, found, crashes, history>>

\* ... and inserts the offer, whatever the project has become.
InsertOffer(c) ==
    /\ c \in offering /\ status[c] = "none"
    /\ status' = [status EXCEPT ![c] = "proposed"]
    /\ UNCHANGED <<project, value, wallets, units, rights, offering, req, pc, dirty,
                   found, crashes, history>>

-----------------------------------------------------------------------------
(* One decision: the route decide and decide_contribution. *)

MayStart(d) == pc[d] = "idle" /\ status[req[d].offer] # "none"

\* Mutants of Decidable: a rejected offer may be decided again; any may.
DecidableRejected(c) == status[c] \in {"proposed", "rejected"}
DecidableAnytime(c)  == status[c] # "none"

Decidable(c) == status[c] = "proposed"

RefuseDecision(d) ==
    /\ MayStart(d) /\ ~Decidable(req[d].offer)
    /\ pc' = [pc EXCEPT ![d] = "refused"]
    /\ UNCHANGED <<rows, offering, req, dirty, found, crashes, history>>

\* The status, and the value when it is accepted, are set in the session.
LoadOffer(d) ==
    /\ MayStart(d) /\ Decidable(req[d].offer)
    /\ met' = [met EXCEPT ![d] = @ \cup {q \in Decisions : InFlight(q)}]
    /\ pc' = [pc EXCEPT ![d] = IF req[d].accept THEN "wallet" ELSE "reject"]
    /\ dirty' = dirty \cup {d}
    /\ UNCHANGED <<rows, offering, req, found, crashes, accepted, issued>>

CommitRejection(d) ==
    /\ pc[d] = "reject"
    /\ status' = [status EXCEPT ![req[d].offer] = "rejected"]
    /\ dirty' = dirty \ {d}
    /\ pc' = [pc EXCEPT ![d] = "done"]
    /\ UNCHANGED <<project, value, wallets, units, rights, offering, req, found,
                   crashes, history>>

\* Any commit takes the acceptance with it, once.
Flush(d) ==
    LET c == req[d].offer IN
    IF d \in dirty
    THEN /\ status' = [status EXCEPT ![c] = "accepted"]
         /\ value' = [value EXCEPT ![c] = req[d].value]
         /\ accepted' = accepted \cup {c}
         /\ dirty' = dirty \ {d}
    ELSE UNCHANGED <<status, value, accepted, dirty>>

\* get_or_create_wallet commits when the contributor has none.
OpenWallet(d) ==
    LET u == Payee(d) IN
    /\ pc[d] = "wallet"
    /\ wallets' = wallets \cup {u}
    /\ IF u \in wallets THEN UNCHANGED <<status, value, accepted, dirty>> ELSE Flush(d)
    /\ pc' = [pc EXCEPT ![d] = IF ForUnits(req[d].offer) THEN "units" ELSE "access"]
    /\ UNCHANGED <<project, units, rights, offering, req, found, crashes, issued, met>>

\* credit() looks for the contributor's units in the project.
FindUnits(d) ==
    /\ pc[d] = "units"
    /\ found' = [found EXCEPT ![d] = units[Payee(d)]]
    /\ pc' = [pc EXCEPT ![d] = "crediting"]
    /\ UNCHANGED <<rows, offering, req, dirty, crashes, history>>

UnitsAfter(d) == AfterCredit(found[d], units[Payee(d)], req[d].value)

\* Mutant of CreditUnits: who gets units gets no access right.
CreditUnitsOnly(d) ==
    LET c == req[d].offer IN
    /\ pc[d] = "crediting"
    /\ units' = [units EXCEPT ![Payee(d)] = UnitsAfter(d)]
    /\ issued' = [issued EXCEPT ![c] = @ + req[d].value]
    /\ Flush(d)
    /\ found' = [found EXCEPT ![d] = None]
    /\ pc' = [pc EXCEPT ![d] = "done"]
    /\ UNCHANGED <<project, wallets, rights, offering, req, crashes, met>>

CreditUnits(d) ==
    LET c == req[d].offer IN
    /\ pc[d] = "crediting"
    /\ units' = [units EXCEPT ![Payee(d)] = UnitsAfter(d)]
    /\ issued' = [issued EXCEPT ![c] = @ + req[d].value]
    /\ Flush(d)
    /\ found' = [found EXCEPT ![d] = None]
    /\ pc' = [pc EXCEPT ![d] = IF ForAccess(c) THEN "access" ELSE "done"]
    /\ UNCHANGED <<project, wallets, rights, offering, req, crashes, met>>

\* An access right does not merge into another.
CreditAccess(d) ==
    /\ pc[d] = "access"
    /\ rights' = [rights EXCEPT ![req[d].offer] = @ + 1]
    /\ Flush(d)
    /\ pc' = [pc EXCEPT ![d] = "done"]
    /\ UNCHANGED <<project, wallets, units, offering, req, found, crashes, issued, met>>

\* What the request had not committed is lost.  Two requests that insert the
\* same wallet are a case of it: the key is unique, the second one dies.
Crash(d) ==
    /\ InFlight(d) /\ crashes < MaxCrashes
    /\ crashes' = crashes + 1
    /\ dirty' = dirty \ {d}
    /\ found' = [found EXCEPT ![d] = None]
    /\ pc' = [pc EXCEPT ![d] = "crashed"]
    /\ UNCHANGED <<rows, offering, req, history>>

-----------------------------------------------------------------------------
ProjectStep ==
    \/ \E s \in {"funding", "funded", "delivering", "operating", "closed"} : SetStatus(s)
    \/ \E c \in Offers : FindProjectOpen(c) \/ InsertOffer(c)

Decide(d) ==
    \/ RefuseDecision(d) \/ LoadOffer(d) \/ CommitRejection(d) \/ OpenWallet(d)
    \/ FindUnits(d) \/ CreditUnits(d) \/ CreditAccess(d) \/ Crash(d)

Next == ProjectStep \/ \E d \in Decisions : Decide(d)

Spec == Init /\ [][Next]_vars

-----------------------------------------------------------------------------
(* Whatever overlaps and whoever crashes. *)

\* Nothing is issued for an offer that the database did not call accepted by
\* then: the acceptance goes with the first commit of the request, not with its
\* last (get_or_create_wallet and credit commit it).
IssuedWasAccepted ==
    \A c \in Offers : issued[c] > 0 \/ rights[c] > 0 => c \in accepted

-----------------------------------------------------------------------------
(* When decisions on an offer do not overlap. *)

\* No two decisions on one offer have overlapped.
Apart == \A d \in Decisions : \A q \in met[d] : req[q].offer # req[d].offer

\* Nor has any request died.
Calm == Apart /\ \A d \in Decisions : pc[d] # "crashed"

\* An offer earns at most the units of its accepted value and one right, and a
\* rejected one earns nothing, even when requests die
\* (test_only_sponsor_decides: "already decided").
EarnsAtMostOnce ==
    Apart => \A c \in Offers : /\ issued[c] <= value[c] /\ rights[c] <= 1
                               /\ status[c] # "accepted" => issued[c] = 0 /\ rights[c] = 0

\* No decision is taken back or changed, and no value is rewritten.
DecisionIsFinal ==
    [][Apart' => \A c \in Offers : status[c] \in {"accepted", "rejected"}
                            => status'[c] = status[c] /\ value'[c] = value[c]]_vars

\* Until a request dies, an accepted offer has earned all that was agreed as
\* soon as no decision on it is in flight (decide_contribution: "Accepting
\* issues participation units, access rights, or both").
AcceptedIsIssued ==
    Calm => \A c \in Offers :
      status[c] = "accepted" /\ (\A d \in Decisions : InFlight(d) => req[d].offer # c) =>
        /\ ForUnits(c) => issued[c] = value[c]
        /\ ForAccess(c) => rights[c] = 1
=============================================================================
