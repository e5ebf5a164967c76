------------------------------- MODULE Account -------------------------------
(***************************************************************************)
(* Deleting an account (backend/app/services/account.py: delete_account;   *)
(* the tables of db/models.py, bridge/models.py, bridge/mandate_models.py, *)
(* value/models.py, map_models.py, agreements.py and agents/models.py).    *)
(*                                                                         *)
(* One transaction of many statements.  A statement sees what others have  *)
(* committed before it.  PostgreSQL, the database the service is           *)
(* configured for, checks foreign keys at the end of each statement: a     *)
(* statement that leaves a row pointing at a deleted one fails, and the    *)
(* whole transaction with it.  A row that others insert meanwhile must     *)
(* point at rows that are there and not deleted by the transaction: the    *)
(* insertion waits for it otherwise, and fails when it commits.            *)
(*                                                                         *)
(* A row is named for what it is to the person: one row of a kind stands   *)
(* for them all.  The subject is also written, without a foreign key, on   *)
(* rows that belong to others (Marks).                                     *)
(***************************************************************************)
EXTENDS Integers, Sequences, FiniteSets

CONSTANT MaxTraces              \* bound on the rows and marks of the person

ASSUME AccountAssumption == MaxTraces \in Nat

\* The foreign keys, file by file: what a row of a kind points at.
PeopleRefers == [
    entry |-> {"user"}, dispute |-> {"user", "entry"}, consent |-> {"user"},
    snapshot |-> {"user"}, request |-> {"user", "snapshot"}, appeal |-> {"user", "request"} ]

ValueRefers == [
    asset |-> {"user"}, evidence |-> {"asset"}, share |-> {"asset"}, run |-> {"asset"},
    shareReceived |-> {"user"}, proposal |-> {"asset"} ]

MapRefers == [mapItem |-> {"user"}, agreement |-> {"project"}]

BridgeRefers == [
    wallet |-> {"user"}, holding |-> {"wallet"}, pledge |-> {"holding"},
    transfer |-> {"wallet"}, loan |-> {"user"},
    project |-> {"user"}, projectOnAsset |-> {"user", "asset"}, stake |-> {"project"},
    contribution |-> {"project"}, offer |-> {"user"}, supplier |-> {"project"},
    work |-> {"user"}, invoice |-> {"work"} ]

MandateRefers == [mandate |-> {"user"}, agentMandate |-> {"agent"}, payment |-> {"user"}]

AgentRefers == [agent |-> {"user"}, derived |-> {"agent"}, recomputation |-> {"derived"}]

Kinds ==
    DOMAIN PeopleRefers \cup DOMAIN ValueRefers \cup DOMAIN MapRefers \cup DOMAIN BridgeRefers
      \cup DOMAIN MandateRefers \cup DOMAIN AgentRefers

Refers == [k \in Kinds |->
    CASE k \in DOMAIN PeopleRefers  -> PeopleRefers[k]
      [] k \in DOMAIN ValueRefers   -> ValueRefers[k]
      [] k \in DOMAIN MapRefers     -> MapRefers[k]
      [] k \in DOMAIN BridgeRefers  -> BridgeRefers[k]
      [] k \in DOMAIN MandateRefers -> MandateRefers[k]
      [] k \in DOMAIN AgentRefers   -> AgentRefers[k]]

\* Columns that hold the person's subject on rows of others.
Marks == {"attestation", "decision", "appealResolution", "disputeResolution",
          "contributionDecision", "agentReview", "invoiceVerification", "evidenceAttestation",
          "proposedBy", "recomputedBy", "triggeredBy", "recordedBy", "requestedBy"}

\* Mutant of Statements: the entries before the disputes about them.
StatementsSwapped ==
    << {"appeal"}, {"request"}, {"snapshot"}, {"entry"}, {"dispute"}, {"consent"},
       {"run"}, {"share"}, {"evidence"}, {"asset"}, {"shareReceived"},
       {"invoice"}, {"supplier", "work"}, {"contribution", "offer"},
       {"pledge"}, {"transfer"}, {"holding"}, {"wallet"}, {"loan"}, {"stake"},
       {"project", "projectOnAsset"}, {"recomputation"}, {"derived"}, {"agent"} >>

\* The DELETE statements in order.  A loan (a pledge to the person) and a stake
\* (units of others in the person's project) only lose their reference.
Statements ==
    << {"appeal"}, {"request"}, {"snapshot"}, {"dispute"}, {"entry"}, {"consent"},
       {"run"}, {"share"}, {"evidence"}, {"asset"}, {"shareReceived"},
       {"invoice"}, {"supplier", "work"}, {"contribution", "offer"},
       {"pledge"}, {"transfer"}, {"holding"}, {"wallet"}, {"loan"}, {"stake"},
       {"project", "projectOnAsset"}, {"recomputation"}, {"derived"}, {"agent"} >>

\* Columns whose subject an UPDATE replaces by the pseudonym, after those.
Pseudonymised == {"attestation", "decision", "appealResolution", "disputeResolution",
                  "contributionDecision", "agentReview", "invoiceVerification",
                  "evidenceAttestation"}

\* Kinds no statement deletes in time.
Unforeseen == {"proposal", "projectOnAsset", "mapItem", "agreement", "mandate",
               "agentMandate", "payment"}

VARIABLES
    rows,         \* kinds the person has committed rows of, "user" among them
    marks,        \* columns in which the person's subject is found
    step,         \* the next statement, or 0 when no deletion runs
    gone,         \* kinds the running deletion has deleted, marks it has replaced
    outcome,      \* of the last deletion
    joined        \* something was inserted while the last deletion ran

accountVars == <<rows, marks, step, gone, outcome, joined>>

Replacing == Len(Statements) + 1    \* the subject is replaced ...
Last == Replacing + 1               \* ... the user deleted, and all of it committed

AccountTypeOK ==
    /\ rows \subseteq Kinds \cup {"user"} /\ gone \subseteq Kinds \cup Marks
    /\ marks \subseteq Marks
    /\ step \in 0..Last
    /\ outcome \in {"none", "refused", "deleted"}
    /\ joined \in BOOLEAN

AccountInit ==
    /\ rows = {"user"} /\ marks = {}
    /\ step = 0 /\ gone = {}
    /\ outcome = "none" /\ joined = FALSE

-----------------------------------------------------------------------------
Traces == Cardinality(rows \ {"user"}) + Cardinality(marks)

\* Any other request of the service inserts a row.
AddRow(k) ==
    /\ k \notin rows /\ Traces < MaxTraces
    /\ Refers[k] \subseteq rows \ gone
    /\ rows' = rows \cup {k}
    /\ joined' = (joined \/ step # 0)
    /\ UNCHANGED <<marks, step, gone, outcome>>

\* Or writes the person's subject on somebody else's row.
AddMark(m) ==
    /\ "user" \in rows /\ m \notin marks /\ Traces < MaxTraces
    /\ marks' = marks \cup {m}
    /\ joined' = (joined \/ step # 0)
    /\ UNCHANGED <<rows, step, gone, outcome>>

BeginDeletion ==
    /\ "user" \in rows /\ step = 0
    /\ step' = 1 /\ joined' = FALSE /\ outcome' = "none"
    /\ UNCHANGED <<rows, marks, gone>>

\* Rows that would point at a deleted one.
Dangling(deleted) == {k \in (rows \cap Kinds) \ deleted : Refers[k] \cap deleted # {}}

Delete ==
    /\ step \in 1..Len(Statements)
    /\ LET deleted == gone \cup (Statements[step] \cap rows)
       IN  Dangling(deleted) = {} /\ gone' = deleted
    /\ step' = step + 1
    /\ UNCHANGED <<rows, marks, outcome, joined>>

ReplaceSubject ==
    /\ step = Replacing
    /\ gone' = gone \cup (marks \cap Pseudonymised)
    /\ step' = Last
    /\ UNCHANGED <<rows, marks, outcome, joined>>

Commit ==
    /\ step = Last /\ Dangling(gone \cup {"user"}) = {}
    /\ rows' = (rows \ gone) \ {"user"}
    /\ marks' = marks \ gone
    /\ step' = 0 /\ gone' = {} /\ outcome' = "deleted"
    /\ UNCHANGED joined

Refuse ==
    /\ \/ step \in 1..Len(Statements)
          /\ Dangling(gone \cup (Statements[step] \cap rows)) # {}
       \/ step = Last /\ Dangling(gone \cup {"user"}) # {}
    /\ step' = 0 /\ gone' = {} /\ outcome' = "refused"
    /\ UNCHANGED <<rows, marks, joined>>

-----------------------------------------------------------------------------
AccountNext ==
    \/ \E k \in Kinds : AddRow(k)
    \/ \E m \in Marks : AddMark(m)
    \/ BeginDeletion \/ Delete \/ ReplaceSubject \/ Commit \/ Refuse

AccountSpec == AccountInit /\ [][AccountNext]_accountVars

-----------------------------------------------------------------------------
\* Deleting an account leaves no row of the person ("delete your profile and all
\* data about you"), only the subject in columns that are not pseudonymised or that
\* were written while it ran.
\* It fails only over rows of kinds that are not deleted in time, or over what is
\* inserted while it runs: the order of its statements respects every other
\* foreign key.
DeletionIsWhole ==
    /\ outcome = "deleted" => rows = {} /\ (joined \/ marks \cap Pseudonymised = {})
    /\ outcome = "refused" => joined \/ rows \cap Unforeseen # {}

\* A person who has confirmed is deleted, unless something is inserted while that
\* goes on (docs/about/SAFEGUARDS_IN_CODE.md, Right to withdrawal: the route
\* "erases the profile and all data about the person").
Withdrawal == outcome = "refused" => joined
==============================================================================
