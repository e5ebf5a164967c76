------------------------------ MODULE Assurance ------------------------------
(***************************************************************************)
(* The evidence on one asset, proposals to change it, the holder's mandate *)
(* and the assurance agent's runs (backend/app/value/routes.py, agent.py,  *)
(* engine.py, models.py).                                                  *)
(*                                                                         *)
(* The model has one required input and one with a default; the value is   *)
(* one minus the other, and one scenario raises the second.  Weights and   *)
(* thresholds are whole percents.  Evidence for keys the model does not    *)
(* know is left out.                                                       *)
(*                                                                         *)
(* A write supersedes the current rows it sees and inserts its own in one  *)
(* transaction: it does not see what others have not committed.            *)
(***************************************************************************)
EXTENDS Integers, FiniteSets

CONSTANTS
    Rows,               \* evidence rows, in the order of recorded_at
    Reports,            \* evidence that may be recorded: key, value, whether by an attester
    Proposals,
    Proposed,           \* Proposed[p]: the key and value that p asks for
    InputWeight,        \* InputWeight[k]: share of the model that k stands for
    Runs,               \* requests to run the agent
    Mandates,           \* mandates the holder may set
    DefaultMandate,     \* default_mandate, in force until the holder sets one
    NoValue, NoRun, NoProposal

Keys == {"income", "cost"}

Actions == {"alert", "request_attestation", "request_review"}

ASSUME AssuranceAssumption ==
    /\ Rows \subseteq Nat /\ InputWeight \in [Keys -> Nat]
    /\ \A rs \in (SUBSET Rows) \ {{}} : \E e \in rs : \A f \in rs : f <= e    \* a last one
    /\ IsFiniteSet(Rows) /\ \A rs \in SUBSET Rows : NoValue # rs
    /\ Reports \subseteq [key : Keys, value : Nat, attested : BOOLEAN]
    /\ Proposed \in [Proposals -> Reports]
    /\ NoValue \notin Int
    /\ NoValue \notin [key : Keys, value : Nat, attested : BOOLEAN,
                       from : Proposals \cup {NoProposal}]
    /\ Mandates \subseteq [enabled : BOOLEAN, alert_drop_pct : Nat, min_confidence : Nat,
                           flag_liability : BOOLEAN, allowed_actions : SUBSET Actions]
    /\ DefaultMandate \in Mandates
    /\ NoRun \notin Int /\ NoProposal \notin Proposals

VARIABLES
    row,          \* row[e]: key, value, whether attested, and the proposal it comes from
    current,      \* rows with no superseded_at
    sees,         \* sees[e]: the rows e's transaction supersedes, while it runs
    proposal,     \* proposal[p]: status
    rejecting,    \* proposals that a request has found open to reject
    mandate,      \* what the holder lets the agent do
    run,          \* run[r]: what request r has read, or NoRun
    latest,       \* base value of the latest run, or NoRun before the first
    \* --- history, read by properties only ---
    beside,       \* rows written while another of the key was being
    collided,     \* proposals with two decisions in flight at once
    stirred,      \* runs while which another run ended
    force         \* force[r]: mandates in force at some time while r runs

evidenceHistory == <<beside, collided>>
evidenceVars == <<row, current, sees, proposal, rejecting>>
runVars == <<mandate, run, latest, stirred, force>>
assuranceVars == <<evidenceVars, evidenceHistory, runVars>>

Amounts == {o.value : o \in Reports} \cup {0}
Values  == {v - w : v, w \in Amounts}
Statuses == {"attested", "self_reported", "default"}
Inputs  ==
    {in \in [Keys -> [value : Amounts, status : Statuses]
                     \cup {[value |-> NoValue, status |-> "missing"]}] :
       in["cost"].value # NoValue}

AssuranceTypeOK ==
    /\ row \in [Rows ->
         [key : Keys, value : Amounts, attested : BOOLEAN, from : Proposals \cup {NoProposal}]
           \cup {NoValue}]
    /\ current \subseteq Rows
    /\ sees \in [Rows -> (SUBSET Rows) \cup {NoValue}]
    /\ proposal \in [Proposals -> {"none", "open", "accepted", "rejected"}]
    /\ rejecting \subseteq Proposals
    /\ mandate \in Mandates
    /\ run \in [Runs -> [mandate : Mandates, previous : Values \cup {NoValue, NoRun},
                         inputs : Inputs] \cup {NoRun}]
    /\ latest \in Values \cup {NoValue, NoRun}
    /\ beside \subseteq Rows /\ collided \subseteq Proposals
    /\ stirred \subseteq Runs /\ force \in [Runs -> SUBSET Mandates]

AssuranceInit ==
    /\ row = [e \in Rows |-> NoValue]
    /\ current = {} /\ sees = [e \in Rows |-> NoValue]
    /\ proposal = [p \in Proposals |-> "none"]
    /\ rejecting = {}
    /\ mandate = DefaultMandate
    /\ run = [r \in Runs |-> NoRun] /\ latest = NoRun
    /\ beside = {} /\ collided = {} /\ stirred = {}
    /\ force = [r \in Runs |-> {}]

-----------------------------------------------------------------------------
(* Evidence. *)

CurrentOf(k) == {e \in current : row[e].key = k}

Writing == {e \in Rows : sees[e] # NoValue}

\* The UPDATE of superseded_at, and the row that is to follow.
Supersede(e, o, p) ==
    /\ row[e] = NoValue /\ \A f \in Rows : f < e => row[f] # NoValue
    /\ row' = [row EXCEPT ![e] =
         [key |-> o.key, value |-> o.value, attested |-> o.attested, from |-> p]]
    /\ sees' = [sees EXCEPT ![e] = CurrentOf(o.key)]
    /\ LET rivals == {f \in Writing : row[f].key = o.key}
       IN  beside' = IF rivals = {} THEN beside ELSE beside \cup {e} \cup rivals

\* add_evidence, by the holder or an attester.
AddEvidence(e, o) ==
    /\ Supersede(e, o, NoProposal)
    /\ UNCHANGED <<current, proposal, rejecting, collided, runVars>>

\* Mutant of Superseded: what was there stays current.
SupersededNot(e) == {}

Superseded(e) == sees[e]

CommitEvidence(e) ==
    LET p == row[e].from IN
    /\ e \in Writing
    /\ current' = (current \ Superseded(e)) \cup {e}
    /\ sees' = [sees EXCEPT ![e] = NoValue]
    /\ proposal' = IF p = NoProposal THEN proposal ELSE [proposal EXCEPT ![p] = "accepted"]
    /\ UNCHANGED <<row, rejecting, evidenceHistory, runVars>>

Propose(p) ==
    /\ proposal[p] = "none"
    /\ proposal' = [proposal EXCEPT ![p] = "open"]
    /\ UNCHANGED <<row, current, sees, rejecting, evidenceHistory, runVars>>

\* Another request has found p open and not decided yet.
Deciding(p) == p \in rejecting \/ \E e \in Writing : row[e].from = p

\* decide_proposal: p is open, and becomes evidence, attested if an attester decides ...
Accept(e, p, attested) ==
    /\ proposal[p] = "open"
    /\ Supersede(e, [Proposed[p] EXCEPT !.attested = attested], p)
    /\ collided' = IF Deciding(p) THEN collided \cup {p} ELSE collided
    /\ UNCHANGED <<current, proposal, rejecting, runVars>>

\* ... or does not.
Reject(p) ==
    /\ proposal[p] = "open" /\ p \notin rejecting
    /\ rejecting' = rejecting \cup {p}
    /\ collided' = IF Deciding(p) THEN collided \cup {p} ELSE collided
    /\ UNCHANGED <<row, current, sees, proposal, beside, runVars>>

CommitReject(p) ==
    /\ p \in rejecting
    /\ rejecting' = rejecting \ {p}
    /\ proposal' = [proposal EXCEPT ![p] = "rejected"]
    /\ UNCHANGED <<row, current, sees, evidenceHistory, runVars>>

-----------------------------------------------------------------------------
(* Valuation. *)

\* gather_inputs: of the current rows of a key, the one recorded last.
LastRow(k) == CHOOSE e \in CurrentOf(k) : \A f \in CurrentOf(k) : f <= e

\* Mutant of GatherInputs: the default is not used.
GatherInputsBare ==
    [k \in Keys |->
       IF CurrentOf(k) # {}
       THEN LET e == row[LastRow(k)]
            IN  [value |-> e.value, status |-> IF e.attested THEN "attested" ELSE "self_reported"]
       ELSE [value |-> NoValue, status |-> "missing"]]

GatherInputs ==
    [k \in Keys |->
       IF CurrentOf(k) # {}
       THEN LET e == row[LastRow(k)]
            IN  [value |-> e.value, status |-> IF e.attested THEN "attested" ELSE "self_reported"]
       ELSE IF k = "cost" THEN [value |-> 0, status |-> "default"]
       ELSE [value |-> NoValue, status |-> "missing"]]

Complete(in)     == in["income"].status # "missing"
ValueFrom(in)    == in["income"].value - in["cost"].value
ApplyChanges(in) == [in EXCEPT !["cost"].value = @ + 1]
BaseValue(in)    == IF Complete(in) THEN ValueFrom(in) ELSE NoValue

\* Share of the model that rests on attested evidence.
Confidence(in) ==
    LET Backed(k) == IF in[k].status = "attested" THEN InputWeight[k] ELSE 0
    IN  Backed("income") + Backed("cost")

Absolute(v) == IF v < 0 THEN -v ELSE v

\* More than alert_drop_pct below a previous value that is there and not 0.
Dropped(previous, v, pct) ==
    /\ previous \notin {NoRun, NoValue} /\ previous # 0
    /\ 100 * (previous - v) > pct * Absolute(previous)

\* Mutant of Candidates: liabilities are flagged whatever the mandate says.
CandidatesFlagged(m, previous, in) ==
    (IF ~Complete(in) THEN {"request_attestation"}
     ELSE (IF Dropped(previous, ValueFrom(in), m.alert_drop_pct) THEN {"alert"} ELSE {}) \cup
          (IF ValueFrom(in) < 0 THEN {"request_review"}
           ELSE IF ValueFrom(ApplyChanges(in)) < 0 THEN {"alert"} ELSE {})) \cup
    (IF Confidence(in) < m.min_confidence THEN {"request_attestation"} ELSE {})

\* What a run finds worth an action.
Candidates(m, previous, in) ==
    (IF ~Complete(in) THEN {"request_attestation"}
     ELSE (IF Dropped(previous, ValueFrom(in), m.alert_drop_pct) THEN {"alert"} ELSE {}) \cup
          (IF ~m.flag_liability THEN {}
           ELSE IF ValueFrom(in) < 0 THEN {"request_review"}
           ELSE IF ValueFrom(ApplyChanges(in)) < 0 THEN {"alert"} ELSE {})) \cup
    (IF Confidence(in) < m.min_confidence THEN {"request_attestation"} ELSE {})

-----------------------------------------------------------------------------
(* The mandate and the runs. *)

SetMandate(m) ==
    /\ mandate' = m
    /\ force' = [r \in Runs |-> IF run[r] = NoRun THEN {} ELSE force[r] \cup {m}]
    /\ UNCHANGED <<evidenceVars, evidenceHistory, run, latest, stirred>>

\* The asset, the latest run and the evidence are read ...
ReadForRun(r) ==
    /\ run[r] = NoRun
    /\ run' = [run EXCEPT ![r] =
         [mandate |-> mandate, previous |-> latest, inputs |-> GatherInputs]]
    /\ force' = [force EXCEPT ![r] = {mandate}]
    /\ stirred' = stirred \ {r}
    /\ UNCHANGED <<evidenceVars, evidenceHistory, mandate, latest>>

\* Mutants of Taken: a fall is not looked at unless the asset ends as a liability; a
\* mandate that allows one action allows them all.
TakenOnStress(j) ==
    IF ~j.mandate.enabled THEN {}
    ELSE Candidates(j.mandate, NoRun, j.inputs) \cap j.mandate.allowed_actions
TakenAtLarge(j) ==
    IF ~j.mandate.enabled \/ j.mandate.allowed_actions = {} THEN {}
    ELSE Candidates(j.mandate, j.previous, j.inputs)

\* What it does of that, and records with the run.
Taken(j) ==
    IF ~j.mandate.enabled THEN {}
    ELSE Candidates(j.mandate, j.previous, j.inputs) \cap j.mandate.allowed_actions

\* ... and the new run is inserted.
CommitRun(r) ==
    /\ run[r] # NoRun
    /\ latest' = BaseValue(run[r].inputs)
    /\ run' = [run EXCEPT ![r] = NoRun]
    /\ stirred' = (stirred \cup {q \in Runs : run[q] # NoRun}) \ {r}
    /\ force' = [force EXCEPT ![r] = {}]
    /\ UNCHANGED <<evidenceVars, evidenceHistory, mandate>>

-----------------------------------------------------------------------------
AssuranceNext ==
    \/ \E e \in Rows :
         \/ \E o \in Reports : AddEvidence(e, o)
         \/ \E p \in Proposals, attested \in BOOLEAN : Accept(e, p, attested)
         \/ CommitEvidence(e)
    \/ \E p \in Proposals : Propose(p) \/ Reject(p) \/ CommitReject(p)
    \/ \E m \in Mandates : SetMandate(m)
    \/ \E r \in Runs : ReadForRun(r) \/ CommitRun(r)

AssuranceSpec == AssuranceInit /\ [][AssuranceNext]_assuranceVars

-----------------------------------------------------------------------------
\* A row whose write overlapped no other of its key is the only current one ("Newer
\* evidence for the same key supersedes older"): what an overlap left behind goes with
\* the next write that overlaps none.  A proposal is accepted exactly when one row comes
\* from it ("A proposal is not evidence"), unless two decisions on it overlapped.
EvidenceIsSettled ==
    /\ \A e \in current \ beside : CurrentOf(row[e].key) = {e}
    /\ \A p \in Proposals \ collided :
         Cardinality({e \in Rows \ Writing : row[e] # NoValue /\ row[e].from = p})
           = IF proposal[p] = "accepted" THEN 1 ELSE 0

\* Only a mandate that flags liabilities lets the agent ask for a review.
Permits(m, k) ==
    m.enabled /\ k \in m.allowed_actions /\ (k = "request_review" => m.flag_liability)

\* What m has the holder expect when the base value goes from previous to v: an alert of
\* a fall from other than nothing, a review of a liability, attestation of what is missing.
CallsFor(m, k, previous, v) ==
    \/ k = "alert" /\ {previous, v} \subseteq Values /\ previous # 0
         /\ 100 * (previous - v) > m.alert_drop_pct * Absolute(previous)
    \/ k = "request_review" /\ v \in Values /\ v < 0
    \/ k = "request_attestation" /\ v = NoValue

\* A run takes an action only if a mandate in force at some time while it ran permits
\* it, however the holder changes the mandate and whatever other runs do ("The agent
\* acts only within the holder's explicit mandate").  And it takes the action that every
\* mandate in force meanwhile permits and calls for, where a fall is one since the run
\* before in the record: this unless another run ended in between.
ActsAsMandated ==
    [][\A r \in Runs : run[r] # NoRun /\ run'[r] = NoRun =>
         /\ \A k \in Taken(run[r]) : \E m \in force[r] : Permits(m, k)
         /\ \A k \in Actions :
              /\ r \in stirred => k # "alert"
              /\ \A m \in force[r] : Permits(m, k) /\ CallsFor(m, k, latest, latest')
              => k \in Taken(run[r])]_assuranceVars
==============================================================================
