---------------------------- MODULE ValueProofs -----------------------------
(***************************************************************************)
(* What holds of an asset's evidence, its agent's runs, the documents      *)
(* nodes hand each other and a search through peers, for any assets, nodes *)
(* and requests: theorems of Assurance, Exchange and PathSearch.           *)
(***************************************************************************)
EXTENDS Assurance, Exchange, PathSearch, SumTheorems, FiniteSetTheorems,
        SequenceTheorems, TLAPS

-----------------------------------------------------------------------------
(* Assurance: types. *)

LEMMA AmountsTyped ==
    /\ Amounts \subseteq Nat /\ 0 \in Amounts /\ NoValue \notin Amounts
    /\ \A o \in Reports : o.key \in Keys /\ o.value \in Amounts /\ o.attested \in BOOLEAN
    /\ \A p \in Proposals : Proposed[p] \in Reports
    /\ \A v, w \in Amounts : v - w \in Values
    /\ Values \subseteq Int /\ NoValue \notin Values /\ NoRun \notin Values
<1>1. Amounts \subseteq Nat
  BY AssuranceAssumption DEF Amounts
<1>2. Values \subseteq Int
  BY <1>1 DEF Values
<1>3. NoValue \notin Int /\ NoRun \notin Int
  BY AssuranceAssumption
<1>4. NoValue \notin Values /\ NoRun \notin Values
  BY <1>2, <1>3
<1>7. NoValue \notin Amounts
  <2>1. Amounts \subseteq Int
    BY <1>1
  <2> QED
    BY <1>3, <2>1
<1>5. \A o \in Reports : o.key \in Keys /\ o.value \in Amounts /\ o.attested \in BOOLEAN
  BY AssuranceAssumption DEF Amounts
<1>6. \A p \in Proposals : Proposed[p] \in Reports
  BY AssuranceAssumption
<1> QED
  BY <1>1, <1>2, <1>4, <1>5, <1>6, <1>7 DEF Amounts, Values

\* The rows of a current key have been written, and one of them is the last.
LEMMA InputsTyped ==
    ASSUME AssuranceTypeOK, \A e \in current : row[e] # NoValue
    PROVE  GatherInputs \in Inputs
<1> DEFINE Known == [value : Amounts, status : Statuses]
           Missing == [value |-> NoValue, status |-> "missing"]
<1> SUFFICES ASSUME NEW k \in Keys
             PROVE  /\ GatherInputs[k] \in Known \cup {Missing}
                    /\ k = "cost" => GatherInputs[k].value # NoValue
  BY DEF GatherInputs, Inputs, Keys
<1>1. CASE CurrentOf(k) # {}
  <2>1. CurrentOf(k) \in (SUBSET Rows) \ {{}}
    BY <1>1 DEF AssuranceTypeOK, CurrentOf
  <2>2. LastRow(k) \in CurrentOf(k)
    BY <2>1, AssuranceAssumption DEF LastRow
  <2>3. row[LastRow(k)].value \in Amounts
    BY <2>2 DEF AssuranceTypeOK, CurrentOf
  <2>4. GatherInputs[k]
          = [value |-> row[LastRow(k)].value,
             status |-> IF row[LastRow(k)].attested THEN "attested" ELSE "self_reported"]
    BY <1>1 DEF GatherInputs
  <2> QED
    BY <2>3, <2>4, AmountsTyped DEF Statuses
<1>2. CASE CurrentOf(k) = {}
  <2>1. GatherInputs[k] = IF k = "cost" THEN [value |-> 0, status |-> "default"] ELSE Missing
    BY <1>2 DEF GatherInputs
  <2> QED
    BY <2>1, AmountsTyped DEF Statuses
<1> QED
  BY <1>1, <1>2

RowTypes == [key : Keys, value : Amounts, attested : BOOLEAN,
             from : Proposals \cup {NoProposal}]

\* What becomes a row: a report, or what a proposal asks for.
Recorded == [key : Keys, value : Amounts, attested : BOOLEAN]

LEMMA EvidenceTyped ==
    /\ Reports \subseteq Recorded
    /\ \A p \in Proposals : \A b \in BOOLEAN : [Proposed[p] EXCEPT !.attested = b] \in Recorded
<1>1. Reports \subseteq Recorded
  BY AmountsTyped, AssuranceAssumption DEF Recorded
<1> QED
  BY <1>1, AmountsTyped DEF Recorded

AssuranceTyped ==
    /\ AssuranceTypeOK
    /\ \A e \in current \cup Writing : row[e] # NoValue

LEMMA AssuranceNextType == AssuranceTyped /\ [AssuranceNext]_assuranceVars => AssuranceTyped'
<1> SUFFICES ASSUME AssuranceTyped, [AssuranceNext]_assuranceVars PROVE AssuranceTyped'
  OBVIOUS
<1> USE AmountsTyped DEF evidenceHistory, evidenceVars, runVars
<1>a. ASSUME NEW e \in Rows, NEW o \in Recorded, NEW p \in Proposals \cup {NoProposal},
             Supersede(e, o, p), current' = current, AssuranceTypeOK
      PROVE  /\ row' \in [Rows -> RowTypes \cup {NoValue}]
             /\ sees' \in [Rows -> (SUBSET Rows) \cup {NoValue}]
             /\ beside' \subseteq Rows
             /\ \A f \in current' \cup Writing' : row'[f] # NoValue
  <2> DEFINE new == [key |-> o.key, value |-> o.value, attested |-> o.attested, from |-> p]
  <2>1. new \in RowTypes
    BY DEF RowTypes, Recorded
  <2>2. new # NoValue
    BY <2>1, AssuranceAssumption DEF RowTypes
  <2> HIDE DEF new
  <2>3. row' = [row EXCEPT ![e] = new] /\ row[e] = NoValue
    BY <1>a DEF Supersede, new
  <2>4. CurrentOf(o.key) \in SUBSET Rows
    BY <1>a DEF AssuranceTypeOK, CurrentOf
  <2>5. sees' \in [Rows -> (SUBSET Rows) \cup {NoValue}] /\ \A f \in Rows \ {e} : sees'[f] = sees[f]
    BY <1>a, <2>4 DEF Supersede, AssuranceTypeOK
  <2>6. beside' \subseteq Rows
    BY <1>a DEF Supersede, AssuranceTypeOK, Writing
  <2> QED
    BY <1>a, <2>1, <2>2, <2>3, <2>5, <2>6 DEF RowTypes, AssuranceTypeOK, AssuranceTyped, Writing
<1>1. ASSUME NEW e \in Rows, NEW o \in Reports, AddEvidence(e, o) PROVE AssuranceTyped'
  BY <1>1, <1>a, EvidenceTyped DEF AddEvidence, AssuranceTyped, AssuranceTypeOK, RowTypes
<1>2. ASSUME NEW e \in Rows, NEW p \in Proposals, NEW b \in BOOLEAN, Accept(e, p, b)
      PROVE  AssuranceTyped'
  <2>1. /\ [Proposed[p] EXCEPT !.attested = b] \in Recorded
        /\ Supersede(e, [Proposed[p] EXCEPT !.attested = b], p)
    BY <1>2, EvidenceTyped DEF Accept
  <2> QED
    BY <1>2, <1>a, <2>1 DEF Accept, AssuranceTyped, AssuranceTypeOK, RowTypes
<1>3. ASSUME NEW e \in Rows, CommitEvidence(e) PROVE AssuranceTyped'
  BY <1>3 DEF CommitEvidence, Superseded, AssuranceTyped, AssuranceTypeOK, Writing
<1>4. ASSUME NEW p \in Proposals, Propose(p) \/ Reject(p) \/ CommitReject(p) PROVE AssuranceTyped'
  BY <1>4 DEF Propose, Reject, CommitReject, AssuranceTyped, AssuranceTypeOK, Writing
<1>5. ASSUME NEW m \in Mandates, SetMandate(m) PROVE AssuranceTyped'
  BY <1>5 DEF SetMandate, AssuranceTyped, AssuranceTypeOK, Writing
<1>6. ASSUME NEW r \in Runs, ReadForRun(r) PROVE AssuranceTyped'
  BY <1>6, InputsTyped DEF ReadForRun, AssuranceTyped, AssuranceTypeOK, Writing
<1>7. ASSUME NEW r \in Runs, CommitRun(r) PROVE AssuranceTyped'
  <2>1. run[r].inputs \in Inputs
    BY <1>7 DEF CommitRun, AssuranceTyped, AssuranceTypeOK
  <2>2. BaseValue(run[r].inputs) \in Values \cup {NoValue}
    <3> DEFINE in == run[r].inputs
    <3>1. CASE Complete(in)
      <4>1. in["income"].value \in Amounts /\ in["cost"].value \in Amounts
        BY <2>1, <3>1 DEF Complete, Inputs, Keys
      <4>2. ValueFrom(in) \in Values
        BY <4>1 DEF ValueFrom
      <4> QED
        BY <3>1, <4>2 DEF BaseValue
    <3> QED
      BY <2>1, <3>1 DEF BaseValue
  <2> QED
    BY <1>7, <2>2 DEF CommitRun, AssuranceTyped, AssuranceTypeOK, Writing
<1>8. CASE UNCHANGED assuranceVars
  BY <1>8 DEF assuranceVars, AssuranceTyped, AssuranceTypeOK, Writing
<1> QED
  BY <1>1, <1>2, <1>3, <1>4, <1>5, <1>6, <1>7, <1>8 DEF AssuranceNext

LEMMA AssuranceInitType == AssuranceInit => AssuranceTyped
BY AmountsTyped, AssuranceAssumption DEF AssuranceInit, AssuranceTyped, AssuranceTypeOK, Writing

\* Every variable of an asset keeps its type: a cost has a default, an income need not.
THEOREM AssuranceTypeCorrect == AssuranceSpec => []AssuranceTypeOK
<1>1. AssuranceSpec => []AssuranceTyped
  BY AssuranceInitType, AssuranceNextType, PTL DEF AssuranceSpec
<1> QED
  BY <1>1, PTL DEF AssuranceTyped

-----------------------------------------------------------------------------
(* Assurance: the agent and its mandate. *)

\* The mandate that a run has read is one of those in force while it runs; what it has
\* read of the latest run is still so unless another run has ended.
RunsKnow ==
    \A r \in Runs : run[r] # NoRun =>
      /\ run[r].mandate \in force[r]
      /\ r \notin stirred => run[r].previous = latest

RunInv == AssuranceTyped /\ RunsKnow

\* What a mandate calls for is among what a run under it finds.
LEMMA CallIsHeard ==
    ASSUME NEW m \in Mandates, NEW in \in Inputs, NEW k, NEW previous, NEW latestValue,
           CallsFor(m, k, latestValue, BaseValue(in)), k = "alert" => previous = latestValue
    PROVE  k \in Candidates(m, previous, in) \/ (k = "request_review" /\ ~m.flag_liability)
<1>1. CASE k = "request_attestation" /\ BaseValue(in) = NoValue
  <2>1. ~Complete(in)
    <3> SUFFICES ASSUME Complete(in) PROVE FALSE
      OBVIOUS
    <3>1. BaseValue(in) = ValueFrom(in)
      BY DEF BaseValue
    <3>2. in["income"].value \in Amounts /\ in["cost"].value \in Amounts
      BY AmountsTyped DEF Complete, Inputs, Keys
    <3> QED
      BY <1>1, <3>1, <3>2, AmountsTyped DEF ValueFrom
  <2> QED
    BY <1>1, <2>1 DEF Candidates
<1>2. CASE BaseValue(in) \in Values
  <2>1. Complete(in) /\ BaseValue(in) = ValueFrom(in)
    BY <1>2, AmountsTyped DEF BaseValue
  <2>2. CASE k = "alert"
    <3>1. /\ previous = latestValue /\ previous \in Values /\ previous # 0
          /\ 100 * (previous - ValueFrom(in)) > m.alert_drop_pct * Absolute(previous)
      BY <2>1, <2>2 DEF CallsFor
    <3>2. previous \notin {NoRun, NoValue}
      BY <3>1, AmountsTyped
    <3>3. Dropped(previous, ValueFrom(in), m.alert_drop_pct)
      BY <3>1, <3>2 DEF Dropped
    <3> QED
      BY <2>1, <2>2, <3>3 DEF Candidates
  <2>3. CASE k = "request_review" /\ ValueFrom(in) < 0
    BY <2>1, <2>3 DEF Candidates
  <2>4. k # "request_attestation" \/ BaseValue(in) = NoValue
    BY DEF CallsFor
  <2> QED
    BY <1>1, <2>1, <2>2, <2>3, <2>4 DEF CallsFor
<1> QED
  BY <1>1, <1>2 DEF CallsFor

LEMMA RunsKept == RunInv /\ [AssuranceNext]_assuranceVars => RunInv'
<1> SUFFICES ASSUME RunInv, [AssuranceNext]_assuranceVars PROVE RunInv'
  OBVIOUS
<1>a. AssuranceTyped /\ AssuranceTyped' /\ RunsKnow
  BY AssuranceNextType DEF RunInv
<1> USE DEF evidenceHistory, evidenceVars, runVars
<1>b. ASSUME UNCHANGED runVars PROVE RunInv'
  BY <1>a, <1>b DEF RunInv, RunsKnow
<1>1. ASSUME NEW e \in Rows, NEW o \in Reports, AddEvidence(e, o) PROVE RunInv'
  BY <1>1, <1>b DEF AddEvidence
<1>2. ASSUME NEW e \in Rows, NEW p \in Proposals, NEW b \in BOOLEAN, Accept(e, p, b) PROVE RunInv'
  BY <1>2, <1>b DEF Accept
<1>3. ASSUME NEW e \in Rows, CommitEvidence(e) PROVE RunInv'
  BY <1>3, <1>b DEF CommitEvidence
<1>4. ASSUME NEW p \in Proposals, Propose(p) \/ Reject(p) \/ CommitReject(p) PROVE RunInv'
  BY <1>4, <1>b DEF Propose, Reject, CommitReject
<1>5. ASSUME NEW m \in Mandates, SetMandate(m) PROVE RunInv'
  BY <1>a, <1>5 DEF SetMandate, RunInv, RunsKnow
<1>6. ASSUME NEW r \in Runs, ReadForRun(r) PROVE RunInv'
  <2>1. /\ run'[r].mandate = mandate /\ run'[r].previous = latest /\ force'[r] = {mandate}
        /\ \A q \in Runs \ {r} : run'[q] = run[q] /\ force'[q] = force[q]
        /\ stirred' = stirred \ {r} /\ latest' = latest
    BY <1>6, <1>a DEF ReadForRun, AssuranceTyped, AssuranceTypeOK
  <2> QED
    BY <1>a, <2>1 DEF RunInv, RunsKnow
<1>7. ASSUME NEW r \in Runs, CommitRun(r) PROVE RunInv'
  <2>1. /\ run'[r] = NoRun
        /\ \A q \in Runs \ {r} : run'[q] = run[q] /\ force'[q] = force[q]
        /\ \A q \in Runs \ {r} : run[q] # NoRun => q \in stirred'
    BY <1>7, <1>a DEF CommitRun, AssuranceTyped, AssuranceTypeOK
  <2> QED
    BY <1>a, <2>1 DEF RunInv, RunsKnow
<1>8. CASE UNCHANGED assuranceVars
  BY <1>8, <1>b DEF assuranceVars
<1> QED
  BY <1>1, <1>2, <1>3, <1>4, <1>5, <1>6, <1>7, <1>8 DEF AssuranceNext

\* Only the commit of a run ends it.
LEMMA RunEnds ==
    ASSUME AssuranceTyped, [AssuranceNext]_assuranceVars,
           NEW r \in Runs, run[r] # NoRun, run'[r] = NoRun
    PROVE  CommitRun(r)
<1> USE DEF evidenceHistory, evidenceVars, runVars, assuranceVars
<1>1. ASSUME NEW q \in Runs, ReadForRun(q) PROVE CommitRun(r)
  <2>1. /\ q # r /\ run'[r] = run[r]
    BY <1>1 DEF ReadForRun, AssuranceTyped, AssuranceTypeOK
  <2> QED
    BY <2>1
<1>2. ASSUME NEW q \in Runs, CommitRun(q) PROVE CommitRun(r)
  BY <1>2 DEF CommitRun, AssuranceTyped, AssuranceTypeOK
<1> QED
  BY <1>1, <1>2
  DEF AssuranceNext, AddEvidence, Accept, CommitEvidence, Propose, Reject, CommitReject,
      SetMandate

\* The assurance agent does only what a mandate in force meanwhile permits, and what
\* they all permit and call for it does: for any evidence, any mandates that the holder
\* sets at any time, and any number of runs.
THEOREM ActsAsMandatedHolds == AssuranceSpec => ActsAsMandated
<1>1. AssuranceInit => RunInv
  BY AssuranceInitType DEF AssuranceInit, RunInv, RunsKnow
<1> DEFINE Step ==
      \A r \in Runs : run[r] # NoRun /\ run'[r] = NoRun =>
         /\ \A k \in Taken(run[r]) : \E m \in force[r] : Permits(m, k)
         /\ \A k \in Actions :
              /\ r \in stirred => k # "alert"
              /\ \A m \in force[r] : Permits(m, k) /\ CallsFor(m, k, latest, latest')
              => k \in Taken(run[r])
<1>2. ASSUME RunInv, [AssuranceNext]_assuranceVars PROVE Step
  <2> SUFFICES ASSUME NEW r \in Runs, run[r] # NoRun, run'[r] = NoRun
               PROVE  /\ \A k \in Taken(run[r]) : \E m \in force[r] : Permits(m, k)
                      /\ \A k \in Actions :
                           /\ r \in stirred => k # "alert"
                           /\ \A m \in force[r] :
                                Permits(m, k) /\ CallsFor(m, k, latest, latest')
                           => k \in Taken(run[r])
    OBVIOUS
  <2> DEFINE mine == run[r].mandate
  <2>1. CommitRun(r) /\ latest' = BaseValue(run[r].inputs)
    BY <1>2, RunEnds DEF RunInv, CommitRun
  <2>2. /\ mine \in force[r] /\ mine \in Mandates /\ run[r].inputs \in Inputs
        /\ r \notin stirred => run[r].previous = latest
    BY <1>2 DEF RunInv, RunsKnow, AssuranceTyped, AssuranceTypeOK
  <2>3. ASSUME NEW k \in Taken(run[r]) PROVE Permits(mine, k)
    <3>1. /\ mine.enabled /\ k \in mine.allowed_actions
          /\ k \in Candidates(mine, run[r].previous, run[r].inputs)
      BY <2>3 DEF Taken
    <3>2. k = "request_review" => mine.flag_liability
      BY <3>1 DEF Candidates
    <3> QED
      BY <3>1, <3>2 DEF Permits
  <2>4. ASSUME NEW k \in Actions, r \in stirred => k # "alert",
               \A m \in force[r] : Permits(m, k) /\ CallsFor(m, k, latest, latest')
        PROVE  k \in Taken(run[r])
    <3>1. Permits(mine, k) /\ CallsFor(mine, k, latest, BaseValue(run[r].inputs))
      BY <2>1, <2>2, <2>4
    <3>2. k = "alert" => run[r].previous = latest
      BY <2>2, <2>4
    <3>3. k \in Candidates(mine, run[r].previous, run[r].inputs)
      BY <2>2, <3>1, <3>2, CallIsHeard DEF Permits
    <3> QED
      BY <3>1, <3>3 DEF Taken, Permits
  <2> QED
    BY <2>2, <2>3, <2>4
<1>3. RunInv /\ [AssuranceNext]_assuranceVars => [Step]_assuranceVars
  BY <1>2
<1> QED
  BY <1>1, <1>3, RunsKept, PTL DEF AssuranceSpec, ActsAsMandated

-----------------------------------------------------------------------------
(* Assurance: rows and decisions. *)

From(p) == {e \in Rows \ Writing : row[e] # NoValue /\ row[e].from = p}

\* A row that overlapped no other of its key is the only current one, and is superseded
\* by whatever is being written; a transaction that overlaps no other of its key
\* supersedes every current row of the key for as long as it runs.
RowsApart ==
    /\ \A e \in current \ beside : \A f \in current : row[f].key = row[e].key => f = e
    /\ \A e \in Writing : CurrentOf(row[e].key) \ beside \subseteq sees[e]
    /\ \A e \in Writing \ beside :
         /\ \A f \in Writing : row[f].key = row[e].key => f = e
         /\ CurrentOf(row[e].key) \subseteq sees[e]

\* A proposal whose decisions did not overlap has one decision at most under way, and
\* is open until that commits.
Accepting(p) == {e \in Writing : row[e].from = p}

DecisionApart(p) ==
    /\ Accepting(p) # {} => /\ proposal[p] = "open" /\ p \notin rejecting
                            /\ \A e, f \in Accepting(p) : e = f
    /\ p \in rejecting => proposal[p] = "open"
    /\ proposal[p] # "accepted" => From(p) = {}
    /\ proposal[p] = "accepted" => \E e : From(p) = {e}

DecisionsApart == \A p \in Proposals \ collided : DecisionApart(p)

EvidenceInv == AssuranceTyped /\ RowsApart /\ DecisionsApart

\* What the UPDATE of superseded_at does, row by row.
LEMMA SupersedeFacts ==
    ASSUME AssuranceTyped, NEW e \in Rows, NEW o \in Recorded, NEW p, Supersede(e, o, p)
    PROVE  /\ e \notin Writing /\ e \notin current /\ Writing' = Writing \cup {e}
           /\ row'[e].key = o.key /\ row'[e].from = p
           /\ \A f \in Rows \ {e} : row'[f] = row[f] /\ sees'[f] = sees[f]
           /\ sees'[e] = CurrentOf(o.key)
           /\ beside \subseteq beside'
           /\ \A f \in Writing : row[f].key = o.key => {e, f} \subseteq beside'
<1>1. CurrentOf(o.key) \in SUBSET Rows
  BY DEF CurrentOf, AssuranceTyped, AssuranceTypeOK
<1>2. CurrentOf(o.key) # NoValue
  BY <1>1, AssuranceAssumption
<1>3. e \notin Writing /\ e \notin current
  BY DEF Supersede, AssuranceTyped
<1>4. /\ \A f \in Rows \ {e} : row'[f] = row[f] /\ sees'[f] = sees[f]
      /\ sees'[e] = CurrentOf(o.key)
      /\ row'[e].key = o.key /\ row'[e].from = p
  BY DEF Supersede, AssuranceTyped, AssuranceTypeOK
<1>5. Writing' = Writing \cup {e}
  BY <1>2, <1>4 DEF Writing
<1>6. beside \subseteq beside' /\ \A f \in Writing : row[f].key = o.key => {e, f} \subseteq beside'
  <2> DEFINE rivals == {f \in Writing : row[f].key = o.key}
  <2>1. beside' = IF rivals = {} THEN beside ELSE beside \cup {e} \cup rivals
    BY DEF Supersede
  <2> QED
    BY <2>1
<1> QED
  BY <1>3, <1>4, <1>5, <1>6

LEMMA SupersedeKeepsRows ==
    ASSUME EvidenceInv, NEW e \in Rows, NEW o \in Recorded, NEW p, Supersede(e, o, p),
           current' = current
    PROVE  /\ RowsApart'
           /\ \A x \in Proposals : From(x)' = From(x)
<1>1. AssuranceTyped /\ RowsApart /\ current \subseteq Rows
  BY DEF EvidenceInv, AssuranceTyped, AssuranceTypeOK
<1> DEFINE S == Supersede(e, o, p)
<1>2. S
  OBVIOUS
<1> HIDE DEF S
<1>3. /\ e \notin Writing /\ e \notin current /\ Writing' = Writing \cup {e}
      /\ row'[e].key = o.key /\ row'[e].from = p
      /\ \A f \in Rows \ {e} : row'[f] = row[f] /\ sees'[f] = sees[f]
      /\ sees'[e] = CurrentOf(o.key) /\ beside \subseteq beside'
      /\ \A f \in Writing : row[f].key = o.key => {e, f} \subseteq beside'
  BY <1>1, SupersedeFacts
<1>4. \A f \in current : row'[f] = row[f]
  BY <1>1, <1>3
<1>5. \A f \in current' \ beside' : \A g \in current' : row'[g].key = row'[f].key => g = f
  BY <1>1, <1>3, <1>4 DEF RowsApart
<1>9. ASSUME NEW f \in Writing' PROVE (CurrentOf(row[f].key) \ beside)' \subseteq sees'[f]
  <2>1. CASE f = e
    BY <1>1, <1>3, <1>4, <2>1 DEF CurrentOf
  <2>2. CASE f # e
    <3>1. f \in Writing /\ f \in Rows /\ row'[f] = row[f] /\ sees'[f] = sees[f]
      BY <1>3, <1>9, <2>2 DEF Writing
    <3>2. (CurrentOf(row[f].key) \ beside)' \subseteq CurrentOf(row[f].key) \ beside
      BY <1>3, <1>4, <3>1 DEF CurrentOf
    <3> QED
      BY <1>1, <3>1, <3>2 DEF RowsApart
  <2> QED
    BY <2>1, <2>2
<1>6. ASSUME NEW f \in Writing' \ beside'
      PROVE  /\ \A g \in Writing' : row'[g].key = row'[f].key => g = f
             /\ CurrentOf(row[f].key)' \subseteq sees'[f]
  <2>1. Writing \subseteq Rows
    BY DEF Writing
  <2>2. CASE f = e
    <3>1. CurrentOf(row[f].key)' = CurrentOf(o.key)
      BY <1>1, <1>3, <2>2 DEF CurrentOf
    <3> QED
      BY <1>3, <2>1, <1>6, <2>2, <3>1
  <2>3. CASE f # e
    <3>1. f \in Writing \ beside /\ row'[f] = row[f] /\ sees'[f] = sees[f]
      BY <1>3, <1>6, <2>1, <2>3
    <3>2. row[f].key # o.key
      BY <1>3, <1>6, <3>1
    <3>3. \A g \in Writing' : row'[g].key = row'[f].key => g \in Writing /\ row'[g] = row[g]
      BY <1>3, <2>1, <3>1, <3>2
    <3>4. CurrentOf(row[f].key)' = CurrentOf(row[f].key)
      BY <1>1, <1>3, <3>1 DEF CurrentOf
    <3> QED
      BY <1>1, <3>1, <3>3, <3>4 DEF RowsApart
  <2> QED
    BY <2>2, <2>3
<1>7. RowsApart'
  BY <1>5, <1>6, <1>9 DEF RowsApart
<1>8. ASSUME NEW x \in Proposals PROVE From(x)' = From(x)
  <2>1. row[e] = NoValue
    BY DEF Supersede
  <2> QED
    BY <1>3, <2>1 DEF From
<1> QED
  BY <1>7, <1>8

LEMMA EvidenceCommitted ==
    ASSUME EvidenceInv, NEW e \in Rows, CommitEvidence(e)
    PROVE  RowsApart' /\ DecisionsApart'
<1> DEFINE q == row[e].from
<1>1. /\ AssuranceTyped /\ RowsApart /\ DecisionsApart
      /\ current \subseteq Rows /\ e \in Writing /\ Writing \subseteq Rows
  BY DEF EvidenceInv, AssuranceTyped, AssuranceTypeOK, CommitEvidence, Writing
<1>2. /\ current' = (current \ sees[e]) \cup {e}
      /\ \A f \in Rows \ {e} : sees'[f] = sees[f]
      /\ Writing' = Writing \ {e}
      /\ row' = row /\ beside' = beside /\ collided' = collided /\ rejecting' = rejecting
  BY <1>1 DEF CommitEvidence, Superseded, Writing, evidenceHistory, AssuranceTyped,
     AssuranceTypeOK
<1>3. \A p \in Proposals : proposal'[p] = IF p = q THEN "accepted" ELSE proposal[p]
  BY <1>1, AssuranceAssumption DEF CommitEvidence, AssuranceTyped, AssuranceTypeOK
<1>4. row[e] # NoValue
  BY <1>1 DEF AssuranceTyped
<1>5. \A p \in Proposals : From(p)' = IF p = q THEN From(p) \cup {e} ELSE From(p)
  BY <1>1, <1>2, <1>4 DEF From
<1> HIDE DEF q
<1>6. RowsApart'
  <2>1. \A f \in current' \ beside' : \A g \in current' : row'[g].key = row'[f].key => g = f
    <3>1. e \notin beside => \A f \in current : row[f].key = row[e].key => f \in sees[e]
      BY <1>1 DEF RowsApart, CurrentOf
    <3>2. \A f \in current \ beside : row[f].key = row[e].key => f \in sees[e]
      BY <1>1 DEF RowsApart, CurrentOf
    <3> QED
      BY <1>1, <1>2, <3>1, <3>2 DEF RowsApart
  <2>3. ASSUME NEW f \in Writing' PROVE (CurrentOf(row[f].key) \ beside)' \subseteq sees'[f]
    <3>1. f \in Writing /\ f # e /\ sees'[f] = sees[f]
      BY <1>1, <1>2, <2>3
    <3>2. row[f].key = row[e].key => e \in beside
      BY <1>1, <3>1 DEF RowsApart
    <3>3. (CurrentOf(row[f].key) \ beside)' \subseteq CurrentOf(row[f].key) \ beside
      BY <1>2, <3>2 DEF CurrentOf
    <3> QED
      BY <1>1, <3>1, <3>3 DEF RowsApart
  <2>2. ASSUME NEW f \in Writing' \ beside'
        PROVE  /\ \A g \in Writing' : row'[g].key = row'[f].key => g = f
               /\ CurrentOf(row[f].key)' \subseteq sees'[f]
    <3>1. /\ f \in Writing \ beside /\ f # e /\ sees'[f] = sees[f]
          /\ row[e].key # row[f].key
      BY <1>1, <1>2, <2>2 DEF RowsApart
    <3>2. CurrentOf(row[f].key)' \subseteq CurrentOf(row[f].key)
      BY <1>2, <3>1 DEF CurrentOf
    <3> QED
      BY <1>1, <1>2, <3>1, <3>2 DEF RowsApart
  <2> QED
    BY <2>1, <2>2, <2>3 DEF RowsApart
<1>7. DecisionsApart'
  <2> SUFFICES ASSUME NEW p \in Proposals \ collided PROVE DecisionApart(p)'
    BY <1>2 DEF DecisionsApart
  <2>1. DecisionApart(p)
    BY <1>1 DEF DecisionsApart
  <2>2. CASE p = q
    <3>1. e \in Accepting(p)
      BY <1>1, <2>2 DEF Accepting, q
    <3>2. proposal[p] = "open" /\ p \notin rejecting /\ Accepting(p) = {e} /\ From(p) = {}
      BY <2>1, <3>1 DEF DecisionApart
    <3>3. From(p)' = {e} /\ Accepting(p)' = {}
      BY <1>2, <1>5, <2>2, <3>2 DEF Accepting
    <3> QED
      BY <1>2, <1>3, <2>2, <3>2, <3>3 DEF DecisionApart
  <2>3. CASE p # q
    <3>1. From(p)' = From(p) /\ Accepting(p)' = Accepting(p) /\ proposal'[p] = proposal[p]
      BY <1>2, <1>3, <1>5, <2>3 DEF Accepting, q
    <3> QED
      BY <1>2, <2>1, <3>1 DEF DecisionApart
  <2> QED
    BY <2>2, <2>3
<1> QED
  BY <1>6, <1>7

LEMMA EvidenceKept == EvidenceInv /\ [AssuranceNext]_assuranceVars => EvidenceInv'
<1> SUFFICES ASSUME EvidenceInv, [AssuranceNext]_assuranceVars PROVE EvidenceInv'
  OBVIOUS
<1>a. AssuranceTyped /\ AssuranceTyped' /\ RowsApart /\ DecisionsApart
  BY AssuranceNextType DEF EvidenceInv
<1> USE DEF evidenceHistory, evidenceVars, runVars
<1>b. ASSUME UNCHANGED <<row, current, sees, beside>>
      PROVE  RowsApart' /\ \A p \in Proposals : From(p)' = From(p) /\ Accepting(p)' = Accepting(p)
  BY <1>a, <1>b DEF RowsApart, CurrentOf, Writing, From, Accepting
<1>c. ASSUME NEW x \in Proposals, x \notin collided, From(x)' = From(x),
             Accepting(x)' = Accepting(x), proposal'[x] = proposal[x],
             x \in rejecting' => x \in rejecting
      PROVE  DecisionApart(x)'
  BY <1>a, <1>c DEF DecisionsApart, DecisionApart
<1>d. ASSUME UNCHANGED <<row, current, sees, beside, proposal, rejecting, collided>>
      PROVE  EvidenceInv'
  BY <1>a, <1>b, <1>c, <1>d DEF EvidenceInv, DecisionsApart
<1>1. ASSUME NEW e \in Rows, NEW o \in Reports, AddEvidence(e, o) PROVE EvidenceInv'
  <2>1. /\ Supersede(e, o, NoProposal) /\ current' = current /\ o \in Recorded
        /\ UNCHANGED <<proposal, rejecting, collided>>
    BY <1>1, EvidenceTyped DEF AddEvidence
  <2>2. RowsApart' /\ \A p \in Proposals : From(p)' = From(p)
    BY <2>1, SupersedeKeepsRows
  <2>3. /\ Writing' = Writing \cup {e} /\ row'[e].from = NoProposal
        /\ \A f \in Writing : row'[f] = row[f]
    BY <1>a, <2>1, SupersedeFacts DEF Writing
  <2>4. ASSUME NEW x \in Proposals PROVE Accepting(x)' = Accepting(x)
    BY <2>3, AssuranceAssumption DEF Accepting
  <2>5. DecisionsApart'
    BY <1>c, <2>1, <2>2, <2>4 DEF DecisionsApart
  <2> QED
    BY <1>a, <2>2, <2>5 DEF EvidenceInv
<1>2. ASSUME NEW e \in Rows, NEW p \in Proposals, NEW b \in BOOLEAN, Accept(e, p, b)
      PROVE  EvidenceInv'
  <2>0. PICK o \in Recorded : o = [Proposed[p] EXCEPT !.attested = b]
    BY EvidenceTyped
  <2>1. /\ Supersede(e, o, p) /\ current' = current /\ proposal[p] = "open"
        /\ UNCHANGED <<proposal, rejecting>>
        /\ collided \subseteq collided'
        /\ Deciding(p) => p \in collided'
    BY <1>2, <2>0 DEF Accept
  <2>2. RowsApart' /\ \A x \in Proposals : From(x)' = From(x)
    BY <2>1, SupersedeKeepsRows
  <2>3. /\ Writing' = Writing \cup {e} /\ row'[e].from = p
        /\ \A f \in Writing : row'[f] = row[f]
    BY <1>a, <2>1, SupersedeFacts DEF Writing
  <2>4. ASSUME NEW x \in Proposals \ collided' PROVE DecisionApart(x)'
    <3>1. CASE x # p
      <4>1. Accepting(x)' = Accepting(x)
        BY <2>3, <3>1 DEF Accepting
      <4> QED
        BY <1>c, <2>1, <2>2, <2>4, <4>1
    <3>2. CASE x = p
      <4>1. p \notin rejecting /\ Accepting(p) = {}
        BY <2>1, <2>4, <3>2 DEF Deciding, Accepting, Writing
      <4>2. Accepting(p)' = {e}
        BY <2>3, <4>1 DEF Accepting
      <4>3. From(p)' = {}
        BY <1>a, <2>1, <2>2, <2>4, <3>2 DEF DecisionsApart, DecisionApart
      <4> QED
        BY <2>1, <3>2, <4>1, <4>2, <4>3 DEF DecisionApart
    <3> QED
      BY <3>1, <3>2
  <2> QED
    BY <1>a, <2>2, <2>4 DEF EvidenceInv, DecisionsApart
<1>3. ASSUME NEW e \in Rows, CommitEvidence(e) PROVE EvidenceInv'
  BY <1>a, <1>3, EvidenceCommitted DEF EvidenceInv
<1>4. ASSUME NEW p \in Proposals, Propose(p) PROVE EvidenceInv'
  <2>1. /\ UNCHANGED <<row, current, sees, beside, rejecting, collided>> /\ proposal[p] = "none"
        /\ \A x \in Proposals : proposal'[x] = IF x = p THEN "open" ELSE proposal[x]
    BY <1>4, <1>a DEF Propose, AssuranceTyped, AssuranceTypeOK
  <2>2. ASSUME NEW x \in Proposals \ collided' PROVE DecisionApart(x)'
    <3>1. CASE x # p
      BY <1>b, <1>c, <2>1, <3>1
    <3>2. CASE x = p
      BY <1>a, <1>b, <2>1, <3>2 DEF DecisionsApart, DecisionApart
    <3> QED
      BY <3>1, <3>2
  <2> QED
    BY <1>a, <1>b, <2>1, <2>2 DEF EvidenceInv, DecisionsApart
<1>5. ASSUME NEW p \in Proposals, Reject(p) PROVE EvidenceInv'
  <2>1. /\ UNCHANGED <<row, current, sees, beside, proposal>> /\ proposal[p] = "open"
        /\ rejecting' = rejecting \cup {p} /\ collided \subseteq collided'
        /\ Deciding(p) => p \in collided'
    BY <1>5 DEF Reject
  <2>2. ASSUME NEW x \in Proposals \ collided' PROVE DecisionApart(x)'
    <3>1. CASE x # p
      BY <1>b, <1>c, <2>1, <3>1
    <3>2. CASE x = p
      <4>1. Accepting(p) = {}
        BY <2>1, <2>2, <3>2 DEF Deciding, Accepting, Writing
      <4> QED
        BY <1>a, <1>b, <2>1, <2>2, <3>2, <4>1 DEF DecisionsApart, DecisionApart
    <3> QED
      BY <3>1, <3>2
  <2> QED
    BY <1>a, <1>b, <2>1, <2>2 DEF EvidenceInv, DecisionsApart
<1>6. ASSUME NEW p \in Proposals, CommitReject(p) PROVE EvidenceInv'
  <2>1. /\ UNCHANGED <<row, current, sees, beside, collided>> /\ p \in rejecting
        /\ rejecting' = rejecting \ {p}
        /\ \A x \in Proposals : proposal'[x] = IF x = p THEN "rejected" ELSE proposal[x]
    BY <1>6, <1>a DEF CommitReject, AssuranceTyped, AssuranceTypeOK
  <2>2. ASSUME NEW x \in Proposals \ collided' PROVE DecisionApart(x)'
    <3>1. CASE x # p
      BY <1>b, <1>c, <2>1, <3>1
    <3>2. CASE x = p
      BY <1>a, <1>b, <2>1, <3>2 DEF DecisionsApart, DecisionApart
    <3> QED
      BY <3>1, <3>2
  <2> QED
    BY <1>a, <1>b, <2>1, <2>2 DEF EvidenceInv, DecisionsApart
<1>7. ASSUME NEW m \in Mandates, SetMandate(m) PROVE EvidenceInv'
  BY <1>7, <1>d DEF SetMandate
<1>8. ASSUME NEW r \in Runs, ReadForRun(r) \/ CommitRun(r) PROVE EvidenceInv'
  BY <1>8, <1>d DEF ReadForRun, CommitRun
<1>9. CASE UNCHANGED assuranceVars
  BY <1>9, <1>d DEF assuranceVars
<1> QED
  BY <1>1, <1>2, <1>3, <1>4, <1>5, <1>6, <1>7, <1>8, <1>9 DEF AssuranceNext

LEMMA EvidenceCounted == EvidenceInv => EvidenceIsSettled
<1> SUFFICES ASSUME EvidenceInv PROVE EvidenceIsSettled
  OBVIOUS
<1>1. \A e \in current \ beside : CurrentOf(row[e].key) = {e}
  BY DEF EvidenceInv, RowsApart, CurrentOf
<1>2. ASSUME NEW p \in Proposals \ collided
      PROVE  Cardinality(From(p)) = IF proposal[p] = "accepted" THEN 1 ELSE 0
  <2>1. CASE proposal[p] = "accepted"
    BY <2>1, FS_Singleton DEF EvidenceInv, DecisionsApart, DecisionApart
  <2>2. CASE proposal[p] # "accepted"
    BY <2>2, FS_EmptySet DEF EvidenceInv, DecisionsApart, DecisionApart
  <2> QED
    BY <2>1, <2>2
<1> QED
  BY <1>1, <1>2 DEF EvidenceIsSettled, From

\* Whatever is recorded, proposed and decided at once: a row written beside no other of
\* its key leaves no other current, a proposal is accepted exactly when it has become
\* one row, but for decisions that overlapped.
THEOREM EvidenceIsSettledHolds == AssuranceSpec => []EvidenceIsSettled
<1>1. AssuranceInit => EvidenceInv
  <2> SUFFICES ASSUME AssuranceInit PROVE EvidenceInv
    OBVIOUS
  <2>1. current = {} /\ Writing = {} /\ rejecting = {}
    BY DEF AssuranceInit, Writing
  <2>2. \A p \in Proposals : proposal[p] = "none" /\ From(p) = {}
    BY DEF AssuranceInit, From
  <2> QED
    BY <2>1, <2>2, AssuranceInitType DEF EvidenceInv, RowsApart, DecisionsApart, DecisionApart,
       Accepting
<1> QED
  BY <1>1, EvidenceKept, EvidenceCounted, PTL DEF AssuranceSpec

-----------------------------------------------------------------------------
(* Exchange: what a node counts as attested. *)

HearsayInv ==
    /\ HearsayIsUnattested
    /\ evidence \in [Places -> SUBSET Evidence]
    /\ witnessed \in [Places -> SUBSET Facts]
    /\ documents \subseteq [from : Places, facts : SUBSET Facts]

\* Evidence and documents only grow but for what newer evidence supersedes.
LEMMA HearsayKept == ExchangeSpec => []HearsayInv
<1> DEFINE Inv == HearsayInv
<1> USE DEF HearsayInv
<1>1. ExchangeInit => Inv
  BY DEF ExchangeInit, HearsayIsUnattested
<1>2. Inv /\ [ExchangeNext]_exchangeVars => Inv'
  <2> SUFFICES ASSUME Inv, [ExchangeNext]_exchangeVars PROVE Inv'
    OBVIOUS
  <2>1. ASSUME NEW n \in Places, NEW f \in Facts, NEW a \in BOOLEAN, NEW es \in SUBSET Evidence,
               RecordEvidence(n, f, a, es)
        PROVE  Inv'
    <3> DEFINE new == [fact |-> f, attested |-> a]
    <3>1. new \in Evidence /\ new.fact = f /\ new.attested = a
      BY DEF Evidence
    <3> HIDE DEF new
    <3>2. /\ evidence' = [evidence EXCEPT ![n] =
               {e \in evidence[n] : e.fact # f} \cup es \cup {new}]
          /\ es \subseteq evidence[n] /\ documents' = documents
          /\ witnessed' = IF a THEN [witnessed EXCEPT ![n] = @ \cup {f}] ELSE witnessed
      BY <2>1 DEF RecordEvidence, new
    <3>3. /\ witnessed' \in [Places -> SUBSET Facts]
          /\ \A m \in Places : witnessed[m] \subseteq witnessed'[m]
          /\ a => f \in witnessed'[n]
      BY <3>2
    <3>4. /\ \A m \in Places : evidence'[m] \subseteq evidence[m] \cup IF m = n THEN {new} ELSE {}
          /\ evidence' \in [Places -> SUBSET Evidence]
      BY <3>1, <3>2
    <3>5. HearsayIsUnattested'
      BY <3>1, <3>2, <3>3, <3>4 DEF HearsayIsUnattested
    <3> QED
      BY <3>2, <3>3, <3>4, <3>5
  <2>2. ASSUME NEW n \in Places, NEW facts \in SUBSET Facts, BuildDocument(n, facts) PROVE Inv'
    BY <2>2 DEF BuildDocument, HearsayIsUnattested
  <2>3. ASSUME NEW n \in Places, NEW d \in documents, ImportDocument(n, d) PROVE Inv'
    <3> DEFINE new == [fact : d.facts, attested : {SignerTrusted(n, d)}]
    <3>1. /\ new \subseteq Evidence
          /\ \A e \in new : e.fact \in d.facts /\ e.attested = SignerTrusted(n, d)
      BY DEF Evidence, SignerTrusted
    <3> HIDE DEF new
    <3>2. /\ evidence' = [evidence EXCEPT ![n] = evidence[n] \cup new]
          /\ documents' = documents /\ witnessed' = witnessed
      BY <2>3 DEF ImportDocument, new
    <3>3. HearsayIsUnattested'
      BY <3>1, <3>2 DEF HearsayIsUnattested, SignerTrusted
    <3> QED
      BY <3>1, <3>2, <3>3
  <2>4. CASE UNCHANGED assetVars
    BY <2>4 DEF assetVars, HearsayIsUnattested
  <2>5. AgreementNext => UNCHANGED assetVars
    BY DEF AgreementNext, RecordAgreement, ImportAgreement, FindUnlinked, LinkLocally, FailToLink
  <2>6. UNCHANGED exchangeVars => UNCHANGED assetVars
    BY DEF exchangeVars
  <2> QED
    BY <2>1, <2>2, <2>3, <2>4, <2>5, <2>6 DEF ExchangeNext, AssetNext
<1> QED
  BY <1>1, <1>2, PTL DEF ExchangeSpec

\* What a node calls attested, one of its own attesters or a node that it trusts has
\* attested, through however many nodes a document went.
THEOREM HearsayIsUnattestedHolds == ExchangeSpec => []HearsayIsUnattested
<1>1. HearsayInv => HearsayIsUnattested
  BY DEF HearsayInv
<1> QED
  BY <1>1, HearsayKept, PTL

-----------------------------------------------------------------------------
(* Exchange: what an agreement becomes. *)

AgreementTyped ==
    /\ agreement \in [Agreements -> {"none", "recorded", "linked"}]
    /\ linked \in [Agreements -> Nat]
    /\ linking \in [Linkings -> Agreements \cup {NoRecord}]

\* A record that one request has found not linked is no stake yet, and no other
\* request has found it.
LinksKnow ==
    \A q \in Linkings : linking[q] # NoRecord =>
      /\ agreement[linking[q]] # "none"
      /\ linking[q] \notin twice => /\ linked[linking[q]] = 0
                                    /\ \A p \in Linkings : linking[p] = linking[q] => p = q

StakeInv == AgreementTyped /\ LinksKnow /\ RecordIsOneStake

LEMMA StakeKept == StakeInv /\ [ExchangeNext]_exchangeVars => StakeInv'
<1> SUFFICES ASSUME StakeInv, [ExchangeNext]_exchangeVars PROVE StakeInv'
  OBVIOUS
<1> USE DEF StakeInv
<1>1. ASSUME NEW r \in Agreements, agreement[r] = "none",
             agreement' = [agreement EXCEPT ![r] = "recorded"], UNCHANGED <<linked, linking, twice>>
      PROVE  StakeInv'
  <2>1. /\ agreement' \in [Agreements -> {"none", "recorded", "linked"}]
        /\ \A x \in Agreements : agreement'[x] = IF x = r THEN "recorded" ELSE agreement[x]
    BY <1>1 DEF AgreementTyped
  <2>2. LinksKnow'
    BY <1>1, <2>1 DEF LinksKnow, AgreementTyped
  <2> QED
    BY <1>1, <2>1, <2>2 DEF AgreementTyped, RecordIsOneStake
<1>2. ASSUME NEW q \in Linkings, NEW r \in Agreements, FindUnlinked(q, r) PROVE StakeInv'
  <2>1. /\ linking[q] = NoRecord /\ agreement[r] = "recorded" /\ linked[r] = 0
        /\ linking' \in [Linkings -> Agreements \cup {NoRecord}]
        /\ \A p \in Linkings : linking'[p] = IF p = q THEN r ELSE linking[p]
        /\ twice \subseteq twice' /\ UNCHANGED <<agreement, linked>>
        /\ (\E p \in Linkings : linking[p] = r) => r \in twice'
    BY <1>2 DEF FindUnlinked, AgreementTyped, RecordIsOneStake
  <2>2. LinksKnow'
    BY <2>1 DEF LinksKnow
  <2>3. RecordIsOneStake'
    BY <2>1 DEF RecordIsOneStake
  <2> QED
    BY <2>1, <2>2, <2>3 DEF AgreementTyped
<1>3. ASSUME NEW q \in Linkings, LinkLocally(q) PROVE StakeInv'
  <2> PICK r \in Agreements : linking[q] = r
    BY <1>3 DEF LinkLocally, AgreementTyped
  <2>1. /\ AgreementTyped'
        /\ \A p \in Linkings : linking'[p] = IF p = q THEN NoRecord ELSE linking[p]
        /\ \A x \in Agreements : /\ agreement'[x] = IF x = r THEN "linked" ELSE agreement[x]
                                 /\ linked'[x] = IF x = r THEN linked[r] + 1 ELSE linked[x]
        /\ twice' = twice /\ linked[r] \in Nat
    BY <1>3 DEF LinkLocally, AgreementTyped
  <2>2. r \notin twice => linked[r] = 0 /\ \A p \in Linkings : linking[p] = r => p = q
    BY ExchangeAssumption DEF LinksKnow
  <2>3. LinksKnow'
    BY <2>1, <2>2 DEF LinksKnow, AgreementTyped
  <2>4. RecordIsOneStake'
    BY <2>1, <2>2 DEF RecordIsOneStake
  <2> QED
    BY <2>1, <2>3, <2>4
<1>4. ASSUME NEW q \in Linkings, FailToLink(q) PROVE StakeInv'
  BY <1>4 DEF FailToLink, AgreementTyped, LinksKnow, RecordIsOneStake
<1>5. UNCHANGED agreementVars => StakeInv'
  BY DEF agreementVars, AgreementTyped, LinksKnow, RecordIsOneStake
<1>6. AssetNext \/ UNCHANGED exchangeVars => UNCHANGED agreementVars
  BY DEF AssetNext, RecordEvidence, BuildDocument, ImportDocument, exchangeVars
<1>7. ASSUME NEW r \in Agreements, NEW n \in Places,
             RecordAgreement(r, n) \/ \E s \in Agreements : ImportAgreement(r, s, n)
      PROVE  StakeInv'
  BY <1>1, <1>7 DEF RecordAgreement, ImportAgreement
<1> QED
  BY <1>2, <1>3, <1>4, <1>5, <1>6, <1>7 DEF ExchangeNext, AgreementNext

\* What nodes hand each other is never more than what it was: evidence counts as
\* attested only where somebody trusted has attested it, and a record becomes one
\* stake, but for requests that overlapped.
THEOREM WordIsKeptHolds == ExchangeSpec => []WordIsKept
<1>1. ExchangeInit => StakeInv
  BY DEF ExchangeInit, StakeInv, AgreementTyped, LinksKnow, RecordIsOneStake
<1>2. ExchangeSpec => []StakeInv
  BY <1>1, StakeKept, PTL DEF ExchangeSpec
<1>3. HearsayIsUnattested /\ StakeInv => WordIsKept
  BY DEF StakeInv, WordIsKept
<1> QED
  BY <1>2, <1>3, HearsayIsUnattestedHolds, PTL

-----------------------------------------------------------------------------
(* Exchange: types. *)

Holding(r) == {q \in Linkings : linking[q] = r}

\* A record that has become a stake is found by no further request: it becomes no
\* more stakes than requests had found it by then.
StakesBounded ==
    \A r \in Agreements :
      /\ agreement[r] # "linked" => linked[r] = 0
      /\ linked[r] + Cardinality(Holding(r)) <= Cardinality(Linkings)

RowsTyped ==
    /\ AgreementTyped
    /\ place \in [Agreements -> Places \cup {NoPlace}]
    /\ circulated \subseteq Agreements /\ twice \subseteq Agreements

RowsInv == RowsTyped /\ StakesBounded

LEMMA HoldingFinite ==
    /\ \A r : IsFiniteSet(Holding(r)) /\ Cardinality(Holding(r)) \in Nat
              /\ Cardinality(Holding(r)) <= Cardinality(Linkings)
    /\ IsFiniteSet(Linkings) /\ Cardinality(Linkings) \in Nat
<1>1. IsFiniteSet(Linkings)
  BY ExchangeAssumption
<1>2. \A r : Holding(r) \subseteq Linkings
  BY DEF Holding
<1> QED
  BY <1>1, <1>2, FS_Subset, FS_CardinalityType

LEMMA RowsKept == RowsInv /\ [ExchangeNext]_exchangeVars => RowsInv'
<1> SUFFICES ASSUME RowsInv, [ExchangeNext]_exchangeVars PROVE RowsInv'
  OBVIOUS
<1> USE DEF RowsInv
<1>1. ASSUME NEW r \in Agreements, agreement[r] = "none", NEW n \in Places,
             agreement' = [agreement EXCEPT ![r] = "recorded"], place' = [place EXCEPT ![r] = n],
             circulated' \subseteq circulated \cup {r}, UNCHANGED <<linked, linking, twice>>
      PROVE  RowsInv'
  <2>1. RowsTyped'
    BY <1>1 DEF RowsTyped, AgreementTyped
  <2>2. StakesBounded'
    BY <1>1 DEF StakesBounded, Holding, RowsTyped, AgreementTyped
  <2> QED
    BY <2>1, <2>2
<1>2. ASSUME NEW q \in Linkings, NEW r \in Agreements, FindUnlinked(q, r) PROVE RowsInv'
  <2>1. /\ agreement[r] = "recorded" /\ agreement' = agreement /\ linked' = linked
        /\ linking[q] = NoRecord /\ linking' = [linking EXCEPT ![q] = r]
        /\ place' = place /\ circulated' = circulated /\ twice' \subseteq twice \cup {r}
    BY <1>2 DEF FindUnlinked
  <2>2. RowsTyped'
    BY <2>1 DEF RowsTyped, AgreementTyped
  <2>3. ASSUME NEW x \in Agreements, x # r PROVE Holding(x)' = Holding(x)
    BY <2>1, <2>3, ExchangeAssumption DEF Holding, RowsTyped, AgreementTyped
  <2>4. PICK h : h = Holding(r)'
    OBVIOUS
  <2>5. h \subseteq Linkings
    BY <2>4 DEF Holding
  <2>6. IsFiniteSet(h) /\ Cardinality(h) \in Nat /\ Cardinality(h) <= Cardinality(Linkings)
    BY <2>5, HoldingFinite, FS_Subset, FS_CardinalityType
  <2>7. linked[r] = 0
    BY <2>1 DEF StakesBounded
  <2>8. StakesBounded'
    BY <2>1, <2>3, <2>4, <2>6, <2>7 DEF StakesBounded
  <2> QED
    BY <2>2, <2>8
<1>3. ASSUME NEW q \in Linkings, LinkLocally(q) PROVE RowsInv'
  <2> PICK r \in Agreements : linking[q] = r
    BY <1>3 DEF LinkLocally, RowsTyped, AgreementTyped
  <2>1. /\ agreement' = [agreement EXCEPT ![r] = "linked"]
        /\ linked' = [linked EXCEPT ![r] = linked[r] + 1]
        /\ linking' = [linking EXCEPT ![q] = NoRecord]
        /\ place' = place /\ circulated' = circulated /\ twice' = twice
    BY <1>3 DEF LinkLocally
  <2>2. RowsTyped'
    BY <2>1 DEF RowsTyped, AgreementTyped
  <2>3. ASSUME NEW x \in Agreements
        PROVE  Holding(x)' = IF x = r THEN Holding(r) \ {q} ELSE Holding(x)
    BY <2>1, ExchangeAssumption DEF Holding, RowsTyped, AgreementTyped
  <2>4. Cardinality(Holding(r) \ {q}) = Cardinality(Holding(r)) - 1
    <3>1. q \in Holding(r)
      BY DEF Holding
    <3> QED
      BY <3>1, HoldingFinite, FS_RemoveElement
  <2>5. \A x \in Agreements : linked[x] \in Nat /\ Cardinality(Holding(x)) \in Nat
    BY HoldingFinite DEF RowsTyped, AgreementTyped
  <2>6. StakesBounded'
    <3> SUFFICES ASSUME NEW x \in Agreements
                 PROVE  /\ agreement'[x] # "linked" => linked'[x] = 0
                        /\ linked'[x] + Cardinality(Holding(x)') <= Cardinality(Linkings)
      BY DEF StakesBounded
    <3>1. /\ agreement'[x] = IF x = r THEN "linked" ELSE agreement[x]
          /\ linked'[x] = IF x = r THEN linked[r] + 1 ELSE linked[x]
      BY <2>1 DEF RowsTyped, AgreementTyped
    <3>2. CASE x = r
      <4>1. Cardinality(Holding(x)') = Cardinality(Holding(r)) - 1
        BY <2>3, <2>4, <3>2
      <4> QED
        BY <2>5, <3>1, <3>2, <4>1, HoldingFinite DEF StakesBounded
    <3>3. CASE x # r
      BY <2>3, <3>1, <3>3 DEF StakesBounded
    <3> QED
      BY <3>2, <3>3
  <2> QED
    BY <2>2, <2>6
<1>4. ASSUME NEW q \in Linkings, FailToLink(q) PROVE RowsInv'
  <2> PICK r \in Agreements : linking[q] = r
    BY <1>4 DEF FailToLink, RowsTyped, AgreementTyped
  <2>1. /\ agreement' = agreement /\ linked' = linked /\ twice' = twice
        /\ linking' = [linking EXCEPT ![q] = NoRecord]
        /\ place' = place /\ circulated' = circulated
    BY <1>4 DEF FailToLink
  <2>2. RowsTyped'
    BY <2>1 DEF RowsTyped, AgreementTyped
  <2>3. ASSUME NEW x \in Agreements
        PROVE  Holding(x)' = IF x = r THEN Holding(r) \ {q} ELSE Holding(x)
    BY <2>1, ExchangeAssumption DEF Holding, RowsTyped, AgreementTyped
  <2>4. Cardinality(Holding(r) \ {q}) = Cardinality(Holding(r)) - 1
    <3>1. q \in Holding(r)
      BY DEF Holding
    <3> QED
      BY <3>1, HoldingFinite, FS_RemoveElement
  <2>5. ASSUME NEW x \in Agreements
        PROVE  linked[x] + Cardinality(Holding(x)') <= Cardinality(Linkings)
    <3>1. linked[x] \in Nat /\ Cardinality(Holding(x)) \in Nat /\ Cardinality(Linkings) \in Nat
      BY HoldingFinite DEF RowsTyped, AgreementTyped
    <3>2. Cardinality(Holding(x)') \in {Cardinality(Holding(x)), Cardinality(Holding(x)) - 1}
      BY <2>3, <2>4
    <3> QED
      BY <3>1, <3>2 DEF StakesBounded
  <2>6. StakesBounded'
    BY <2>1, <2>5 DEF StakesBounded
  <2> QED
    BY <2>2, <2>6
<1>5. UNCHANGED agreementVars => RowsInv'
  BY DEF agreementVars, RowsTyped, AgreementTyped, StakesBounded, Holding
<1>6. AssetNext \/ UNCHANGED exchangeVars => UNCHANGED agreementVars
  BY DEF AssetNext, RecordEvidence, BuildDocument, ImportDocument, exchangeVars
<1>7. ASSUME NEW r \in Agreements, NEW n \in Places,
             RecordAgreement(r, n) \/ \E s \in Agreements : ImportAgreement(r, s, n)
      PROVE  RowsInv'
  BY <1>1, <1>7 DEF RecordAgreement, ImportAgreement
<1> QED
  BY <1>2, <1>3, <1>4, <1>5, <1>6, <1>7 DEF ExchangeNext, AgreementNext

LEMMA RowsInit == ExchangeInit => RowsInv
<1> SUFFICES ASSUME ExchangeInit PROVE RowsInv
  OBVIOUS
<1>1. RowsTyped
  BY DEF ExchangeInit, RowsTyped, AgreementTyped
<1>2. \A r \in Agreements : linked[r] = 0
  BY DEF ExchangeInit
<1>3. StakesBounded
  BY <1>2, HoldingFinite DEF StakesBounded
<1> QED
  BY <1>1, <1>3 DEF RowsInv

\* Every variable of the exchange keeps its type; no record becomes more stakes than
\* there are requests.
THEOREM ExchangeTypeCorrect == ExchangeSpec => []ExchangeTypeOK
<1>1. HearsayInv /\ RowsInv => ExchangeTypeOK
  <2> SUFFICES ASSUME HearsayInv, RowsInv PROVE ExchangeTypeOK
    OBVIOUS
  <2>1. \A r \in Agreements : linked[r] \in 0..Cardinality(Linkings)
    BY HoldingFinite DEF RowsInv, StakesBounded, RowsTyped, AgreementTyped
  <2>2. linked \in [Agreements -> 0..Cardinality(Linkings)]
    BY <2>1 DEF RowsInv, RowsTyped, AgreementTyped
  <2> QED
    BY <2>2 DEF HearsayInv, RowsInv, RowsTyped, AgreementTyped, ExchangeTypeOK
<1> QED
  BY <1>1, HearsayKept, RowsInit, RowsKept, PTL DEF ExchangeSpec

-----------------------------------------------------------------------------
(* PathSearch: the recursion of a search. *)

\* At its last hop, a call is answered without asking anybody.
LEMMA LastHop == \A c, b1, b2 : Answer(c, 0, b1) = Answer(c, 0, b2)
BY DEF Answer

\* g is a search of at most m hops.
IsSearch(g, m) == g = [t \in 0..m |-> [c \in Calls |-> Answer(c, t, g[t - 1])]]

LEMMA SearchStep ==
  ASSUME NEW g, NEW m \in Nat, IsSearch(g, m), NEW t \in 0..m
  PROVE  g[t] = [c \in Calls |-> Answer(c, t, g[t - 1])]
BY DEF IsSearch

\* Two of them agree on the hops of both.
LEMMA SearchesAgree ==
  ASSUME NEW g, NEW m \in Nat, IsSearch(g, m), NEW h, NEW k \in Nat, IsSearch(h, k)
  PROVE  \A t \in Nat : t <= m /\ t <= k => g[t] = h[t]
<1> DEFINE Good == {t \in Nat : t <= m /\ t <= k => g[t] = h[t]}
<1>1. 0 \in Good
  <2>1. g[0] = [c \in Calls |-> Answer(c, 0, g[0 - 1])]
    BY SearchStep
  <2>2. h[0] = [c \in Calls |-> Answer(c, 0, h[0 - 1])]
    BY SearchStep
  <2>3. \A c \in Calls : Answer(c, 0, g[0 - 1]) = Answer(c, 0, h[0 - 1])
    BY LastHop
  <2> QED
    BY <2>1, <2>2, <2>3
<1>2. ASSUME NEW t \in Nat, t \in Good PROVE t + 1 \in Good
  <2> SUFFICES ASSUME t + 1 <= m, t + 1 <= k PROVE g[t + 1] = h[t + 1]
    OBVIOUS
  <2>1. g[t] = h[t] /\ (t + 1) - 1 = t
    BY <1>2
  <2>2. g[t + 1] = [c \in Calls |-> Answer(c, t + 1, g[(t + 1) - 1])]
    BY SearchStep
  <2>3. h[t + 1] = [c \in Calls |-> Answer(c, t + 1, h[(t + 1) - 1])]
    BY SearchStep
  <2> QED
    BY <2>1, <2>2, <2>3
<1>3. \A t \in Nat : t \in Good
  <2> HIDE DEF Good
  <2> QED
    BY <1>1, <1>2, EveryNumber
<1> QED
  BY <1>3

\* There is one for every number of hops.
LEMMA SearchExists == \A m \in Nat : \E g : IsSearch(g, m)
<1> DEFINE Good == {m \in Nat : \E g : IsSearch(g, m)}
<1>1. 0 \in Good
  <2> DEFINE g == [t \in 0..0 |-> [c \in Calls |-> Answer(c, t, <<>>)]]
  <2>1. \A c \in Calls : Answer(c, 0, <<>>) = Answer(c, 0, g[0 - 1])
    BY LastHop
  <2>2. IsSearch(g, 0)
    BY <2>1 DEF IsSearch
  <2> QED
    BY <2>2
<1>2. ASSUME NEW m \in Nat, m \in Good PROVE m + 1 \in Good
  <2>1. PICK g : IsSearch(g, m)
    BY <1>2
  <2> DEFINE h == [t \in 0..(m + 1) |->
                     IF t <= m THEN g[t] ELSE [c \in Calls |-> Answer(c, t, g[t - 1])]]
  <2>2. ASSUME NEW t \in 0..(m + 1)
        PROVE  h[t] = [c \in Calls |-> Answer(c, t, h[t - 1])]
    <3>1. CASE t = 0
      <4>1. h[0] = [c \in Calls |-> Answer(c, 0, g[0 - 1])]
        BY <2>1, SearchStep
      <4>2. \A c \in Calls : Answer(c, 0, g[0 - 1]) = Answer(c, 0, h[0 - 1])
        BY LastHop
      <4> HIDE DEF h
      <4> QED
        BY <3>1, <4>1, <4>2
    <3>2. CASE t # 0
      <4>1. t - 1 \in 0..m /\ h[t - 1] = g[t - 1]
        BY <3>2
      <4>2. h[t] = [c \in Calls |-> Answer(c, t, g[t - 1])]
        BY <2>1, SearchStep
      <4> HIDE DEF h
      <4> QED
        BY <4>1, <4>2
    <3> QED
      BY <3>1, <3>2
  <2>3. DOMAIN h = 0..(m + 1) /\ h = [t \in 0..(m + 1) |-> h[t]]
    OBVIOUS
  <2>4. IsSearch(h, m + 1)
    <3> HIDE DEF h
    <3> QED
      BY <2>2, <2>3 DEF IsSearch
  <2> QED
    BY <2>4
<1>3. \A m \in Nat : m \in Good
  <2> HIDE DEF Good
  <2> QED
    BY <1>1, <1>2, EveryNumber
<1> QED
  BY <1>3

\* So Search answers a call from what it answers calls with one hop less.
LEMMA SearchUnfolds ==
  /\ \A c \in Calls : Search[0][c] = Answer(c, 0, <<>>)
  /\ \A t \in Nat, c \in Calls : Search[t + 1][c] = Answer(c, t + 1, Search[t])
<1> DEFINE IsAll(f) == f = [t \in Nat |-> [c \in Calls |-> Answer(c, t, f[t - 1])]]
           Part(m) == CHOOSE g : IsSearch(g, m)
           f == [t \in Nat |-> Part(t)[t]]
<1>1. \A m \in Nat : IsSearch(Part(m), m)
  BY SearchExists
<1> HIDE DEF Part
<1>2. ASSUME NEW t \in Nat
      PROVE  Part(t)[t] = [c \in Calls |-> Answer(c, t, f[t - 1])]
  <2>1. Part(t)[t] = [c \in Calls |-> Answer(c, t, Part(t)[t - 1])]
    BY <1>1, SearchStep
  <2>2. CASE t = 0
    <3>1. \A c \in Calls : Answer(c, 0, Part(0)[0 - 1]) = Answer(c, 0, f[0 - 1])
      BY LastHop
    <3> HIDE DEF f
    <3> QED
      BY <2>1, <2>2, <3>1
  <2>3. CASE t # 0
    <3>1. t - 1 \in Nat /\ t - 1 <= t /\ IsSearch(Part(t), t) /\ IsSearch(Part(t - 1), t - 1)
      BY <1>1, <2>3
    <3>2. Part(t)[t - 1] = Part(t - 1)[t - 1]
      BY <3>1, SearchesAgree
    <3>3. f[t - 1] = Part(t)[t - 1]
      BY <3>1, <3>2
    <3> HIDE DEF f
    <3> QED
      BY <2>1, <3>3
  <2> QED
    BY <2>2, <2>3
<1>3. f = [t \in Nat |-> f[t]] /\ \A t \in Nat : f[t] = Part(t)[t]
  OBVIOUS
<1> HIDE DEF f
<1>4. IsAll(f)
  BY <1>2, <1>3
<1>5. Search = CHOOSE h : IsAll(h)
  BY DEF Search
<1>6. IsAll(Search)
  <2> HIDE DEF IsAll
  <2> QED
    BY <1>4, <1>5
<1>7. \A t \in Nat : Search[t] = [c \in Calls |-> Answer(c, t, Search[t - 1])]
  <2> DEFINE g == [t \in Nat |-> [c \in Calls |-> Answer(c, t, Search[t - 1])]]
  <2>1. Search = g
    BY <1>6
  <2>2. \A t \in Nat : g[t] = [c \in Calls |-> Answer(c, t, Search[t - 1])]
    OBVIOUS
  <2> HIDE DEF g
  <2> QED
    BY <2>1, <2>2
<1>8. \A c \in Calls : Search[0][c] = Answer(c, 0, Search[0 - 1])
  BY <1>7
<1>9. ASSUME NEW t \in Nat, NEW c \in Calls
      PROVE  Search[t + 1][c] = Answer(c, t + 1, Search[t])
  <2>1. (t + 1) - 1 = t /\ t + 1 \in Nat
    OBVIOUS
  <2>2. Search[t + 1] = [d \in Calls |-> Answer(d, t + 1, Search[(t + 1) - 1])]
    BY <1>7, <2>1
  <2> QED
    BY <2>1, <2>2
<1> QED
  BY <1>8, <1>9, LastHop

-----------------------------------------------------------------------------
(* PathSearch: what the results of a search carry. *)

IsResult(r) ==
  r = [path |-> r.path, weight |-> r.weight, degree |-> r.degree,
       proof |-> r.proof, proven |-> r.proven]

\* The first node of a path that must have signed, of those that a call with m nodes
\* behind it adds: the asker signs nothing that it hears from others.
First(m, p) == IF m = 0 /\ Len(p) > 1 THEN 2 ELSE m + 1

\* A result of call c leads from the node called along active peers, and carries the
\* signatures of the nodes that had a key, or no match.
Vouched(r, c) ==
  LET m == Len(c.path)
      s == First(m, r.path)
  IN  /\ IsResult(r) /\ r.proven = FALSE
      /\ r.path \in Seq(Nodes) /\ Len(r.path) > m
      /\ \A i \in 1..m : r.path[i] = c.path[i]
      /\ r.path[m + 1] = c.to
      /\ Len(r.path) > m + 1 => <<c.to, r.path[m + 2]>> \in Callable(c.to)
      /\ \E S : r.proof.hops \in Seq(S)
      /\ r.proof.match # NoSigner =>
           /\ \A i \in s..Len(r.path) : key[r.path[i]] # 0
           /\ Outer(r.proof) = Signature(r.path[s])

\* The outermost signature of a proof that a node wraps is its own.
LEMMA WrappedOutside ==
  ASSUME NEW n, NEW p, NEW S, p.hops \in Seq(S)
  PROVE  LET w == WrapHop(n, p) IN
         /\ \E T : w.hops \in Seq(T)
         /\ w.match # NoSigner => key[n] # 0 /\ p.match # NoSigner /\ Outer(w) = Signature(n)
<1> DEFINE hop == [sig |-> Signature(n), inner |-> p]
           w == WrapHop(n, p)
<1>1. CASE key[n] = 0
  <2>1. w.match = NoSigner /\ w.hops = <<>>
    BY <1>1 DEF WrapHop, NoProof
  <2>2. w.hops \in Seq({0})
    BY <2>1
  <2> QED
    BY <2>1, <2>2
<1>2. CASE key[n] # 0
  <2>1. w.match = p.match /\ w.hops = Append(p.hops, hop)
    BY <1>2 DEF WrapHop
  <2>2. w.hops \in Seq(S \cup {hop}) /\ w.hops # <<>> /\ w.hops[Len(w.hops)] = hop
    <3> HIDE DEF hop, w
    <3>1. p.hops \in Seq(S \cup {hop}) /\ hop \in S \cup {hop}
      OBVIOUS
    <3> QED
      BY <2>1, <3>1
  <2>3. Outer(w) = Signature(n)
    BY <2>2 DEF Outer
  <2> QED
    BY <1>2, <2>1, <2>2, <2>3
<1> QED
  BY <1>1, <1>2

\* A node's own match is signed by it.
LEMMA OwnVouched ==
  ASSUME NEW c \in Calls, NEW r,
         r = [path |-> Append(c.path, c.to), weight |-> 1, degree |-> Len(c.path),
              proof |-> NewProof(c.to), proven |-> FALSE]
  PROVE  Vouched(r, c)
<1> DEFINE here == Append(c.path, c.to)
<1>1. c.path \in Seq(Nodes) /\ c.to \in Nodes
  BY DEF Calls
<1>2. /\ here \in Seq(Nodes) /\ Len(here) = Len(c.path) + 1 /\ here[Len(c.path) + 1] = c.to
      /\ \A i \in 1..Len(c.path) : here[i] = c.path[i]
  BY <1>1
<1>3. First(Len(c.path), here) = Len(c.path) + 1
  BY <1>1, <1>2 DEF First
<1>4. \E S : NewProof(c.to).hops \in Seq(S)
  <2>1. NewProof(c.to).hops = <<>> /\ <<>> \in Seq({0})
    BY DEF NewProof, NoProof
  <2> QED
    BY <2>1
<1>5. NewProof(c.to).match # NoSigner =>
        key[c.to] # 0 /\ Outer(NewProof(c.to)) = Signature(c.to)
  BY DEF NewProof, NoProof, Outer
<1>6. r.path = here /\ r.proof = NewProof(c.to) /\ r.proven = FALSE /\ IsResult(r)
  BY DEF IsResult
<1>7. \A i \in (Len(c.path) + 1)..Len(here) : here[i] = c.to
  BY <1>1, <1>2
<1> HIDE DEF here
<1>8. /\ \E S : r.proof.hops \in Seq(S)
      /\ r.proof.match # NoSigner =>
           /\ \A i \in (Len(c.path) + 1)..Len(r.path) : key[r.path[i]] # 0
           /\ Outer(r.proof) = Signature(r.path[Len(c.path) + 1])
  BY <1>1, <1>2, <1>4, <1>5, <1>6, <1>7
<1>9. /\ r.path \in Seq(Nodes) /\ Len(r.path) > Len(c.path)
      /\ \A i \in 1..Len(c.path) : r.path[i] = c.path[i]
      /\ r.path[Len(c.path) + 1] = c.to /\ ~(Len(r.path) > Len(c.path) + 1)
  BY <1>1, <1>2, <1>6
<1> QED
  BY <1>3, <1>6, <1>8, <1>9 DEF Vouched

\* A relay that passes a result on adds its own signature.
LEMMA RelayedVouched ==
  ASSUME NEW c \in Calls, NEW l \in Onward(c.to, c.path),
         NEW q, Vouched(q, [to |-> l[2], path |-> Append(c.path, c.to), lost |-> c.lost]),
         NEW r,
         r = [q EXCEPT !.weight = Weight[l] * q.weight,
                       !.degree = Len(q.path) - Len(c.path) - 1,
                       !.proof  = IF c.path = <<>> THEN q.proof ELSE WrapHop(c.to, q.proof)]
  PROVE  Vouched(r, c)
<1> DEFINE here == Append(c.path, c.to)
           m == Len(c.path)
           s == First(m, r.path)
           d == [to |-> l[2], path |-> here, lost |-> c.lost]
<1>1. c.path \in Seq(Nodes) /\ c.to \in Nodes /\ l = <<c.to, l[2]>> /\ l \in Callable(c.to)
  BY SearchAssumption DEF Calls, Onward, Callable
<1>2. /\ here \in Seq(Nodes) /\ Len(here) = m + 1 /\ here[m + 1] = c.to /\ m \in Nat
      /\ \A i \in 1..m : here[i] = c.path[i]
  BY <1>1
<1>3. d.to = l[2] /\ d.path = here
  OBVIOUS
<1>4. /\ IsResult(q) /\ q.proven = FALSE /\ q.path \in Seq(Nodes) /\ Len(q.path) > m + 1
      /\ \A i \in 1..(m + 1) : q.path[i] = here[i]
      /\ q.path[m + 2] = l[2]
      /\ \E S : q.proof.hops \in Seq(S)
      /\ q.proof.match # NoSigner =>
           /\ \A i \in (m + 2)..Len(q.path) : key[q.path[i]] # 0
           /\ Outer(q.proof) = Signature(q.path[m + 2])
  <2>1. Vouched(q, d)
    OBVIOUS
  <2> HIDE DEF d, here
  <2>2. First(Len(d.path), q.path) = m + 2 /\ (m + 1) + 1 = m + 2
    BY <1>2, <1>3 DEF First
  <2> QED
    BY <1>2, <1>3, <2>1, <2>2 DEF Vouched
<1>5. /\ r.path = q.path /\ r.proven = q.proven /\ IsResult(r)
      /\ r.proof = IF c.path = <<>> THEN q.proof ELSE WrapHop(c.to, q.proof)
  <2>1. q = [path |-> q.path, weight |-> q.weight, degree |-> q.degree,
             proof |-> q.proof, proven |-> q.proven]
    BY <1>4 DEF IsResult
  <2> QED
    BY <2>1 DEF IsResult
<1> HIDE DEF here, d
<1>6. /\ \A i \in 1..m : r.path[i] = c.path[i]
      /\ r.path[m + 1] = c.to /\ Len(r.path) > m
      /\ <<c.to, r.path[m + 2]>> \in Callable(c.to)
  <2>1. 1 \in 1..(m + 1) /\ m + 1 \in 1..(m + 1) /\ \A i \in 1..m : i \in 1..(m + 1)
    BY <1>2
  <2>2. r.path[m + 2] = l[2]
    BY <1>4, <1>5
  <2>3. <<c.to, r.path[m + 2]>> = l
    BY <1>1, <2>2
  <2>4. \A i \in 1..m : r.path[i] = c.path[i]
    BY <1>2, <1>4, <1>5, <2>1
  <2>5. r.path[m + 1] = c.to
    BY <1>2, <1>4, <1>5, <2>1
  <2>6. Len(r.path) > m
    BY <1>2, <1>4, <1>5
  <2> QED
    BY <1>1, <2>3, <2>4, <2>5, <2>6
<1>7. /\ \E S : r.proof.hops \in Seq(S)
      /\ r.proof.match # NoSigner =>
           /\ \A i \in s..Len(r.path) : key[r.path[i]] # 0
           /\ Outer(r.proof) = Signature(r.path[s])
  <2>1. CASE c.path = <<>>
    <3>1. m = 0 /\ s = 2 /\ m + 2 = 2
      BY <1>4, <1>5, <2>1 DEF First
    <3> QED
      BY <1>4, <1>5, <2>1, <3>1
  <2>2. CASE c.path # <<>>
    <3>1. m # 0 /\ s = m + 1
      BY <1>1, <2>2 DEF First
    <3>2. PICK S : q.proof.hops \in Seq(S)
      BY <1>4
    <3>3. r.proof = WrapHop(c.to, q.proof)
      BY <1>5, <2>2
    <3>4. /\ \E T : r.proof.hops \in Seq(T)
          /\ r.proof.match # NoSigner =>
               key[c.to] # 0 /\ q.proof.match # NoSigner /\ Outer(r.proof) = Signature(c.to)
      BY <3>2, <3>3, WrappedOutside
    <3>5. \A i \in s..Len(r.path) : i = m + 1 \/ i \in (m + 2)..Len(q.path)
      BY <1>2, <1>4, <1>5, <3>1
    <3> QED
      BY <1>4, <1>5, <1>6, <3>1, <3>4, <3>5
  <2> QED
    BY <2>1, <2>2
<1> HIDE DEF m, s
<1> QED
  BY <1>4, <1>5, <1>6, <1>7 DEF Vouched, m, s

\* So every result of a search is vouched for.
LEMMA SearchVouched == \A t \in Nat : \A c \in Calls : \A r \in Search[t][c] : Vouched(r, c)
<1> DEFINE Good == {t \in Nat : \A c \in Calls : \A r \in Search[t][c] : Vouched(r, c)}
<1>1. ASSUME NEW c \in Calls, NEW t \in Nat, NEW below,
             t > 0 => \A d \in Calls : \A q \in below[d] : Vouched(q, d),
             NEW r \in Answer(c, t, below)
      PROVE  Vouched(r, c)
  <2>1. CASE r = [path |-> Append(c.path, c.to), weight |-> 1, degree |-> Len(c.path),
                  proof |-> NewProof(c.to), proven |-> FALSE]
    BY <2>1, OwnVouched
  <2>2. ASSUME NEW l \in Onward(c.to, c.path), t > 0,
               NEW q \in below[[to |-> l[2], path |-> Append(c.path, c.to), lost |-> c.lost]],
               r = [q EXCEPT !.weight = Weight[l] * q.weight,
                       !.degree = Len(q.path) - Len(c.path) - 1,
                       !.proof  = IF c.path = <<>> THEN q.proof ELSE WrapHop(c.to, q.proof)]
        PROVE  Vouched(r, c)
    <3>1. [to |-> l[2], path |-> Append(c.path, c.to), lost |-> c.lost] \in Calls
      BY SearchAssumption DEF Calls, Onward, Callable
    <3>2. Vouched(q, [to |-> l[2], path |-> Append(c.path, c.to), lost |-> c.lost])
      BY <1>1, <2>2, <3>1
    <3> QED
      BY <2>2, <3>2, RelayedVouched
  <2> DEFINE here == Append(c.path, c.to)
             own == [path |-> here, weight |-> 1, degree |-> Len(c.path),
                     proof |-> NewProof(c.to), proven |-> FALSE]
             Passed(l, q) ==
               [q EXCEPT !.weight = Weight[l] * q.weight,
                         !.degree = Len(q.path) - Len(c.path) - 1,
                         !.proof  = IF c.path = <<>> THEN q.proof ELSE WrapHop(c.to, q.proof)]
  <2>3. \/ r = own
        \/ /\ t > 0
           /\ \E l \in Onward(c.to, c.path) :
                \E q \in below[[to |-> l[2], path |-> here, lost |-> c.lost]] : r = Passed(l, q)
    <3> DEFINE onward == IF t > 0 THEN Onward(c.to, c.path) ELSE {}
               Heard(l) == IF l \in c.lost \/ ~Accepts(l) \/ In(l[2], here) THEN {}
                           ELSE below[[to |-> l[2], path |-> here, lost |-> c.lost]]
    <3>1. Answer(c, t, below) =
            IF onward # {} /\ key[c.to] = 0 THEN {}
            ELSE (IF Matches(c.to) THEN {own} ELSE {})
                   \cup UNION {{Passed(l, q) : q \in Heard(l)} : l \in onward}
      BY DEF Answer
    <3> HIDE DEF own, Passed, Heard, onward
    <3>2. r = own \/ \E l \in onward : r \in {Passed(l, q) : q \in Heard(l)}
      BY <1>1, <3>1
    <3>3. \A l \in onward : t > 0 /\ l \in Onward(c.to, c.path)
      BY DEF onward
    <3>4. \A l : \A q \in Heard(l) :
            q \in below[[to |-> l[2], path |-> here, lost |-> c.lost]]
      BY DEF Heard
    <3> QED
      BY <3>2, <3>3, <3>4
  <2> QED
    BY <2>1, <2>2, <2>3
<1>2. 0 \in Good
  <2>1. \A c \in Calls : Search[0][c] = Answer(c, 0, <<>>)
    BY SearchUnfolds
  <2> QED
    BY <1>1, <2>1
<1>3. ASSUME NEW t \in Nat, t \in Good PROVE t + 1 \in Good
  <2>1. \A c \in Calls : Search[t + 1][c] = Answer(c, t + 1, Search[t])
    BY SearchUnfolds
  <2>2. t + 1 \in Nat /\ \A d \in Calls : \A q \in Search[t][d] : Vouched(q, d)
    BY <1>3
  <2>3. \A c \in Calls : \A r \in Search[t + 1][c] : Vouched(r, c)
    BY <1>1, <2>1, <2>2
  <2> QED
    BY <2>2, <2>3
<1>4. \A t \in Nat : t \in Good
  <2> HIDE DEF Good
  <2> QED
    BY <1>2, <1>3, EveryNumber
<1> QED
  BY <1>4

-----------------------------------------------------------------------------
(* PathSearch: the invariant. *)

\* A result that is not checked yet: what it says if it has a proof, given the keys
\* when it was asked for.
Carried(r) ==
  /\ IsResult(r) /\ r.path \in Seq(Nodes) /\ Len(r.path) > 0 /\ r.proven \in BOOLEAN
  /\ Len(r.path) > 1 =>
       LET l == <<Origin, r.path[2]>> IN l \in Links /\ (l \notin since => peer[l].key # 0)
  /\ r.proof.match # NoSigner =>
       /\ \A n \in Vouchers(r.path) : asked.key[n] # 0
       /\ Len(r.path) > 1 => Outer(r.proof).key = asked.key[r.path[2]]

PeersKnown == \A l \in Links : peer[l].status # "none" => peer[l].key # 0

SearchInv ==
  /\ SearchTypeOK
  /\ PeersKnown
  /\ answer # NoAnswer => \A r \in answer : Carried(r)
  /\ ProvenIsSigned

LEMMA SearchInitInv == SearchInit => SearchInv
<1> SUFFICES ASSUME SearchInit PROVE SearchInv
  OBVIOUS
<1>1. PICK n \in Nodes : items = [m \in Nodes |-> IF m = n THEN K ELSE K - 1]
  BY DEF SearchInit
<1>2. SearchTypeOK
  <2>1. items \in [Nodes -> 0..K]
    BY <1>1, SearchAssumption
  <2>2. 0 \in SomeKey /\ 1 \in SomeKey /\ 0 \in 0..MaxChanges
    BY SearchAssumption DEF SomeKey
  <2>3. checked \in BOOLEAN
    BY Zenon DEF SearchInit
  <2> QED
    BY <2>1, <2>2, <2>3 DEF SearchInit, SearchTypeOK, Status
<1>3. PeersKnown
  BY DEF SearchInit, PeersKnown
<1> QED
  BY <1>2, <1>3 DEF SearchInit, SearchInv, ProvenIsSigned

\* A change of one peer, of a key or of the items leaves what was answered, and is
\* remembered where it is a peer's.
LEMMA ChangeKeeps ==
  ASSUME SearchInv, NEW ls \in SUBSET Links, Change(ls),
         peer' \in [Links -> [status : Status, key : SomeKey]],
         key' \in [Nodes -> SomeKey], items' \in [Nodes -> 0..K],
         \A l \in Links \ ls : peer'[l] = peer[l], PeersKnown'
  PROVE  SearchInv'
<1>1. /\ ~checked /\ answer' = answer /\ checked' = checked /\ asked' = asked
      /\ changes' = changes + 1 /\ changes' \in 0..MaxChanges
      /\ answer # NoAnswer => since' = since \cup ls
      /\ since' \in SUBSET Links
  BY SearchAssumption DEF Change, SearchInv, SearchTypeOK
<1>2. SearchTypeOK'
  BY <1>1 DEF SearchInv, SearchTypeOK, SomeKey
<1>3. ASSUME answer # NoAnswer, NEW r \in answer PROVE Carried(r)'
  <2>1. Carried(r)
    BY <1>3 DEF SearchInv
  <2>2. ASSUME Len(r.path) > 1, <<Origin, r.path[2]>> \notin since'
        PROVE  peer'[<<Origin, r.path[2]>>].key # 0
    BY <1>1, <1>3, <2>1, <2>2 DEF Carried
  <2> QED
    BY <1>1, <2>1, <2>2 DEF Carried, Vouchers, IsResult
<1>4. ProvenIsSigned'
  BY <1>1 DEF ProvenIsSigned
<1> QED
  BY <1>1, <1>2, <1>3, <1>4 DEF SearchInv

\* What a question is answered.
LEMMA QueryKeeps ==
  ASSUME SearchInv, NEW t \in 0..MaxTtl, NEW failing \in SUBSET Links,
         FederatedQuery(t, failing)
  PROVE  SearchInv'
<1> DEFINE c == [to |-> Origin, path |-> <<>>, lost |-> failing]
<1>1. /\ answer' = Search[t][c] /\ asked' = [ttl |-> t, lost |-> failing, key |-> key]
      /\ peer' = peer /\ key' = key /\ items' = items /\ checked' = checked
      /\ changes' = changes /\ since' = since
  BY DEF FederatedQuery
<1>2. c \in Calls /\ c.path = <<>> /\ c.to = Origin /\ t \in Nat
  BY SearchAssumption DEF Calls
<1>3. ASSUME NEW r \in Search[t][c] PROVE Carried(r)' /\ r.proven = FALSE
  <2>1. Vouched(r, c)
    BY <1>2, <1>3, SearchVouched
  <2>2. Len(c.path) = 0 /\ Len(<<>>) = 0
    BY <1>2
  <2> HIDE DEF c
  <2>3. /\ IsResult(r) /\ r.proven = FALSE /\ r.path \in Seq(Nodes) /\ Len(r.path) > 0
        /\ r.path[1] = Origin
        /\ Len(r.path) > 1 => <<Origin, r.path[2]>> \in Callable(Origin)
    BY <1>2, <2>1, <2>2 DEF Vouched
  <2>4. Len(r.path) > 1 =>
          LET l == <<Origin, r.path[2]>> IN l \in Links /\ peer[l].key # 0
    BY <2>3 DEF Callable, SearchInv, PeersKnown
  <2>5. r.proof.match # NoSigner =>
           /\ \A i \in First(0, r.path)..Len(r.path) : key[r.path[i]] # 0
           /\ Outer(r.proof) = Signature(r.path[First(0, r.path)])
    BY <2>1, <2>2 DEF Vouched
  <2>6. asked'.key = key
    BY <1>1
  <2>7. ASSUME r.proof.match # NoSigner
        PROVE  /\ \A n \in Vouchers(r.path) : key[n] # 0
               /\ Len(r.path) > 1 => Outer(r.proof).key = key[r.path[2]]
    BY <2>3, <2>5, <2>7 DEF First, Vouchers, Signature
  <2> QED
    BY <1>1, <2>3, <2>4, <2>6, <2>7 DEF Carried, IsResult, Vouchers
<1> HIDE DEF c
<1>4. SearchTypeOK'
  <2>1. asked' \in [ttl : 0..MaxTtl, lost : SUBSET Links, key : [Nodes -> SomeKey]]
    BY <1>1 DEF SearchInv, SearchTypeOK
  <2>2. \A r \in answer' : r.proven \in BOOLEAN /\ r.path \in Seq(Nodes)
    BY <1>1, <1>3 DEF Carried
  <2> QED
    BY <1>1, <2>1, <2>2 DEF SearchInv, SearchTypeOK, SomeKey
<1>5. PeersKnown' /\ \A r \in answer' : Carried(r)' /\ r.proven = FALSE
  BY <1>1, <1>3 DEF SearchInv, PeersKnown
<1>6. ProvenIsSigned'
  BY <1>1, <1>5 DEF ProvenIsSigned
<1> QED
  BY <1>4, <1>5, <1>6 DEF SearchInv

\* What is proven is signed.
LEMMA CheckKeeps == ASSUME SearchInv, CheckProofs PROVE SearchInv'
<1> DEFINE Judged(r) == [r EXCEPT !.proven = Proven(r.proof, r.path, OnFile(r.path))]
<1>1. /\ answer # NoAnswer /\ answer' = {Judged(r) : r \in answer} /\ checked' = TRUE
      /\ peer' = peer /\ key' = key /\ items' = items /\ changes' = changes
      /\ asked' = asked /\ since' = since
  BY DEF CheckProofs
<1>2. ASSUME NEW r \in answer, NEW q, q = Judged(r)
      PROVE  /\ Carried(q)'
             /\ q.proven =>
                  /\ \A n \in Vouchers(r.path) : asked.key[n] # 0
                  /\ Len(r.path) > 1 => \/ <<Origin, r.path[2]>> \in since
                                        \/ asked.key[r.path[2]] = OnFile(r.path)
             /\ q.path = r.path
  <2>1. Carried(r)
    BY <1>1, <1>2 DEF SearchInv
  <2>2. Proven(r.proof, r.path, OnFile(r.path)) \in BOOLEAN
    BY DEF Proven
  <2>3. Proven(r.proof, r.path, OnFile(r.path)) =>
          /\ r.proof.match # NoSigner
          /\ Len(r.path) > 1 /\ OnFile(r.path) # 0 => Outer(r.proof).key = OnFile(r.path)
    BY DEF Proven
  <2>4. PICK ok \in BOOLEAN : ok = Proven(r.proof, r.path, OnFile(r.path))
    BY <2>2
  <2>5. q = [r EXCEPT !.proven = ok]
    BY <1>2, <2>4
  <2>6. r = [path |-> r.path, weight |-> r.weight, degree |-> r.degree,
             proof |-> r.proof, proven |-> r.proven]
    BY <2>1 DEF Carried, IsResult
  <2> HIDE DEF Judged
  <2>7. /\ q.path = r.path /\ q.proof = r.proof /\ q.proven = ok
        /\ IsResult(q)
    BY <2>5, <2>6 DEF IsResult
  <2>8. Carried(q)'
    BY <1>1, <2>1, <2>7 DEF Carried, Vouchers, IsResult
  <2>9. ok => /\ \A n \in Vouchers(r.path) : asked.key[n] # 0
              /\ Len(r.path) > 1 => \/ <<Origin, r.path[2]>> \in since
                                    \/ asked.key[r.path[2]] = OnFile(r.path)
    BY <2>1, <2>3, <2>4 DEF Carried, OnFile
  <2> QED
    BY <2>7, <2>8, <2>9
<1> HIDE DEF Judged
<1>3. \A p : OnFile(p)' = OnFile(p)
  BY <1>1 DEF OnFile
<1>4. \A q \in answer' :
        /\ Carried(q)'
        /\ q.proven =>
             /\ \A n \in Vouchers(q.path) : asked.key[n] # 0
             /\ Len(q.path) > 1 => \/ <<Origin, q.path[2]>> \in since
                                   \/ asked.key[q.path[2]] = OnFile(q.path)
  <2> SUFFICES ASSUME NEW q \in answer'
               PROVE  /\ Carried(q)'
                      /\ q.proven =>
                           /\ \A n \in Vouchers(q.path) : asked.key[n] # 0
                           /\ Len(q.path) > 1 => \/ <<Origin, q.path[2]>> \in since
                                                 \/ asked.key[q.path[2]] = OnFile(q.path)
    OBVIOUS
  <2>1. PICK r \in answer : q = Judged(r)
    BY <1>1
  <2>2. q.path = r.path
    BY <1>2, <2>1
  <2>3. Carried(q)'
    BY <1>2, <2>1
  <2> QED
    BY <1>2, <2>1, <2>2, <2>3
<1>5. ProvenIsSigned'
  BY <1>1, <1>3, <1>4 DEF ProvenIsSigned, Vouchers
<1>6. SearchTypeOK'
  <2>1. \A q \in answer' : q.proven \in BOOLEAN /\ q.path \in Seq(Nodes)
    BY <1>4 DEF Carried
  <2> QED
    BY <1>1, <2>1 DEF SearchInv, SearchTypeOK, SomeKey
<1> QED
  BY <1>1, <1>4, <1>5, <1>6 DEF SearchInv, PeersKnown

LEMMA SearchNextInv == SearchInv /\ [SearchNext]_searchVars => SearchInv'
<1> SUFFICES ASSUME SearchInv, [SearchNext]_searchVars PROVE SearchInv'
  OBVIOUS
<1>0. /\ peer \in [Links -> [status : Status, key : SomeKey]] /\ key \in [Nodes -> SomeKey]
      /\ items \in [Nodes -> 0..K] /\ PeersKnown /\ 0 \in SomeKey
      /\ \A l \in Links : l[2] \in Nodes
  BY SearchAssumption DEF SearchInv, SearchTypeOK, SomeKey
<1>1. ASSUME NEW l \in Links, NEW s \in {"active", "inbound"}, AddPeer(l, s) PROVE SearchInv'
  <2>1. /\ peer' = [peer EXCEPT ![l] = [status |-> s, key |-> key[l[2]]]] /\ key[l[2]] # 0
        /\ Change({l}) /\ key' = key /\ items' = items
    BY <1>1 DEF AddPeer
  <2>2. peer' \in [Links -> [status : Status, key : SomeKey]] /\ PeersKnown'
    BY <1>0, <2>1 DEF Status, PeersKnown
  <2> QED
    BY <1>0, <2>1, <2>2, ChangeKeeps
<1>2. ASSUME NEW l \in Links, NEW s \in {"active", "suspended"}, UpdatePeer(l, s)
      PROVE  SearchInv'
  <2>1. /\ peer' = [peer EXCEPT ![l].status = s] /\ peer[l].status # "none"
        /\ Change({l}) /\ key' = key /\ items' = items
    BY <1>2 DEF UpdatePeer
  <2>2. peer' \in [Links -> [status : Status, key : SomeKey]] /\ PeersKnown'
    BY <1>0, <2>1 DEF Status, PeersKnown
  <2> QED
    BY <1>0, <2>1, <2>2, ChangeKeeps
<1>3. ASSUME NEW l \in Links, RemovePeer(l) PROVE SearchInv'
  <2>1. /\ peer' = [peer EXCEPT ![l] = [status |-> "none", key |-> 0]]
        /\ Change({l}) /\ key' = key /\ items' = items
    BY <1>3 DEF RemovePeer
  <2>2. peer' \in [Links -> [status : Status, key : SomeKey]] /\ PeersKnown'
    BY <1>0, <2>1 DEF Status, PeersKnown
  <2> QED
    BY <1>0, <2>1, <2>2, ChangeKeeps
<1>4. ASSUME NEW n \in Nodes, NEW k \in SomeKey, SetKey(n, k) PROVE SearchInv'
  <2>1. key' = [key EXCEPT ![n] = k] /\ Change({}) /\ peer' = peer /\ items' = items
    BY <1>4 DEF SetKey
  <2>2. key' \in [Nodes -> SomeKey] /\ PeersKnown'
    BY <1>0, <2>1 DEF PeersKnown
  <2> QED
    BY <1>0, <2>1, <2>2, ChangeKeeps
<1>5. ASSUME NEW n \in Nodes, NEW k \in 0..K, ChangeItems(n, k) PROVE SearchInv'
  <2>1. items' = [items EXCEPT ![n] = k] /\ Change({}) /\ peer' = peer /\ key' = key
    BY <1>5 DEF ChangeItems
  <2>2. items' \in [Nodes -> 0..K] /\ PeersKnown'
    BY <1>0, <2>1 DEF PeersKnown
  <2> QED
    BY <1>0, <2>1, <2>2, ChangeKeeps
<1>6. ASSUME NEW t \in 0..MaxTtl, NEW failing \in {{}} \cup {{l} : l \in Links},
             FederatedQuery(t, failing)
      PROVE  SearchInv'
  <2>1. failing \in SUBSET Links
    OBVIOUS
  <2> QED
    BY <1>6, <2>1, QueryKeeps
<1>7. ASSUME CheckProofs PROVE SearchInv'
  BY <1>7, CheckKeeps
<1>8. CASE UNCHANGED searchVars
  <2>1. \A r : Carried(r)' <=> Carried(r)
    BY <1>8 DEF searchVars, Carried, Vouchers, IsResult
  <2> QED
    BY <1>8, <2>1 DEF searchVars, SearchInv, SearchTypeOK, PeersKnown, ProvenIsSigned, OnFile
<1> QED
  BY <1>1, <1>2, <1>3, <1>4, <1>5, <1>6, <1>7, <1>8 DEF SearchNext

\* Every variable of a search keeps its type, whoever adds, suspends or removes peers.
THEOREM SearchTypeCorrect == SearchSpec => []SearchTypeOK
<1>1. SearchInv => SearchTypeOK
  BY DEF SearchInv
<1> QED
  BY <1>1, SearchInitInv, SearchNextInv, PTL DEF SearchSpec

\* A result that is called proven carries the signature of every node it came
\* through, and the first is with the key on file, unless the operator has changed
\* that peer since the question: for any nodes, links, keys and times to live.
THEOREM ProvenIsSignedHolds == SearchSpec => []ProvenIsSigned
<1>1. SearchInv => ProvenIsSigned
  BY DEF SearchInv
<1> QED
  BY <1>1, SearchInitInv, SearchNextInv, PTL DEF SearchSpec

-----------------------------------------------------------------------------
(* PathSearch: a search finds every path. *)

\* A call whose path has no loop, and does not lead back into itself.
Simple(c) ==
  /\ ~In(c.to, c.path)
  /\ \A i, j \in 1..Len(c.path) : c.path[i] = c.path[j] => i = j

\* p goes on from c's path, without a loop, to a node with enough items at most t hops
\* further, and everybody on the way is asked and gets its own answer out.
Reaches(p, c, t) ==
  LET m == Len(c.path) IN
  /\ p \in Seq(Nodes) /\ Len(p) \in (m + 1)..(m + 1 + t)
  /\ \A i \in 1..m : p[i] = c.path[i]
  /\ p[m + 1] = c.to
  /\ \A i, j \in 1..Len(p) : p[i] = p[j] => i = j
  /\ Matches(p[Len(p)])
  /\ \A i \in (m + 1)..(Len(p) - 1) :
       <<p[i], p[i + 1]>> \in Callable(p[i]) \ c.lost /\ Accepts(<<p[i], p[i + 1]>>)
  /\ \A i \in (m + 1)..Len(p) : key[p[i]] = 0 /\ i <= m + t =>
       \A l \in Callable(p[i]) : \E j \in 1..i : p[j] = l[2]

\* w[i] is the product of the weights on p from its node i on, for the nodes after m.
Weighs(w, p, m) ==
  /\ w[Len(p)] = 1
  /\ \A i \in (m + 1)..(Len(p) - 1) : w[i] = Weight[<<p[i], p[i + 1]>>] * w[i + 1]

Weighed(r, c) ==
  /\ IsResult(r)
  /\ Len(c.path) = 0 => r.degree = Len(r.path) - 1
  /\ \E w : Weighs(w, r.path, Len(c.path)) /\ r.weight = w[Len(c.path) + 1]

\* What a node answers, spelt out.
Own(c) == [path |-> Append(c.path, c.to), weight |-> 1, degree |-> Len(c.path),
           proof |-> NewProof(c.to), proven |-> FALSE]

Onto(c, l) == [to |-> l[2], path |-> Append(c.path, c.to), lost |-> c.lost]

Passed(c, l, q) ==
  [q EXCEPT !.weight = Weight[l] * q.weight,
            !.degree = Len(q.path) - Len(c.path) - 1,
            !.proof  = IF c.path = <<>> THEN q.proof ELSE WrapHop(c.to, q.proof)]

\* It fails for want of a key.
Mute(c, t) == t > 0 /\ Onward(c.to, c.path) # {} /\ key[c.to] = 0

LEMMA AnswerHolds ==
  ASSUME NEW c \in Calls, NEW t \in Nat, NEW below, NEW r
  PROVE  r \in Answer(c, t, below) <=>
           /\ ~Mute(c, t)
           /\ \/ Matches(c.to) /\ r = Own(c)
              \/ /\ t > 0
                 /\ \E l \in Onward(c.to, c.path) :
                      /\ l \notin c.lost /\ Accepts(l) /\ ~In(l[2], Append(c.path, c.to))
                      /\ \E q \in below[Onto(c, l)] : r = Passed(c, l, q)
<1> DEFINE onward == IF t > 0 THEN Onward(c.to, c.path) ELSE {}
           Heard(l) == IF l \in c.lost \/ ~Accepts(l) \/ In(l[2], Append(c.path, c.to)) THEN {}
                       ELSE below[Onto(c, l)]
<1>1. Answer(c, t, below) =
        IF onward # {} /\ key[c.to] = 0 THEN {}
        ELSE (IF Matches(c.to) THEN {Own(c)} ELSE {})
               \cup UNION {{Passed(c, l, q) : q \in Heard(l)} : l \in onward}
  BY DEF Answer, Own, Onto, Passed
<1>2. Mute(c, t) <=> onward # {} /\ key[c.to] = 0
  BY DEF Mute
<1>3. \A l : l \in onward <=> t > 0 /\ l \in Onward(c.to, c.path)
  OBVIOUS
<1>4. \A l, q : q \in Heard(l) <=>
        /\ l \notin c.lost /\ Accepts(l) /\ ~In(l[2], Append(c.path, c.to))
        /\ q \in below[Onto(c, l)]
  OBVIOUS
<1> HIDE DEF onward, Heard
<1>5. CASE Mute(c, t)
  BY <1>1, <1>2, <1>5
<1>6. CASE ~Mute(c, t)
  <2>1. r \in Answer(c, t, below) <=>
          \/ Matches(c.to) /\ r = Own(c)
          \/ \E l \in onward : r \in {Passed(c, l, q) : q \in Heard(l)}
    BY <1>1, <1>2, <1>6
  <2>2. \A l : r \in {Passed(c, l, q) : q \in Heard(l)}
                 <=> \E q \in Heard(l) : r = Passed(c, l, q)
    OBVIOUS
  <2> QED
    BY <1>3, <1>4, <1>6, <2>1, <2>2
<1> QED
  BY <1>5, <1>6

\* The path of a call with the node called.
LEMMA HereFacts ==
  ASSUME NEW c \in Calls
  PROVE  LET here == Append(c.path, c.to)
             m == Len(c.path)
         IN  /\ c.path \in Seq(Nodes) /\ c.to \in Nodes /\ m \in Nat
             /\ here \in Seq(Nodes) /\ Len(here) = m + 1 /\ here[m + 1] = c.to
             /\ \A i \in 1..m : here[i] = c.path[i]
             /\ Simple(c) => \A i, j \in 1..(m + 1) : here[i] = here[j] => i = j
<1> DEFINE here == Append(c.path, c.to)
           m == Len(c.path)
<1>1. c.path \in Seq(Nodes) /\ c.to \in Nodes /\ m \in Nat
  BY DEF Calls
<1>2. /\ here \in Seq(Nodes) /\ Len(here) = m + 1 /\ here[m + 1] = c.to
      /\ \A i \in 1..m : here[i] = c.path[i]
  BY <1>1
<1> HIDE DEF here
<1>3. ASSUME Simple(c), NEW i \in 1..(m + 1), NEW j \in 1..(m + 1), here[i] = here[j]
      PROVE  i = j
  <2>1. \A k \in 1..m : here[k] # c.to
    BY <1>2, <1>3 DEF Simple, In
  <2>2. (i \in 1..m \/ i = m + 1) /\ (j \in 1..m \/ j = m + 1)
    BY <1>1
  <2> QED
    BY <1>2, <1>3, <2>1, <2>2 DEF Simple
<1> QED
  BY <1>1, <1>2, <1>3 DEF here

\* The call to a peer that is not on the path is a call without a loop.
LEMMA OntoSimple ==
  ASSUME NEW c \in Calls, Simple(c), NEW l \in Links, ~In(l[2], Append(c.path, c.to))
  PROVE  Onto(c, l) \in Calls /\ Simple(Onto(c, l))
<1> DEFINE here == Append(c.path, c.to)
<1>1. here \in Seq(Nodes) /\ \A i, j \in 1..Len(here) : here[i] = here[j] => i = j
  BY HereFacts
<1>2. Onto(c, l) \in Calls
  BY <1>1, SearchAssumption DEF Onto, Calls
<1>3. Onto(c, l).to = l[2] /\ Onto(c, l).path = here
  BY DEF Onto
<1> HIDE DEF here
<1>4. Simple(Onto(c, l))
  BY <1>1, <1>3 DEF Simple, here
<1> QED
  BY <1>2, <1>4

\* A path goes on from a call as it goes on from the call to the next node on it.
LEMMA ReachesOn ==
  ASSUME NEW c \in Calls, Simple(c), NEW t \in Nat, t > 0, NEW l \in Links, l[1] = c.to,
         ~In(l[2], Append(c.path, c.to)), NEW p
  PROVE  Reaches(p, Onto(c, l), t - 1) /\ ~Mute(c, t)
           /\ l \in Callable(c.to) /\ l \notin c.lost /\ Accepts(l)
         <=> Reaches(p, c, t) /\ Len(p) > Len(c.path) + 1 /\ p[Len(c.path) + 2] = l[2]
<1> DEFINE here == Append(c.path, c.to)
           m == Len(c.path)
           d == Onto(c, l)
<1>1. /\ m \in Nat /\ Len(here) = m + 1 /\ here[m + 1] = c.to
      /\ \A i \in 1..m : here[i] = c.path[i]
  BY HereFacts
<1>2. /\ d.to = l[2] /\ d.path = here /\ d.lost = c.lost
      /\ Len(d.path) = m + 1
  BY <1>1 DEF Onto
<1>3. ~Mute(c, t) /\ l \in Callable(c.to) => key[c.to] # 0
  BY DEF Mute, Onward
<1>4. l = <<c.to, l[2]>> /\ \A i \in 1..(m + 1) : here[i] # l[2]
  <2>1. l = <<l[1], l[2]>>
    BY SearchAssumption
  <2> QED
    BY <1>1, <2>1 DEF In
<1> HIDE DEF here, d
<1>5. ASSUME Reaches(p, d, t - 1), ~Mute(c, t),
             l \in Callable(c.to), l \notin c.lost, Accepts(l)
      PROVE  Reaches(p, c, t) /\ Len(p) > m + 1 /\ p[m + 2] = l[2]
  <2>1. /\ p \in Seq(Nodes) /\ Len(p) \in (m + 2)..(m + 1 + t) /\ Len(p) \in Nat
        /\ \A i \in 1..(m + 1) : p[i] = here[i]
        /\ p[m + 2] = l[2]
        /\ \A i, j \in 1..Len(p) : p[i] = p[j] => i = j
        /\ Matches(p[Len(p)])
    BY <1>1, <1>2, <1>5 DEF Reaches
  <2>2. /\ \A i \in (m + 2)..(Len(p) - 1) :
             <<p[i], p[i + 1]>> \in Callable(p[i]) \ c.lost /\ Accepts(<<p[i], p[i + 1]>>)
        /\ \A i \in (m + 2)..Len(p) : key[p[i]] = 0 /\ i <= m + t =>
             \A k \in Callable(p[i]) : \E j \in 1..i : p[j] = k[2]
    <3>1. (m + 1) + 1 = m + 2 /\ (m + 1) + (t - 1) = m + t
      BY <1>1
    <3>2. PICK k : k = Len(d.path) /\ k = m + 1 /\ k + 1 = m + 2 /\ k + (t - 1) = m + t
      BY <1>2, <3>1
    <3>3. /\ \A i \in (k + 1)..(Len(p) - 1) :
               <<p[i], p[i + 1]>> \in Callable(p[i]) \ d.lost /\ Accepts(<<p[i], p[i + 1]>>)
          /\ \A i \in (k + 1)..Len(p) : key[p[i]] = 0 /\ i <= k + (t - 1) =>
               \A h \in Callable(p[i]) : \E j \in 1..i : p[j] = h[2]
      BY <1>5, <3>2 DEF Reaches
    <3> QED
      BY <1>2, <3>2, <3>3
  <2>3. p[m + 1] = c.to /\ \A i \in 1..m : p[i] = c.path[i]
    BY <1>1, <2>1
  <2>4. <<p[m + 1], p[m + 2]>> = l /\ key[p[m + 1]] # 0 /\ (m + 1) + 1 = m + 2
    BY <1>1, <1>3, <1>4, <1>5, <2>1, <2>3
  <2>5. \A i \in (m + 1)..(Len(p) - 1) :
             <<p[i], p[i + 1]>> \in Callable(p[i]) \ c.lost /\ Accepts(<<p[i], p[i + 1]>>)
    <3> SUFFICES ASSUME NEW i \in (m + 1)..(Len(p) - 1)
                 PROVE  /\ <<p[i], p[i + 1]>> \in Callable(p[i]) \ c.lost
                        /\ Accepts(<<p[i], p[i + 1]>>)
      OBVIOUS
    <3>1. CASE i = m + 1
      BY <1>5, <2>3, <2>4, <3>1
    <3>2. CASE i # m + 1
      <4>1. i \in (m + 2)..(Len(p) - 1)
        BY <1>1, <2>1, <3>2
      <4> QED
        BY <2>2, <4>1
    <3> QED
      BY <3>1, <3>2
  <2>6. \A i \in (m + 1)..Len(p) : key[p[i]] = 0 /\ i <= m + t =>
             \A k \in Callable(p[i]) : \E j \in 1..i : p[j] = k[2]
    <3> SUFFICES ASSUME NEW i \in (m + 1)..Len(p), key[p[i]] = 0 /\ i <= m + t
                 PROVE  \A k \in Callable(p[i]) : \E j \in 1..i : p[j] = k[2]
      OBVIOUS
    <3>1. i # m + 1
      BY <2>4
    <3>2. i \in (m + 2)..Len(p)
      BY <1>1, <2>1, <3>1
    <3> QED
      BY <2>2, <3>2
  <2> QED
    BY <1>1, <2>1, <2>3, <2>5, <2>6 DEF Reaches
<1>6. ASSUME Reaches(p, c, t), Len(p) > m + 1, p[m + 2] = l[2]
      PROVE  /\ Reaches(p, d, t - 1) /\ ~Mute(c, t)
             /\ l \in Callable(c.to) /\ l \notin c.lost /\ Accepts(l)
  <2>1. /\ p \in Seq(Nodes) /\ Len(p) \in (m + 1)..(m + 1 + t) /\ Len(p) \in Nat
        /\ \A i \in 1..m : p[i] = c.path[i]
        /\ p[m + 1] = c.to
        /\ \A i, j \in 1..Len(p) : p[i] = p[j] => i = j
        /\ Matches(p[Len(p)])
    BY <1>6 DEF Reaches
  <2>2. /\ \A i \in (m + 1)..(Len(p) - 1) :
             <<p[i], p[i + 1]>> \in Callable(p[i]) \ c.lost /\ Accepts(<<p[i], p[i + 1]>>)
        /\ \A i \in (m + 1)..Len(p) : key[p[i]] = 0 /\ i <= m + t =>
             \A k \in Callable(p[i]) : \E j \in 1..i : p[j] = k[2]
    BY <1>6 DEF Reaches
  <2>3. <<p[m + 1], p[m + 2]>> = l /\ (m + 1) + 1 = m + 2 /\ m + 1 \in (m + 1)..(Len(p) - 1)
    BY <1>1, <1>4, <1>6, <2>1
  <2>4. l \in Callable(c.to) /\ l \notin c.lost /\ Accepts(l)
    BY <2>1, <2>2, <2>3
  <2>5. key[c.to] # 0
    <3> SUFFICES ASSUME key[c.to] = 0 PROVE FALSE
      OBVIOUS
    <3>1. m + 1 \in (m + 1)..Len(p) /\ m + 1 <= m + t
      BY <1>1, <2>1, <2>3
    <3>2. PICK j \in 1..(m + 1) : p[j] = l[2]
      BY SMTT(30), <2>1, <2>2, <2>4, <3>1
    <3>3. m + 2 \in 1..Len(p) /\ j \in 1..Len(p) /\ j # m + 2
      BY <1>1, <1>6, <2>1
    <3> QED
      BY <1>6, <2>1, <3>2, <3>3
  <2>6. \A i \in 1..(m + 1) : p[i] = here[i]
    BY <1>1, <2>1
  <2>7. /\ Len(p) \in (m + 2)..(m + 2 + (t - 1))
        /\ \A i \in (m + 2)..(Len(p) - 1) : i \in (m + 1)..(Len(p) - 1)
        /\ \A i \in (m + 2)..Len(p) : i \in (m + 1)..Len(p)
        /\ (m + 1) + (t - 1) = m + t
    BY <1>1, <1>6, <2>1
  <2>8. Reaches(p, d, t - 1)
    <3>1. PICK k : /\ k = Len(d.path) /\ k = m + 1 /\ k + 1 = m + 2 /\ k + (t - 1) = m + t
                   /\ k + 1 + (t - 1) = m + 2 + (t - 1)
      BY <1>2, <2>3, <2>7
    <3>2. /\ Len(p) \in (k + 1)..(k + 1 + (t - 1)) /\ p[k + 1] = d.to
          /\ \A i \in 1..k : p[i] = d.path[i]
      BY <1>2, <1>6, <2>6, <2>7, <3>1
    <3>3. /\ \A i \in (k + 1)..(Len(p) - 1) :
               <<p[i], p[i + 1]>> \in Callable(p[i]) \ d.lost /\ Accepts(<<p[i], p[i + 1]>>)
          /\ \A i \in (k + 1)..Len(p) : key[p[i]] = 0 /\ i <= k + (t - 1) =>
               \A h \in Callable(p[i]) : \E j \in 1..i : p[j] = h[2]
      BY <1>2, <2>2, <2>7, <3>1
    <3> QED
      BY <2>1, <3>1, <3>2, <3>3 DEF Reaches
  <2> QED
    BY <2>4, <2>5, <2>8 DEF Mute
<1> QED
  BY <1>5, <1>6 DEF d

\* And it ends with the node called if that has enough items.
LEMMA ReachesOwn ==
  ASSUME NEW c \in Calls, Simple(c), NEW t \in Nat, NEW p
  PROVE  Reaches(p, c, t) /\ Len(p) = Len(c.path) + 1
         <=> p = Append(c.path, c.to) /\ Matches(c.to) /\ ~Mute(c, t)
<1> DEFINE here == Append(c.path, c.to)
           m == Len(c.path)
<1>1. /\ m \in Nat /\ here \in Seq(Nodes) /\ Len(here) = m + 1 /\ here[m + 1] = c.to
      /\ \A i \in 1..m : here[i] = c.path[i]
      /\ \A i, j \in 1..(m + 1) : here[i] = here[j] => i = j
  BY HereFacts
<1>2. Callable(c.to) \subseteq Links
  BY DEF Callable
<1> HIDE DEF here
<1>3. Mute(c, t) <=>
        t > 0 /\ key[c.to] = 0 /\ \E l \in Callable(c.to) : \A j \in 1..(m + 1) : here[j] # l[2]
  BY <1>1 DEF Mute, Onward, In, here
<1>4. ASSUME Reaches(p, c, t), Len(p) = m + 1
      PROVE  p = here /\ Matches(c.to) /\ ~Mute(c, t)
  <2>1. /\ p \in Seq(Nodes) /\ p[m + 1] = c.to /\ \A i \in 1..m : p[i] = c.path[i]
        /\ Matches(c.to)
        /\ key[c.to] = 0 /\ t > 0 =>
             \A l \in Callable(c.to) : \E j \in 1..(m + 1) : p[j] = l[2]
    <3>1. m + 1 \in (m + 1)..Len(p) /\ (t > 0 => m + 1 <= m + t)
      BY <1>1, <1>4
    <3> QED
      BY <1>1, <1>4, <3>1 DEF Reaches
  <2>2. \A i \in 1..Len(p) : p[i] = here[i]
    BY <1>1, <1>4, <2>1
  <2>3. p = here
    <3>1. p \in Seq(Nodes) /\ here \in Seq(Nodes) /\ Len(p) = Len(here)
      BY <1>1, <1>4, <2>1
    <3> QED
      BY <2>2, <3>1, SeqEqual
  <2> QED
    BY <1>3, <2>1, <2>3
<1>5. ASSUME p = here, Matches(c.to), ~Mute(c, t)
      PROVE  Reaches(p, c, t) /\ Len(p) = m + 1
  <2>1. \A i \in (m + 1)..Len(p) : i = m + 1
    BY <1>1, <1>5
  <2>2. \A i \in (m + 1)..Len(p) : key[p[i]] = 0 /\ i <= m + t =>
          \A l \in Callable(p[i]) : \E j \in 1..i : p[j] = l[2]
    BY <1>1, <1>3, <1>5, <2>1
  <2>3. (m + 1)..(Len(p) - 1) = {} /\ Len(p) \in (m + 1)..(m + 1 + t)
    BY <1>1, <1>5
  <2> QED
    BY <1>1, <1>5, <2>2, <2>3 DEF Reaches
<1> QED
  BY <1>4, <1>5 DEF here

\* A node's own match weighs 1.
LEMMA OwnWeighed ==
  ASSUME NEW c \in Calls
  PROVE  Weighed(Own(c), c) /\ Own(c).path = Append(c.path, c.to)
<1> DEFINE here == Append(c.path, c.to)
           m == Len(c.path)
           w == [i \in {m + 1} |-> 1]
<1>1. m \in Nat /\ Len(here) = m + 1
  BY HereFacts
<1>2. Own(c).path = here /\ Own(c).weight = 1 /\ Own(c).degree = m /\ IsResult(Own(c))
  BY DEF Own, IsResult
<1> HIDE DEF here
<1>3. w[m + 1] = 1 /\ Weighs(w, here, m)
  BY <1>1 DEF Weighs
<1> HIDE DEF w
<1>4. Weighed(Own(c), c)
  BY <1>1, <1>2, <1>3 DEF Weighed
<1> QED
  BY <1>2, <1>4 DEF here

\* A relay weighs what it passes on with the link it came by.
LEMMA PassedWeighed ==
  ASSUME NEW c \in Calls, NEW l \in Links, l[1] = c.to, NEW q, Weighed(q, Onto(c, l)),
         q.path \in Seq(Nodes), Len(q.path) > Len(c.path) + 1,
         q.path[Len(c.path) + 1] = c.to, q.path[Len(c.path) + 2] = l[2]
  PROVE  Weighed(Passed(c, l, q), c) /\ Passed(c, l, q).path = q.path
<1> DEFINE m == Len(c.path)
           r == Passed(c, l, q)
           p == q.path
<1>1. m \in Nat /\ Len(Onto(c, l).path) = m + 1 /\ (m + 1) + 1 = m + 2 /\ Len(p) \in Nat
  BY HereFacts DEF Onto
<1>2. PICK w : Weighs(w, p, m + 1) /\ q.weight = w[m + 2]
  BY <1>1 DEF Weighed
<1>3. /\ r.path = p /\ r.weight = Weight[l] * w[m + 2] /\ r.degree = Len(p) - m - 1
      /\ IsResult(r)
  <2>1. q = [path |-> q.path, weight |-> q.weight, degree |-> q.degree,
             proof |-> q.proof, proven |-> q.proven]
    BY DEF Weighed, IsResult
  <2>2. PICK proof : proof = IF c.path = <<>> THEN q.proof ELSE WrapHop(c.to, q.proof)
    OBVIOUS
  <2>3. r = [q EXCEPT !.weight = Weight[l] * q.weight, !.degree = Len(p) - m - 1,
                      !.proof  = proof]
    BY <2>2 DEF Passed
  <2>4. r = [path |-> p, weight |-> Weight[l] * q.weight, degree |-> Len(p) - m - 1,
             proof |-> proof, proven |-> q.proven]
    BY <2>1, <2>3
  <2> HIDE DEF r, p
  <2> QED
    BY <1>2, <2>4 DEF IsResult
<1>4. l = <<p[m + 1], p[m + 2]>>
  BY SearchAssumption
<1> DEFINE v == [i \in (m + 1)..Len(p) |-> IF i = m + 1 THEN Weight[l] * w[m + 2] ELSE w[i]]
<1>5. v[m + 1] = Weight[l] * w[m + 2] /\ \A i \in (m + 2)..Len(p) : v[i] = w[i]
  BY <1>1
<1> HIDE DEF r, p, v
<1>6. v[Len(p)] = 1
  <2>1. w[Len(p)] = 1
    BY <1>2 DEF Weighs
  <2>2. Len(p) \in (m + 2)..Len(p)
    BY <1>1 DEF p
  <2> QED
    BY <1>5, <2>1, <2>2
<1>7. \A i \in (m + 1)..(Len(p) - 1) : v[i] = Weight[<<p[i], p[i + 1]>>] * v[i + 1]
  <2> SUFFICES ASSUME NEW i \in (m + 1)..(Len(p) - 1)
               PROVE  v[i] = Weight[<<p[i], p[i + 1]>>] * v[i + 1]
    OBVIOUS
  <2>1. CASE i = m + 1
    <3>1. i + 1 = m + 2 /\ v[m + 2] = w[m + 2]
      BY <1>1, <1>5, <2>1
    <3> QED
      BY <1>4, <1>5, <2>1, <3>1
  <2>2. CASE i # m + 1
    <3>1. i \in (m + 2)..Len(p) /\ i + 1 \in (m + 2)..Len(p) /\ i \in (m + 2)..(Len(p) - 1)
      BY <1>1, <2>2
    <3>2. w[i] = Weight[<<p[i], p[i + 1]>>] * w[i + 1]
      BY <1>1, <1>2, <3>1 DEF Weighs
    <3> QED
      BY <1>5, <3>1, <3>2
  <2> QED
    BY <2>1, <2>2
<1>8. Weighs(v, r.path, m) /\ r.weight = v[m + 1] /\ (m = 0 => r.degree = Len(r.path) - 1)
  BY <1>1, <1>3, <1>5, <1>6, <1>7 DEF Weighs
<1>9. Weighed(r, c)
  BY <1>3, <1>8 DEF Weighed
<1> QED
  BY <1>3, <1>9 DEF r, p

\* What is found is every path that goes on from the call, weighed, and nothing else.
FindsFrom(found, c, t) ==
  /\ \A r \in found : Reaches(r.path, c, t) /\ Weighed(r, c)
  /\ \A p : Reaches(p, c, t) => \E r \in found : r.path = p

FindsAll(t) == \A c \in Calls : Simple(c) => FindsFrom(Search[t][c], c, t)

LEMMA AnswerFindsAll ==
  ASSUME NEW t \in Nat, NEW below,
         t > 0 => \A d \in Calls : Simple(d) => FindsFrom(below[d], d, t - 1),
         NEW c \in Calls, Simple(c)
  PROVE  FindsFrom(Answer(c, t, below), c, t)
<1> DEFINE m == Len(c.path)
           here == Append(c.path, c.to)
<1>1. ASSUME NEW r \in Answer(c, t, below) PROVE Reaches(r.path, c, t) /\ Weighed(r, c)
  <2>1. ~Mute(c, t)
    BY <1>1, AnswerHolds
  <2>2. CASE Matches(c.to) /\ r = Own(c)
    <3>1. Weighed(r, c) /\ r.path = here
      BY <2>2, OwnWeighed
    <3> QED
      BY <2>1, <2>2, <3>1, ReachesOwn
  <2>3. ASSUME t > 0, NEW l \in Onward(c.to, c.path), l \notin c.lost, Accepts(l), ~In(l[2], here),
               NEW q \in below[Onto(c, l)], r = Passed(c, l, q)
        PROVE  Reaches(r.path, c, t) /\ Weighed(r, c)
    <3>1. l \in Links /\ l[1] = c.to /\ l \in Callable(c.to)
      BY DEF Onward, Callable
    <3>2. Onto(c, l) \in Calls /\ Simple(Onto(c, l))
      BY <2>3, <3>1, OntoSimple
    <3>3. Reaches(q.path, Onto(c, l), t - 1) /\ Weighed(q, Onto(c, l))
      BY <2>3, <3>2 DEF FindsFrom
    <3>4. Reaches(q.path, c, t) /\ Len(q.path) > m + 1 /\ q.path[m + 2] = l[2]
      BY <2>1, <2>3, <3>1, <3>3, ReachesOn
    <3>5. q.path \in Seq(Nodes) /\ q.path[m + 1] = c.to
      BY <3>4 DEF Reaches
    <3>6. Weighed(r, c) /\ r.path = q.path
      BY <2>3, <3>1, <3>3, <3>4, <3>5, PassedWeighed
    <3> QED
      BY <3>4, <3>6
  <2> QED
    BY <1>1, <2>2, <2>3, AnswerHolds
<1>2. ASSUME NEW p, Reaches(p, c, t) PROVE \E r \in Answer(c, t, below) : r.path = p
  <2>1. p \in Seq(Nodes) /\ Len(p) \in (m + 1)..(m + 1 + t) /\ m \in Nat
    BY <1>2, HereFacts DEF Reaches
  <2>2. CASE Len(p) = m + 1
    <3>1. p = here /\ Matches(c.to) /\ ~Mute(c, t)
      BY <1>2, <2>2, ReachesOwn
    <3>2. Own(c) \in Answer(c, t, below)
      BY <3>1, AnswerHolds
    <3> QED
      BY <3>1, <3>2, OwnWeighed
  <2>3. CASE Len(p) # m + 1
    <3> DEFINE l == <<p[m + 1], p[m + 2]>>
    <3>1. /\ t > 0 /\ Len(p) > m + 1 /\ m + 1 \in (m + 1)..(Len(p) - 1) /\ (m + 1) + 1 = m + 2
          /\ m + 2 \in 1..Len(p) /\ m + 1 \in 1..Len(p)
      BY <2>1, <2>3
    <3>2. p[m + 1] = c.to /\ l \in Callable(c.to)
      BY <1>2, <3>1 DEF Reaches
    <3>3. l \in Links /\ l[1] = c.to /\ l[2] = p[m + 2]
      BY <3>2 DEF Callable
    <3>4. ~In(l[2], here)
      <4>1. \A i \in 1..(m + 1) : p[i] = here[i] /\ Len(here) = m + 1
        BY <1>2, <2>1, HereFacts DEF Reaches
      <4>2. \A i \in 1..(m + 1) : p[i] # p[m + 2]
        <5>1. \A i \in 1..(m + 1) : i \in 1..Len(p) /\ i # m + 2
          BY <2>1, <3>1
        <5> QED
          BY <1>2, <3>1, <5>1 DEF Reaches
      <4>3. Len(here) = m + 1
        BY HereFacts
      <4> QED
        BY <3>3, <4>1, <4>2, <4>3 DEF In
    <3> HIDE DEF l
    <3>5. Reaches(p, Onto(c, l), t - 1) /\ ~Mute(c, t) /\ l \notin c.lost /\ Accepts(l)
      BY <1>2, <3>1, <3>3, <3>4, ReachesOn
    <3>6. Onto(c, l) \in Calls /\ Simple(Onto(c, l))
      BY <3>3, <3>4, OntoSimple
    <3>7. PICK q \in below[Onto(c, l)] : q.path = p
      BY <3>1, <3>5, <3>6 DEF FindsFrom
    <3>8. Weighed(q, Onto(c, l))
      BY <3>1, <3>6 DEF FindsFrom
    <3>9. Passed(c, l, q).path = p
      BY <2>1, <3>1, <3>2, <3>3, <3>7, <3>8, PassedWeighed
    <3>10. l \in Onward(c.to, c.path)
      BY <3>2, <3>4 DEF Onward
    <3>11. Passed(c, l, q) \in Answer(c, t, below)
      BY <3>1, <3>4, <3>5, <3>10, AnswerHolds
    <3> QED
      BY <3>9, <3>11
  <2> QED
    BY <2>2, <2>3
<1> QED
  BY <1>1, <1>2 DEF FindsFrom

LEMMA SearchFindsAll == \A t \in Nat : FindsAll(t)
<1> DEFINE Good == {t \in Nat : FindsAll(t)}
<1>1. 0 \in Good
  <2>1. \A c \in Calls : Search[0][c] = Answer(c, 0, <<>>)
    BY SearchUnfolds
  <2>2. \A c \in Calls : Simple(c) => FindsFrom(Answer(c, 0, <<>>), c, 0)
    <3>1. ~(0 > 0)
      OBVIOUS
    <3> QED
      BY <3>1, AnswerFindsAll
  <2>3. FindsAll(0)
    BY <2>1, <2>2 DEF FindsAll
  <2> QED
    BY <2>3
<1>2. ASSUME NEW t \in Nat, t \in Good PROVE t + 1 \in Good
  <2>1. \A c \in Calls : Search[t + 1][c] = Answer(c, t + 1, Search[t])
    BY SearchUnfolds
  <2>2. PICK s \in Nat : s = t + 1 /\ s - 1 = t
    OBVIOUS
  <2>3. FindsAll(t)
    BY <1>2
  <2>4. \A c \in Calls : Simple(c) => FindsFrom(Answer(c, s, Search[t]), c, s)
    <3>1. PICK below : below = Search[t]
      OBVIOUS
    <3>2. \A d \in Calls : Simple(d) => FindsFrom(below[d], d, s - 1)
      BY <2>2, <2>3, <3>1 DEF FindsAll
    <3>3. \A c \in Calls : Simple(c) => FindsFrom(Answer(c, s, below), c, s)
      BY <3>2, AnswerFindsAll
    <3> QED
      BY <3>1, <3>3
  <2>5. FindsAll(s)
    BY <2>1, <2>2, <2>4 DEF FindsAll
  <2> QED
    BY <2>2, <2>5
<1>3. \A t \in Nat : t \in Good
  <2> HIDE DEF Good
  <2> QED
    BY <1>1, <1>2, EveryNumber
<1> QED
  BY <1>3

\* A path's weight is what its links multiply to.
LEMMA PathWeightIs ==
  ASSUME NEW p \in Seq(Nodes), Len(p) > 0, NEW w, Weighs(w, p, 0)
  PROVE  PathWeight(p) = w[1]
<1> DEFINE n == Len(p)
           IsFrom(f) ==
             f = [i \in 1..n |-> IF i = n THEN 1 ELSE Weight[<<p[i], p[i + 1]>>] * f[i + 1]]
           v == [i \in 1..n |-> w[i]]
           from == CHOOSE f : IsFrom(f)
<1>1. n \in Nat \ {0}
  OBVIOUS
<1>2. v[n] = 1 /\ \A i \in 1..(n - 1) : v[i] = Weight[<<p[i], p[i + 1]>>] * v[i + 1]
  <2>1. w[n] = 1 /\ \A i \in 1..(n - 1) : w[i] = Weight[<<p[i], p[i + 1]>>] * w[i + 1]
    BY DEF Weighs
  <2>2. \A i \in 1..(n - 1) : i \in 1..n /\ i + 1 \in 1..n
    BY <1>1
  <2> QED
    BY <1>1, <2>1, <2>2
<1>3. IsFrom(v)
  <2>1. \A i \in 1..n : i = n \/ i \in 1..(n - 1)
    BY <1>1
  <2>2. v = [i \in 1..n |-> v[i]]
    OBVIOUS
  <2> HIDE DEF v
  <2> QED
    BY <1>2, <2>1, <2>2
<1>4. IsFrom(from)
  <2> HIDE DEF IsFrom, v
  <2> QED
    BY <1>3
<1>5. \A i \in 1..n : from[i] = IF i = n THEN 1 ELSE Weight[<<p[i], p[i + 1]>>] * from[i + 1]
  <2> DEFINE g == [i \in 1..n |-> IF i = n THEN 1 ELSE Weight[<<p[i], p[i + 1]>>] * from[i + 1]]
  <2>1. from = g
    BY <1>4
  <2>2. \A i \in 1..n : g[i] = IF i = n THEN 1 ELSE Weight[<<p[i], p[i + 1]>>] * from[i + 1]
    OBVIOUS
  <2> HIDE DEF from, g
  <2> QED
    BY <2>1, <2>2
<1>6. PathWeight(p) = from[1]
  BY DEF PathWeight
<1> HIDE DEF v, from, IsFrom
<1> DEFINE Good == {k \in Nat : k < n => from[n - k] = v[n - k]}
<1>7. 0 \in Good
  <2>1. n - 0 = n /\ n \in 1..n
    BY <1>1
  <2> QED
    BY <1>2, <1>5, <2>1
<1>8. ASSUME NEW k \in Nat, k \in Good PROVE k + 1 \in Good
  <2> SUFFICES ASSUME k + 1 < n PROVE from[n - (k + 1)] = v[n - (k + 1)]
    OBVIOUS
  <2>1. PICK i \in 1..(n - 1) : i = n - (k + 1) /\ i + 1 = n - k /\ i \in 1..n /\ i # n
    <3>1. /\ n - (k + 1) \in 1..(n - 1) /\ (n - (k + 1)) + 1 = n - k
          /\ n - (k + 1) \in 1..n /\ n - (k + 1) # n
      BY <1>1
    <3> QED
      BY <3>1
  <2>2. from[i + 1] = v[i + 1]
    BY <1>8, <2>1
  <2>3. from[i] = Weight[<<p[i], p[i + 1]>>] * from[i + 1]
    BY <1>5, <2>1
  <2>4. v[i] = Weight[<<p[i], p[i + 1]>>] * v[i + 1]
    BY <1>2, <2>1
  <2> QED
    BY <2>1, <2>2, <2>3, <2>4
<1>9. \A k \in Nat : k \in Good
  <2> HIDE DEF Good
  <2> QED
    BY <1>7, <1>8, EveryNumber
<1>10. n - 1 \in Nat /\ n - 1 < n /\ n - (n - 1) = 1 /\ 1 \in 1..n
  BY <1>1
<1>11. from[1] = v[1]
  BY <1>9, <1>10
<1> QED
  BY <1>6, <1>10, <1>11 DEF v

\* For the node that asks, the paths that go on from it are those of the property.
LEMMA ReachesFromOrigin ==
  ASSUME NEW t \in 0..MaxTtl, NEW failing \in SUBSET Links, NEW c,
         c = [to |-> Origin, path |-> <<>>, lost |-> failing], NEW p
  PROVE  Reaches(p, c, t) <=> p \in Paths /\ Matches(p[Len(p)]) /\ Travels(p, t, failing)
<1>1. Len(c.path) = 0 /\ c.to = Origin /\ c.lost = failing /\ t \in Nat /\ MaxTtl \in Nat
  BY SearchAssumption
<1>2. p \in Paths <=>
        /\ p \in Seq(Nodes) /\ Len(p) \in 1..(MaxTtl + 1) /\ p[1] = Origin
        /\ \A i, j \in 1..Len(p) : p[i] = p[j] => i = j
  <2>1. ASSUME NEW n \in 1..(MaxTtl + 1), p \in [1..n -> Nodes]
        PROVE  p \in Seq(Nodes) /\ Len(p) = n
    <3>1. n \in Nat
      BY <1>1
    <3> QED
      BY <2>1, <3>1
  <2>2. ASSUME p \in Seq(Nodes), Len(p) \in 1..(MaxTtl + 1)
        PROVE  p \in UNION {[1..n -> Nodes] : n \in 1..(MaxTtl + 1)}
    <3>1. p \in [1..Len(p) -> Nodes]
      BY <2>2
    <3> QED
      BY <2>2, <3>1
  <2>3. p \in UNION {[1..n -> Nodes] : n \in 1..(MaxTtl + 1)}
          <=> p \in Seq(Nodes) /\ Len(p) \in 1..(MaxTtl + 1)
    BY <2>1, <2>2
  <2> QED
    BY <2>3 DEF Paths
<1>3. \A i \in Int : (0 + i = i /\ i + 0 = i)
  OBVIOUS
<1>4. Reaches(p, c, t) <=>
        /\ p \in Seq(Nodes) /\ Len(p) \in 1..(1 + t) /\ p[1] = Origin
        /\ \A i, j \in 1..Len(p) : p[i] = p[j] => i = j
        /\ Matches(p[Len(p)])
        /\ \A i \in 1..(Len(p) - 1) :
             <<p[i], p[i + 1]>> \in Callable(p[i]) \ failing /\ Accepts(<<p[i], p[i + 1]>>)
        /\ \A i \in 1..Len(p) : key[p[i]] = 0 /\ i <= t =>
             \A l \in Callable(p[i]) : \E j \in 1..i : p[j] = l[2]
  <2>1. PICK m : m = Len(c.path) /\ m = 0 /\ m + 1 = 1 /\ m + t = t /\ m + 1 + t = 1 + t
    BY <1>1, <1>3
  <2>2. 1..m = {}
    BY <2>1
  <2>3. Reaches(p, c, t) <=>
        /\ p \in Seq(Nodes) /\ Len(p) \in (m + 1)..(m + 1 + t)
        /\ \A i \in 1..m : p[i] = c.path[i]
        /\ p[m + 1] = c.to
        /\ \A i, j \in 1..Len(p) : p[i] = p[j] => i = j
        /\ Matches(p[Len(p)])
        /\ \A i \in (m + 1)..(Len(p) - 1) :
             <<p[i], p[i + 1]>> \in Callable(p[i]) \ c.lost /\ Accepts(<<p[i], p[i + 1]>>)
        /\ \A i \in (m + 1)..Len(p) : key[p[i]] = 0 /\ i <= m + t =>
             \A l \in Callable(p[i]) : \E j \in 1..i : p[j] = l[2]
    BY <2>1 DEF Reaches
  <2> QED
    BY SMTT(30), <1>1, <2>1, <2>2, <2>3
<1>5. ASSUME p \in Seq(Nodes)
      PROVE  /\ Len(p) \in 1..(1 + t) <=> Len(p) \in 1..(MaxTtl + 1) /\ Len(p) <= t + 1
  BY <1>1, <1>5
<1>6. Travels(p, t, failing) <=>
        /\ Len(p) <= t + 1
        /\ \A i \in 1..(Len(p) - 1) :
             <<p[i], p[i + 1]>> \in Callable(p[i]) \ failing /\ Accepts(<<p[i], p[i + 1]>>)
        /\ \A i \in 1..Len(p) : key[p[i]] = 0 /\ i <= t =>
             \A l \in Callable(p[i]) : \E j \in 1..i : p[j] = l[2]
  BY DEF Travels
<1> QED
  BY <1>2, <1>4, <1>5, <1>6

\* What a question finds, by name.
FoundIn(found, t, failing) ==
  {[path |-> r.path, degree |-> r.degree, weight |-> r.weight] : r \in found}
    = {[path |-> p, degree |-> Len(p) - 1, weight |-> PathWeight(p)] :
         p \in {q \in Paths : Matches(q[Len(q)]) /\ Travels(q, t, failing)}}

LEMMA QueryFindsEveryPath ==
  ASSUME NEW t \in 0..MaxTtl, NEW failing \in SUBSET Links
  PROVE  FoundIn(Search[t][[to |-> Origin, path |-> <<>>, lost |-> failing]], t, failing)
<1>1. PICK c : c = [to |-> Origin, path |-> <<>>, lost |-> failing]
  OBVIOUS
<1>2. c \in Calls /\ Simple(c) /\ Len(c.path) = 0 /\ t \in Nat
  BY <1>1, SearchAssumption DEF Calls, Simple, In
<1> DEFINE found == Search[t][c]
<1>3. FindsFrom(found, c, t)
  BY <1>2, SearchFindsAll DEF FindsAll
<1>4. \A p : Reaches(p, c, t) <=> p \in {q \in Paths : Matches(q[Len(q)]) /\ Travels(q, t, failing)}
  BY <1>1, ReachesFromOrigin
<1> HIDE DEF found
<1>5. ASSUME NEW r \in found
      PROVE  /\ r.path \in {q \in Paths : Matches(q[Len(q)]) /\ Travels(q, t, failing)}
             /\ r.degree = Len(r.path) - 1 /\ r.weight = PathWeight(r.path)
  <2>1. Reaches(r.path, c, t) /\ Weighed(r, c)
    BY <1>3, <1>5 DEF FindsFrom
  <2>2. r.path \in Seq(Nodes) /\ Len(r.path) > 0
    BY <1>2, <2>1 DEF Reaches
  <2>3. PICK w : Weighs(w, r.path, 0) /\ r.weight = w[1]
    <3>1. PICK w : Weighs(w, r.path, Len(c.path)) /\ r.weight = w[Len(c.path) + 1]
      BY <2>1 DEF Weighed
    <3>2. Len(c.path) + 1 = 1
      BY <1>2
    <3> QED
      BY <1>2, <3>1, <3>2
  <2>4. r.weight = PathWeight(r.path)
    BY <2>2, <2>3, PathWeightIs
  <2> QED
    BY <1>2, <1>4, <2>1, <2>4 DEF Weighed
<1>6. ASSUME NEW p \in {q \in Paths : Matches(q[Len(q)]) /\ Travels(q, t, failing)}
      PROVE  \E r \in found : r.path = p
  BY <1>3, <1>4 DEF FindsFrom
<1>7. FoundIn(found, t, failing)
  BY <1>5, <1>6 DEF FoundIn
<1> QED
  BY <1>1, <1>7 DEF found

\* A question finds every simple path within its time to live on which all calls are
\* accepted and nobody is without a key to ask with, to a node that has enough items;
\* with the path's true length and weight; and nothing else: whatever the nodes,
\* their links and peers, the weights, and the calls that are lost.
THEOREM FindsEveryPathHolds == SearchSpec => FindsEveryPath
<1> DEFINE Finds ==
      asked = NoAnswer /\ asked' # NoAnswer =>
        {[path |-> r.path, degree |-> r.degree, weight |-> r.weight] : r \in answer'}
          = {[path |-> p, degree |-> Len(p) - 1, weight |-> PathWeight(p)] :
               p \in {q \in Paths : /\ Matches(q[Len(q)])
                                    /\ Travels(q, asked'.ttl, asked'.lost)}}
<1>1. ASSUME [SearchNext]_searchVars, asked = NoAnswer, asked' # NoAnswer PROVE Finds
  <2>1. PICK t \in 0..MaxTtl, failing \in {{}} \cup {{l} : l \in Links} : FederatedQuery(t, failing)
    BY <1>1 DEF SearchNext, searchVars, AddPeer, UpdatePeer, RemovePeer, SetKey, ChangeItems,
                Change, CheckProofs
  <2>2. failing \in SUBSET Links
    OBVIOUS
  <2>3. /\ asked'.ttl = t /\ asked'.lost = failing
        /\ answer' = Search[t][[to |-> Origin, path |-> <<>>, lost |-> failing]]
    BY <2>1 DEF FederatedQuery
  <2>4. FoundIn(Search[t][[to |-> Origin, path |-> <<>>, lost |-> failing]], t, failing)
    BY <2>2, QueryFindsEveryPath
  <2>5. PICK found : found = answer'
    OBVIOUS
  <2>6. FoundIn(found, t, failing)
    BY <2>3, <2>4, <2>5
  <2> QED
    BY <2>3, <2>5, <2>6 DEF FoundIn
<1>2. [SearchNext]_searchVars => Finds
  BY <1>1
<1> QED
  BY <1>2, PTL DEF SearchSpec, FindsEveryPath
=============================================================================
