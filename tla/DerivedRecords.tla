--------------------------- MODULE DerivedRecords ----------------------------
(***************************************************************************)
(* What agents derive, and its review and recomputation                    *)
(* (backend/app/agents/service.py: record_derived, review_record,          *)
(* recompute and the queues; agents/routes.py, agents/auth.py).            *)
(*                                                                         *)
(* Every request reads, then commits in a transaction of its own; what it  *)
(* read may be old by then.  A write may also be refused for its kind,     *)
(* scope, size or hourly rate: a refusal changes nothing and has no action.*)
(* Someone other than the author can always recompute (a person), so the   *)
(* test of who recomputes guards nothing here.  on_mismatch is supersede   *)
(* (ledgers/agents.yaml).                                                  *)
(***************************************************************************)
EXTENDS Integers, FiniteSets

CONSTANTS
    Writers,            \* registered agents
    AnswersFor,         \* AnswersFor[a]: a's steward
    Limits,             \* what an agent may have unreviewed: see limit
    MaxPerSteward,      \* max_unreviewed_per_steward
    Records,
    Jobs,               \* requests to review or to recompute
    NoJob, NoAuthor

ASSUME RecordsAssumption ==
    /\ Limits \subseteq Nat /\ 0 \in Limits /\ MaxPerSteward \in Nat
    /\ IsFiniteSet(Records)

VARIABLES
    limit,        \* limit[a]: max_unreviewed or its default; 0 while a is not active
    record,       \* record[r]: status of r's row; none before it is inserted
    check,        \* check[r]: recompute_status
    author,       \* author[r]: who records r, or NoAuthor before
    writing,      \* records whose request has passed record_derived's checks
    job,          \* job[q]: the row that request q has loaded, as it was
    \* --- history, read by properties only ---
    crowded,      \* records written while another of the steward's was being
    contested,    \* records with a review and another job in flight at once
    failed        \* records that some recomputation contradicted

recordsHistory == <<crowded, contested, failed>>
recordsVars == <<limit, record, check, author, writing, job, recordsHistory>>

Loaded == [op : {"review", "recompute"}, of : Records,
           record : {"unreviewed", "confirmed", "rejected", "superseded"},
           check : {"unchecked", "matched", "mismatched"}]

RecordsTypeOK ==
    /\ limit \in [Writers -> Limits]
    /\ record \in [Records -> {"none", "unreviewed", "confirmed", "rejected", "superseded"}]
    /\ check \in [Records -> {"unchecked", "matched", "mismatched"}]
    /\ author \in [Records -> Writers \cup {NoAuthor}]
    /\ writing \subseteq Records
    /\ job \in [Jobs -> Loaded \cup {NoJob}]
    /\ crowded \subseteq Records /\ contested \subseteq Records /\ failed \subseteq Records

RecordsInit ==
    /\ limit = [a \in Writers |-> 0]
    /\ record = [r \in Records |-> "none"]
    /\ check = [r \in Records |-> "unchecked"]
    /\ author = [r \in Records |-> NoAuthor]
    /\ writing = {}
    /\ job = [q \in Jobs |-> NoJob]
    /\ crowded = {} /\ contested = {} /\ failed = {}

-----------------------------------------------------------------------------
(* The queues. *)

Steward(r)     == AnswersFor[author[r]]
Unreviewed(a)  == {r \in Records : author[r] = a /\ record[r] = "unreviewed"}
StewardQueue(s) == {r \in Records : record[r] = "unreviewed" /\ Steward(r) = s}

\* Mutant of Room: each agent has its own ceiling and no other.
RoomPerAgent(a) == Cardinality(Unreviewed(a)) < limit[a]

\* Neither queue is full: writes_paused of queue_state and of its steward part.
Room(a) ==
    /\ Cardinality(Unreviewed(a)) < limit[a]
    /\ Cardinality(StewardQueue(AnswersFor[a])) < MaxPerSteward

\* update_agent: the limit and the status of an agent change at any time.
SetLimit(a, n) ==
    /\ n # limit[a]
    /\ limit' = [limit EXCEPT ![a] = n]
    /\ UNCHANGED <<record, check, author, writing, job, recordsHistory>>

-----------------------------------------------------------------------------
(* Writing: get_current_agent and record_derived. *)

CheckWrite(r, a) ==
    /\ record[r] = "none" /\ r \notin writing
    /\ Room(a)
    /\ writing' = writing \cup {r}
    /\ author' = [author EXCEPT ![r] = a]
    /\ LET others == {w \in writing : Steward(w) = AnswersFor[a]}
       IN crowded' = IF others = {} THEN crowded ELSE crowded \cup {r} \cup others
    /\ UNCHANGED <<limit, record, check, job, contested, failed>>

InsertRecord(r) ==
    /\ r \in writing
    /\ record' = [record EXCEPT ![r] = "unreviewed"]
    /\ writing' = writing \ {r}
    /\ UNCHANGED <<limit, check, author, job, recordsHistory>>

-----------------------------------------------------------------------------
(* Reviewing and recomputing. *)

Load(q, op, r) ==
    /\ job[q] = NoJob
    /\ job' = [job EXCEPT ![q] = [op |-> op, of |-> r, record |-> record[r], check |-> check[r]]]
    /\ contested' = IF \E p \in Jobs : job[p] # NoJob /\ job[p].of = r
                                       /\ "review" \in {op, job[p].op}
                    THEN contested \cup {r} ELSE contested
    /\ UNCHANGED <<limit, record, check, author, writing, crowded, failed>>

LoadReview(q, r)    == record[r] = "unreviewed" /\ Load(q, "review", r)
LoadRecompute(q, r) == record[r] # "none" /\ Load(q, "recompute", r)

CommitReview(q, verdict) ==
    /\ job[q] # NoJob /\ job[q].op = "review"
    /\ record' = [record EXCEPT ![job[q].of] = verdict]
    /\ job' = [job EXCEPT ![q] = NoJob]
    /\ UNCHANGED <<limit, check, author, writing, recordsHistory>>

\* A column is written only when it differs from what was loaded.
Written(now, loaded, new) == IF new = loaded THEN now ELSE new

\* Mutant of CommitRecompute: only a record nobody has reviewed is superseded.
CommitRecomputeUnreviewed(q, result) ==
    LET j == job[q] r == j.of IN
    /\ j # NoJob /\ j.op = "recompute"
    /\ check' = [check EXCEPT ![r] = Written(@, j.check, result)]
    /\ record' = IF result = "mismatched" /\ j.record = "unreviewed"
                 THEN [record EXCEPT ![r] = Written(@, j.record, "superseded")] ELSE record
    /\ failed' = IF result = "mismatched" THEN failed \cup {r} ELSE failed
    /\ job' = [job EXCEPT ![q] = NoJob]
    /\ UNCHANGED <<limit, author, writing, crowded, contested>>

\* The row of the recomputation itself decides nothing later and is left out.
CommitRecompute(q, result) ==
    LET j == job[q] r == j.of IN
    /\ j # NoJob /\ j.op = "recompute"
    /\ check' = [check EXCEPT ![r] = Written(@, j.check, result)]
    /\ record' = IF result = "mismatched"
                 THEN [record EXCEPT ![r] = Written(@, j.record, "superseded")] ELSE record
    /\ failed' = IF result = "mismatched" THEN failed \cup {r} ELSE failed
    /\ job' = [job EXCEPT ![q] = NoJob]
    /\ UNCHANGED <<limit, author, writing, crowded, contested>>

-----------------------------------------------------------------------------
RecordsNext ==
    \/ \E a \in Writers, n \in Limits : SetLimit(a, n)
    \/ \E r \in Records : InsertRecord(r) \/ \E a \in Writers : CheckWrite(r, a)
    \/ \E q \in Jobs :
         \/ \E r \in Records : LoadReview(q, r) \/ LoadRecompute(q, r)
         \/ \E v \in {"confirmed", "rejected"} : CommitReview(q, v)
         \/ \E v \in {"matched", "mismatched"} : CommitRecompute(q, v)

RecordsSpec == RecordsInit /\ [][RecordsNext]_recordsVars

-----------------------------------------------------------------------------
\* One steward's queue goes past its ceiling only by records whose writes
\* overlapped, however many agents they register and whatever happens to the
\* agents meanwhile (record_derived: "Registering more agents does not create
\* more review capacity").
QueueOverrunIsOverlap ==
    \A s \in {AnswersFor[a] : a \in Writers} :
      Cardinality(StewardQueue(s) \ crowded) <= MaxPerSteward

\* A record that was once contradicted is superseded for good, whoever confirmed
\* it before or matches it after ("A record that fails recomputation is superseded
\* automatically"), unless a review was in flight with another request: it
\* commits over what came in between.
MismatchStands ==
    \A r \in failed : record[r] = "superseded" \/ r \in contested

\* Both.
RecordsAreReviewed == QueueOverrunIsOverlap /\ MismatchStands
==============================================================================
