------------------------------ MODULE Allocation ------------------------------
(***************************************************************************)
(* One allocation request, the decisions on it and the appeals against     *)
(* them (backend/app/services/allocation.py; api/routes/allocation.py,     *)
(* appeals.py).                                                            *)
(*                                                                         *)
(* A handler loads the rows, checks, and commits the columns whose values  *)
(* differ from what it loaded.  The person who asks is no reviewer here    *)
(* (both routes refuse reviewers their own requests).                      *)
(***************************************************************************)
EXTENDS Integers, FiniteSets

CONSTANTS
    Reviewers,
    Appeals,
    Handlers,           \* requests to decide or to resolve an appeal
    Nobody

VARIABLES
    snapshots,    \* ScoreSnapshot rows
    request,      \* status of the request; none before its row is there
    decidedBy,
    appeal,       \* appeal[a]: checked before its row is there
    resolvedBy,
    handler,      \* handler[h]: what request h has loaded, or Nobody
    \* --- history, read by properties only ---
    against,      \* against[a]: who had decided when a was lodged
    redecided,    \* appeals since whose lodging a decision was committed
    crossed,      \* a decision and a resolution have been in flight at once
    heard         \* FALSE from an appeal upheld until the next decision

allocationRows == <<snapshots, request, decidedBy, appeal, resolvedBy>>
allocationVars == <<allocationRows, handler, against, redecided, crossed, heard>>

Decisions == {"approved", "declined"}
Held == [op : {"decide", "resolve"}, by : Reviewers, appeal : Appeals \cup {Nobody},
         request : Decisions \cup {"submitted", "reopened"}, decidedBy : Reviewers \cup {Nobody}]

AllocationTypeOK ==
    /\ snapshots \in 0..1
    /\ request \in Decisions \cup {"none", "submitted", "reopened"}
    /\ decidedBy \in Reviewers \cup {Nobody}
    /\ appeal \in [Appeals -> {"none", "checked", "open", "upheld", "rejected"}]
    /\ resolvedBy \in [Appeals -> Reviewers \cup {Nobody}]
    /\ handler \in [Handlers -> Held \cup {Nobody}]
    /\ against \in [Appeals -> Reviewers \cup {Nobody}]
    /\ redecided \subseteq Appeals
    /\ crossed \in BOOLEAN /\ heard \in BOOLEAN

AllocationInit ==
    /\ snapshots = 0
    /\ request = "none"
    /\ decidedBy = Nobody
    /\ appeal = [a \in Appeals |-> "none"]
    /\ resolvedBy = [a \in Appeals |-> Nobody]
    /\ handler = [h \in Handlers |-> Nobody]
    /\ against = [a \in Appeals |-> Nobody]
    /\ redecided = {} /\ crossed = FALSE /\ heard = TRUE

-----------------------------------------------------------------------------
\* create_request: calculate_and_store commits the snapshot before the request
\* is inserted; a request that dies between leaves the snapshot.
StoreSnapshot ==
    /\ snapshots = 0
    /\ snapshots' = 1
    /\ UNCHANGED <<request, decidedBy, appeal, resolvedBy, handler, against, redecided,
                   crossed, heard>>

InsertRequest ==
    /\ snapshots = 1 /\ request = "none"
    /\ request' = "submitted"
    /\ UNCHANGED <<snapshots, decidedBy, appeal, resolvedBy, handler, against, redecided,
                   crossed, heard>>

\* A column is written only when it differs from what was loaded.
Changed(now, loaded, new) == IF new = loaded THEN now ELSE new

Start(h, by, op, a) ==
    /\ handler[h] = Nobody /\ request # "none"
    /\ handler' = [handler EXCEPT ![h] =
         [op |-> op, by |-> by, appeal |-> a, request |-> request,
          decidedBy |-> decidedBy]]
    /\ crossed' = (crossed \/ \E g \in Handlers : handler[g] # Nobody /\ handler[g].op # op)
    /\ UNCHANGED <<allocationRows, against, redecided, heard>>

\* The route decide: any status may be decided, a decided one again.
LoadRequest(h, by) == Start(h, by, "decide", Nobody)

Decide(h, decision) ==
    /\ handler[h] # Nobody /\ handler[h].op = "decide"
    /\ request' = Changed(request, handler[h].request, decision)
    /\ decidedBy' = Changed(decidedBy, handler[h].decidedBy, handler[h].by)
    /\ redecided' = redecided \cup {a \in Appeals : appeal[a] # "none"}
    /\ heard' = TRUE
    /\ handler' = [handler EXCEPT ![h] = Nobody]
    /\ UNCHANGED <<snapshots, appeal, resolvedBy, against, crossed>>

-----------------------------------------------------------------------------
(* Appeals. *)

\* No appeal is open ...
CheckAppeal(a) ==
    /\ request # "none" /\ appeal[a] = "none"
    /\ \A b \in Appeals : appeal[b] # "open"
    /\ appeal' = [appeal EXCEPT ![a] = "checked"]
    /\ against' = [against EXCEPT ![a] = decidedBy]
    /\ UNCHANGED <<snapshots, request, decidedBy, resolvedBy, handler, redecided, crossed, heard>>

\* ... and the row is inserted, whatever was inserted since.
LodgeAppeal(a) ==
    /\ appeal[a] = "checked"
    /\ appeal' = [appeal EXCEPT ![a] = "open"]
    /\ UNCHANGED <<snapshots, request, decidedBy, resolvedBy, handler, against, redecided,
                   crossed, heard>>

\* Mutant of LoadAppeal: whoever decided may resolve.
LoadAppealOwn(h, by, a) == appeal[a] = "open" /\ Start(h, by, "resolve", a)

\* The route resolve compares the reviewer with decided_by as it is now.
LoadAppeal(h, by, a) == appeal[a] = "open" /\ decidedBy # by /\ Start(h, by, "resolve", a)

\* What an upheld appeal makes of the request.
Resolution(h, outcome) ==
    IF outcome = "upheld" THEN Changed(request, handler[h].request, "reopened") ELSE request

ResolveAppeal(h, outcome) ==
    LET a == handler[h].appeal IN
    /\ handler[h] # Nobody /\ handler[h].op = "resolve"
    /\ appeal' = [appeal EXCEPT ![a] = outcome]
    /\ resolvedBy' = [resolvedBy EXCEPT ![a] = handler[h].by]
    /\ request' = Resolution(h, outcome)
    /\ handler' = [handler EXCEPT ![h] = Nobody]
    /\ heard' = (heard /\ outcome # "upheld")
    /\ UNCHANGED <<snapshots, decidedBy, against, redecided, crossed>>

-----------------------------------------------------------------------------
AllocationNext ==
    \/ StoreSnapshot \/ InsertRequest
    \/ \E a \in Appeals : CheckAppeal(a) \/ LodgeAppeal(a)
    \/ \E h \in Handlers :
         \/ \E by \in Reviewers : LoadRequest(h, by)
         \/ \E d \in Decisions : Decide(h, d)
         \/ \E by \in Reviewers, a \in Appeals : LoadAppeal(h, by, a)
         \/ \E o \in {"upheld", "rejected"} : ResolveAppeal(h, o)

AllocationSpec == AllocationInit /\ [][AllocationNext]_allocationVars

-----------------------------------------------------------------------------
\* An appeal is resolved by someone other than the decision-maker it was lodged
\* against (appeals.py: "someone other than the original decision-maker"), as
\* long as nobody decides the request again in between: decided_by is then
\* somebody else, and the first decision-maker passes.
AppealIsIndependent ==
    \A a \in Appeals :
      appeal[a] \in {"upheld", "rejected"} /\ a \notin redecided /\ against[a] # Nobody
        => resolvedBy[a] # against[a]

\* An upheld appeal sends the request back for a fresh decision ("goes back for a
\* fresh decision"): until one is committed the request is reopened, unless a
\* decision and a resolution were in flight at once.
UpheldIsHeard ==
    ~heard /\ ~crossed => request = "reopened"

\* Both.
AppealStands == AppealIsIndependent /\ UpheldIsHeard
==============================================================================
