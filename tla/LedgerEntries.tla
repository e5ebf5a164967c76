---------------------------- MODULE LedgerEntries ----------------------------
(***************************************************************************)
(* The entries about one person, their consent to care entries, disputes   *)
(* and corrections, and what a score counts                                *)
(* (backend/app/services/ledger.py, care_consent.py, corrections.py,       *)
(* scoring.py; api/routes/ledger.py, identity.py).                         *)
(*                                                                         *)
(* One opt-in care factor stands for them all, one other metric for the    *)
(* rest.  A score is determined by the entries it counts; their values and *)
(* weights are left out.  An entry is inserted, and a review committed, in *)
(* a later step than the checks before it; a foreign key that would dangle *)
(* makes the commit fail, and a failed request changes nothing.            *)
(***************************************************************************)
EXTENDS Integers, FiniteSets

CONSTANTS
    Entries,            \* ids, in the order in which they are taken
    Attesters,          \* subjects that may attest and review
    Self,               \* the person's own subject
    Disputes,
    Reviews,            \* requests to resolve a dispute
    NoOne

ASSUME LedgerAssumption ==
    /\ Entries \subseteq Nat /\ NoOne \notin Entries
    /\ Self \notin Attesters

VARIABLES
    entry,        \* entry[e]: checked before its row is there, erased after
    care,         \* entries of the care factor
    attester,     \* attester[e]: attester_subject; Self when self-reported
    corrects,     \* corrects[e]: supersedes_id
    consent,      \* there is a CareConsent that is not revoked
    erasing,      \* ids that a revocation in flight has read, or NoOne
    dispute,      \* dispute[d]: asking before its row is there, closed when it is
                  \* resolved, whatever the outcome, or deleted with its entry
    about,        \* about[d]: entry_id, until it is closed
    review,       \* review[v]: what request v has loaded, or NoOne
    \* --- history, read by properties only ---
    late,         \* care entries inserted behind a revocation
    muddled       \* entries with two requests about their disputes at once

ledgerRows == <<entry, care, attester, corrects, consent, dispute, about>>
ledgerVars == <<ledgerRows, erasing, review, late, muddled>>

Loads == [dispute : Disputes, entry : Entries, by : Attesters]

LedgerTypeOK ==
    /\ entry \in [Entries -> {"none", "checked", "active", "superseded", "erased"}]
    /\ care \subseteq Entries
    /\ attester \in [Entries -> Attesters \cup {Self}]
    /\ corrects \in [Entries -> Entries \cup {NoOne}]
    /\ consent \in BOOLEAN
    /\ erasing \in (SUBSET Entries) \cup {NoOne}
    /\ dispute \in [Disputes -> {"none", "asking", "open", "closed"}]
    /\ about \in [Disputes -> Entries \cup {NoOne}]
    /\ \A d \in Disputes : dispute[d] \in {"asking", "open"} => about[d] # NoOne
    /\ review \in [Reviews -> Loads \cup {NoOne}]
    /\ late \subseteq Entries /\ muddled \subseteq Entries

LedgerInit ==
    /\ entry = [e \in Entries |-> "none"]
    /\ care = {}
    /\ attester = [e \in Entries |-> Self]
    /\ corrects = [e \in Entries |-> NoOne]
    /\ consent = FALSE
    /\ erasing = NoOne
    /\ dispute = [d \in Disputes |-> "none"]
    /\ about = [d \in Disputes |-> NoOne]
    /\ review = [v \in Reviews |-> NoOne]
    /\ late = {} /\ muddled = {}

Fresh(e)  == entry[e] = "none" /\ \A f \in Entries : f < e => entry[f] # "none"
Stored(e) == entry[e] \in {"active", "superseded"}

\* What compute_score counts: self_reported_weight is 0, a dispute changes nothing.
Counted == {e \in Entries : entry[e] = "active" /\ attester[e] # Self /\ (e \in care => consent)}

-----------------------------------------------------------------------------
(* Entries: add_entry and delete_entry. *)

\* The rows are deleted, and what they held with them.
Erase(es) ==
    /\ entry' = [e \in Entries |-> IF e \in es THEN "erased" ELSE entry[e]]
    /\ attester' = [e \in Entries |-> IF e \in es THEN Self ELSE attester[e]]
    /\ corrects' = [e \in Entries |-> IF e \in es THEN NoOne ELSE corrects[e]]
    /\ care' = care \ es /\ late' = late \ es /\ muddled' = muddled \ es

\* What is checked of other entries nobody changes.
AddEntry(e, by) ==
    /\ Fresh(e)
    /\ entry' = [entry EXCEPT ![e] = "active"]
    /\ attester' = [attester EXCEPT ![e] = by]
    /\ UNCHANGED <<care, corrects, consent, erasing, dispute, about, review, late, muddled>>

CheckCareEntry(e, by) ==
    /\ Fresh(e) /\ consent
    /\ entry' = [entry EXCEPT ![e] = "checked"]
    /\ care' = care \cup {e}
    /\ attester' = [attester EXCEPT ![e] = by]
    /\ UNCHANGED <<corrects, consent, erasing, dispute, about, review, late, muddled>>

InsertCareEntry(e) ==
    /\ entry[e] = "checked"
    /\ entry' = [entry EXCEPT ![e] = "active"]
    /\ late' = IF ~consent \/ erasing # NoOne THEN late \cup {e} ELSE late
    /\ UNCHANGED <<care, attester, corrects, consent, erasing, dispute, about, review, muddled>>

DeleteSelfReported(e) ==
    /\ Stored(e) /\ attester[e] = Self
    /\ Erase({e})
    /\ UNCHANGED <<consent, erasing, dispute, about, review>>

-----------------------------------------------------------------------------
(* set_care_consent, one request at a time. *)

Grant ==
    /\ ~consent /\ erasing = NoOne
    /\ consent' = TRUE
    /\ UNCHANGED <<entry, care, attester, corrects, dispute, about, erasing, review, late, muddled>>

ReadFactorEntries ==
    /\ consent /\ erasing = NoOne
    /\ erasing' = {e \in care : Stored(e)}
    /\ UNCHANGED <<ledgerRows, review, late, muddled>>

\* Mutant of Revoke: the entries stay.
RevokeOnly ==
    /\ erasing # NoOne
    /\ consent' = FALSE
    /\ erasing' = NoOne
    /\ UNCHANGED <<entry, care, attester, corrects, dispute, about, review, late, muddled>>

\* The disputes and the entries that were read are deleted with the consent,
\* unless an entry that was not read points at one of them.
Revoke ==
    /\ erasing # NoOne
    /\ \A f \in Entries \ erasing : Stored(f) => corrects[f] \notin erasing
    /\ consent' = FALSE
    /\ Erase(erasing)
    /\ LET closing == {d \in Disputes : dispute[d] = "open" /\ about[d] \in erasing}
       IN  /\ dispute' = [d \in Disputes |-> IF d \in closing THEN "closed" ELSE dispute[d]]
           /\ about' = [d \in Disputes |-> IF d \in closing THEN NoOne ELSE about[d]]
    /\ erasing' = NoOne
    /\ UNCHANGED review

FailToRevoke ==
    /\ erasing # NoOne
    /\ erasing' = NoOne
    /\ UNCHANGED <<ledgerRows, review, late, muddled>>

-----------------------------------------------------------------------------
(* Disputes. *)

\* Requests about disputes of e that are in flight.
Handling(e) ==
    {d \in Disputes : dispute[d] = "asking" /\ about[d] = e}
    \cup {v \in Reviews : review[v] # NoOne /\ review[v].entry = e}

Close(d) ==
    /\ dispute' = [dispute EXCEPT ![d] = "closed"]
    /\ about' = [about EXCEPT ![d] = NoOne]

Noted(e) == muddled' = IF Handling(e) = {} THEN muddled ELSE muddled \cup {e}

\* Mutant of CheckDispute: an entry that was corrected is disputed again.
CheckDisputeAny(d, e) ==
    /\ dispute[d] = "none"
    /\ Stored(e) /\ attester[e] # Self
    /\ ~\E p \in Disputes : about[p] = e /\ dispute[p] = "open"
    /\ dispute' = [dispute EXCEPT ![d] = "asking"]
    /\ about' = [about EXCEPT ![d] = e]
    /\ Noted(e)
    /\ UNCHANGED <<entry, care, attester, corrects, consent, erasing, review, late>>

CheckDispute(d, e) ==
    /\ dispute[d] = "none"
    /\ entry[e] = "active" /\ attester[e] # Self
    /\ ~\E p \in Disputes : about[p] = e /\ dispute[p] = "open"
    /\ dispute' = [dispute EXCEPT ![d] = "asking"]
    /\ about' = [about EXCEPT ![d] = e]
    /\ Noted(e)
    /\ UNCHANGED <<entry, care, attester, corrects, consent, erasing, review, late>>

\* The row needs its entry; of the entry's status it asks nothing any more.
OpenDispute(d) ==
    /\ dispute[d] = "asking"
    /\ IF Stored(about[d])
       THEN dispute' = [dispute EXCEPT ![d] = "open"] /\ about' = about
       ELSE Close(d)
    /\ UNCHANGED <<entry, care, attester, corrects, consent, erasing, review, late, muddled>>

\* Mutant of LoadDispute: a resolved dispute is resolved again, by anyone.
LoadDisputeAny(v, d, by) ==
    /\ review[v] = NoOne /\ dispute[d] # "none"
    /\ review' = [review EXCEPT ![v] = [dispute |-> d, entry |-> about[d], by |-> by]]
    /\ UNCHANGED <<ledgerRows, erasing, late, muddled>>

\* A reviewer other than the attester finds the dispute open.
LoadDispute(v, d, by) ==
    /\ review[v] = NoOne
    /\ dispute[d] = "open" /\ attester[about[d]] # by
    /\ review' = [review EXCEPT ![v] = [dispute |-> d, entry |-> about[d], by |-> by]]
    /\ Noted(about[d])
    /\ UNCHANGED <<ledgerRows, erasing, late>>

\* An entry deleted since, and its disputes with it, makes the commit fail; a
\* dispute resolved since does not.
Resolvable(v) ==
    /\ review[v] # NoOne
    /\ Stored(review[v].entry)

Resolve(v, outcome) ==
    /\ Resolvable(v) /\ outcome \in {"removed", "rejected"}
    /\ Close(review[v].dispute)
    /\ entry' = IF outcome = "removed" THEN [entry EXCEPT ![review[v].entry] = "superseded"]
                                       ELSE entry
    /\ review' = [review EXCEPT ![v] = NoOne]
    /\ UNCHANGED <<care, attester, corrects, consent, erasing, late, muddled>>

\* The corrected entry f is attested by the reviewer and points back.
Correct(v, f) ==
    LET e == review[v].entry IN
    /\ Resolvable(v) /\ Fresh(f)
    /\ Close(review[v].dispute)
    /\ entry' = [entry EXCEPT ![e] = "superseded", ![f] = "active"]
    /\ care' = IF e \in care THEN care \cup {f} ELSE care
    /\ attester' = [attester EXCEPT ![f] = review[v].by]
    /\ corrects' = [corrects EXCEPT ![f] = e]
    /\ review' = [review EXCEPT ![v] = NoOne]
    /\ late' = IF e \in late THEN late \cup {f} ELSE late
    /\ UNCHANGED <<consent, erasing, muddled>>

AbandonReview(v) ==
    /\ review[v] # NoOne
    /\ review' = [review EXCEPT ![v] = NoOne]
    /\ UNCHANGED <<ledgerRows, erasing, late, muddled>>

-----------------------------------------------------------------------------
LedgerNext ==
    \/ \E e \in Entries :
         \/ \E by \in Attesters \cup {Self} : AddEntry(e, by) \/ CheckCareEntry(e, by)
         \/ InsertCareEntry(e) \/ DeleteSelfReported(e)
    \/ Grant \/ ReadFactorEntries \/ Revoke \/ FailToRevoke
    \/ \E d \in Disputes : OpenDispute(d) \/ \E e \in Entries : CheckDispute(d, e)
    \/ \E v \in Reviews :
         \/ \E d \in Disputes, by \in Attesters : LoadDispute(v, d, by)
         \/ \E o \in {"removed", "rejected"} : Resolve(v, o)
         \/ \E f \in Entries : Correct(v, f)
         \/ AbandonReview(v)

LedgerSpec == LedgerInit /\ [][LedgerNext]_ledgerVars

-----------------------------------------------------------------------------
\* Without consent there is no care entry, corrected or not (put_care_consent:
\* "Revoking deletes that factor's entries"), but one whose consent was checked
\* before a revocation that did not see it, and what corrects such a one.
ConsentHolds ==
    ~consent => \A e \in care : Stored(e) => e \in late

\* One fact is counted once: an entry that has been corrected no longer counts and
\* has one correction ("Corrections never overwrite history"), unless two requests
\* about its disputes overlapped: then each may have added its own.
FactsCountOnce ==
    \A e \in Entries \ muddled :
      LET corrections == {f \in Entries : Stored(f) /\ corrects[f] = e}
      IN  Cardinality(corrections) <= 1 /\ (corrections # {} => e \notin Counted)
==============================================================================
