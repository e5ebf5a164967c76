------------------------------- MODULE Exchange -------------------------------
(***************************************************************************)
(* What nodes hand each other as documents: an asset's evidence, and what  *)
(* was agreed; and the stake an agreement becomes                          *)
(* (backend/app/value/documents.py, agreements.py, map_routes.py).         *)
(*                                                                         *)
(* A document is handed on by people, any number of times, and imported    *)
(* whenever they like: documents only grow.  Items may be withheld before  *)
(* each import; a document that was otherwise changed does not verify and  *)
(* is refused.  An import makes an asset of its own, so it supersedes      *)
(* nothing.  The introduction an agreement comes from is settled           *)
(* (Introductions says how), and the linker sponsors the project.          *)
(***************************************************************************)
EXTENDS Integers, FiniteSets

CONSTANTS
    Places,             \* nodes
    Trusts,             \* Trusts[n]: nodes whose name and key n lists (the configuration)
    Signers,            \* nodes with a signing key
    Facts,              \* what evidence can be about
    Agreements,         \* ids of AgreementRecord rows, over all nodes
    Linkings,           \* requests that attach a record to a project
    NoPlace, NoRecord

ASSUME ExchangeAssumption ==
    /\ Trusts \in [Places -> SUBSET Places] /\ Signers \subseteq Places
    /\ NoRecord \notin Agreements /\ IsFiniteSet(Linkings)

VARIABLES
    evidence,     \* evidence[n]: current evidence of n's assets, attested or not
    documents,    \* asset documents that have been built
    agreement,    \* agreement[r]: status of r's row, or none
    place,        \* place[r]: the node that holds r
    circulated,   \* records whose document another node may import
    linked,       \* linked[r]: how many contributions or supply agreements r has become
    linking,      \* linking[q]: the record that request q has found not linked
    \* --- history, read by properties only ---
    witnessed,    \* witnessed[n]: facts that n's own attesters have recorded
    twice         \* records that two requests have found not linked

assetVars == <<evidence, documents, witnessed>>
agreementVars == <<agreement, place, circulated, linked, linking, twice>>
exchangeVars == <<assetVars, agreementVars>>

Evidence == [fact : Facts, attested : BOOLEAN]

ExchangeTypeOK ==
    /\ evidence \in [Places -> SUBSET Evidence]
    /\ documents \subseteq [from : Places, facts : SUBSET Facts]
    /\ agreement \in [Agreements -> {"none", "recorded", "linked"}]
    /\ place \in [Agreements -> Places \cup {NoPlace}]
    /\ circulated \subseteq Agreements
    /\ linked \in [Agreements -> 0..Cardinality(Linkings)]
    /\ linking \in [Linkings -> Agreements \cup {NoRecord}]
    /\ witnessed \in [Places -> SUBSET Facts] /\ twice \subseteq Agreements

ExchangeInit ==
    /\ evidence = [n \in Places |-> {}] /\ documents = {}
    /\ agreement = [r \in Agreements |-> "none"]
    /\ place = [r \in Agreements |-> NoPlace]
    /\ circulated = {}
    /\ linked = [r \in Agreements |-> 0]
    /\ linking = [q \in Linkings |-> NoRecord]
    /\ witnessed = [n \in Places |-> {}] /\ twice = {}

-----------------------------------------------------------------------------
(* Evidence of assets. *)

\* add_evidence, by a holder or by an attester, supersedes what the asset had; the
\* rows about f on others, elsewhere, stay.
RecordEvidence(n, f, attested, elsewhere) ==
    /\ elsewhere \subseteq {e \in evidence[n] : e.fact = f}
    /\ evidence' = [evidence EXCEPT ![n] =
         {e \in @ : e.fact # f} \cup elsewhere \cup {[fact |-> f, attested |-> attested]}]
    /\ witnessed' = IF attested THEN [witnessed EXCEPT ![n] = @ \cup {f}] ELSE witnessed
    /\ UNCHANGED <<documents, agreementVars>>

\* build_document discloses the categories asked for and withholds the rest.
BuildDocument(n, facts) ==
    /\ facts # {} /\ facts \subseteq {e.fact : e \in evidence[n]}
    /\ documents' = documents \cup {[from |-> n, facts |-> facts]}
    /\ UNCHANGED <<evidence, witnessed, agreementVars>>

\* Mutant of SignerTrusted: a signature that verifies is enough.
SignerTrustedAny(n, d) == d.from \in Signers

\* verify_document: signed, by a node that n lists with this key.
SignerTrusted(n, d) == d.from \in Signers /\ d.from \in Trusts[n]

\* import_document: attested here if the signer is trusted, whatever it was there.
ImportDocument(n, d) ==
    /\ d \in documents
    /\ evidence' = [evidence EXCEPT ![n] = @ \cup
         [fact : d.facts, attested : {SignerTrusted(n, d)}]]
    /\ UNCHANGED <<documents, witnessed, agreementVars>>

-----------------------------------------------------------------------------
(* Agreements. *)

\* record_agreement commits the record and its document; nobody asks whether the
\* introduction has one already.
RecordAgreement(r, n) ==
    /\ agreement[r] = "none"
    /\ agreement' = [agreement EXCEPT ![r] = "recorded"]
    /\ place' = [place EXCEPT ![r] = n]
    /\ circulated' = circulated \cup {r}
    /\ UNCHANGED <<assetVars, linked, linking, twice>>

\* The other side's record, as often as it is imported; it has no document of its
\* own to hand on, only the one it came from.
ImportAgreement(r, s, n) ==
    /\ agreement[r] = "none" /\ s \in circulated
    /\ agreement' = [agreement EXCEPT ![r] = "recorded"]
    /\ place' = [place EXCEPT ![r] = n]
    /\ UNCHANGED <<assetVars, circulated, linked, linking, twice>>

\* Mutant of FindUnlinked: a record that has become a stake becomes another.
FindUnlinkedAny(q, r) ==
    /\ linking[q] = NoRecord /\ agreement[r] # "none"
    /\ linking' = [linking EXCEPT ![q] = r]
    /\ twice' = IF \E p \in Linkings : linking[p] = r THEN twice \cup {r} ELSE twice
    /\ UNCHANGED <<assetVars, agreement, place, circulated, linked>>

\* link_locally finds the record not linked, right after it was recorded (the
\* record is committed by then and stays if this fails) or later ...
FindUnlinked(q, r) ==
    /\ linking[q] = NoRecord /\ agreement[r] = "recorded"
    /\ linking' = [linking EXCEPT ![q] = r]
    /\ twice' = IF \E p \in Linkings : linking[p] = r THEN twice \cup {r} ELSE twice
    /\ UNCHANGED <<assetVars, agreement, place, circulated, linked>>

\* ... and inserts a contribution or a supply agreement for it, or fails.
LinkLocally(q) ==
    LET r == linking[q] IN
    /\ r # NoRecord
    /\ agreement' = [agreement EXCEPT ![r] = "linked"]
    /\ linked' = [linked EXCEPT ![r] = @ + 1]
    /\ linking' = [linking EXCEPT ![q] = NoRecord]
    /\ UNCHANGED <<assetVars, place, circulated, twice>>

FailToLink(q) ==
    /\ linking[q] # NoRecord
    /\ linking' = [linking EXCEPT ![q] = NoRecord]
    /\ UNCHANGED <<assetVars, agreement, place, circulated, linked, twice>>

-----------------------------------------------------------------------------
AssetNext ==
    \E n \in Places :
      \/ \E f \in Facts, a \in BOOLEAN, es \in SUBSET Evidence : RecordEvidence(n, f, a, es)
      \/ \E facts \in SUBSET Facts : BuildDocument(n, facts)
      \/ \E d \in documents : ImportDocument(n, d)

AgreementNext ==
    \/ \E r \in Agreements, n \in Places :
         RecordAgreement(r, n) \/ \E s \in Agreements : ImportAgreement(r, s, n)
    \/ \E q \in Linkings :
         \/ \E r \in Agreements : FindUnlinked(q, r)
         \/ LinkLocally(q) \/ FailToLink(q)

ExchangeNext == AssetNext \/ AgreementNext

ExchangeSpec == ExchangeInit /\ [][ExchangeNext]_exchangeVars

-----------------------------------------------------------------------------
\* Evidence counts as attested at a node only if its own attesters have recorded it,
\* or a node it trusts has it in a signed document, whatever it passed through
\* ("another node's word is not this node's evidence"); that node need not have
\* counted it as attested itself.
HearsayIsUnattested ==
    \A n \in Places : \A e \in evidence[n] :
      e.attested => \/ e.fact \in witnessed[n]
                    \/ \E d \in documents : e.fact \in d.facts /\ d.from \in Trusts[n] \cap Signers

\* A record is linked exactly when it has become a stake, and becomes one stake
\* ("this agreement is already linked"), unless two requests had found it unlinked.
RecordIsOneStake ==
    \A r \in Agreements :
      /\ agreement[r] = "linked" <=> linked[r] > 0
      /\ linked[r] > 1 => r \in twice

\* Both.
WordIsKept == HearsayIsUnattested /\ RecordIsOneStake
===============================================================================
