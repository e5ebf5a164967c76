------------------------------ MODULE MCServices ------------------------------
(***************************************************************************)
(* The parts of the service beside the bridge and the introductions, on    *)
(* small instances: the registry of agents, the records they derive, the   *)
(* ledger of a person's entries, an allocation request, the deletion of an *)
(* account, the evidence on an asset, the assurance agent that runs on it, *)
(* a search through peers, the documents nodes hand each other.  They      *)
(* share no state: a behaviour takes the steps of one, the one part names. *)
(***************************************************************************)
EXTENDS AgentRegistry, DerivedRecords, LedgerEntries, Allocation, Account,
        Assurance, MCPathSearch, Exchange, TLC

CONSTANTS
    OneSteward,             \* who answers for every agent
    MaxInFlight,            \* bound on the requests that overlap in the ledger and on an asset
    MaxRows                 \* bound on the rows of an asset that the agent runs on

MCStewards   == {OneSteward}
MCStewardOf  == [a \in Agents |-> OneSteward]
MCAnswersFor == [a \in Writers |-> OneSteward]

MCReports  == {[key |-> "income", value |-> 1, attested |-> FALSE],
               [key |-> "income", value |-> 2, attested |-> TRUE],
               [key |-> "cost", value |-> 2, attested |-> TRUE]}
MCProposed == [p \in Proposals |-> [key |-> "income", value |-> 1, attested |-> FALSE]]
MCInputWeight == [k \in Keys |-> IF k = "income" THEN 60 ELSE 40]

\* As delivered; all that can be asked for; alerts of large falls and reviews, though not
\* of liabilities.
MCDefault  == [enabled |-> FALSE, alert_drop_pct |-> 10, min_confidence |-> 60,
               flag_liability |-> TRUE, allowed_actions |-> Actions]
MCMandates == {MCDefault, [MCDefault EXCEPT !.enabled = TRUE],
               [enabled |-> TRUE, alert_drop_pct |-> 50, min_confidence |-> 0,
                flag_liability |-> FALSE, allowed_actions |-> {"alert", "request_review"}]}

\* n3 trusts n2, which trusts n1.
MCTrusts == [n \in Places |-> IF n = n2 THEN {n1} ELSE IF n = n3 THEN {n2} ELSE {}]

Symmetry == Permutations(Agents) \cup Permutations(SignIns) \cup Permutations(Challenges)

VARIABLE part

allVars == <<registryVars, recordsVars, ledgerVars, allocationVars, accountVars,
             assuranceVars, searchVars, exchangeVars, part>>

\* What a search that does not run would start with is fixed.
ServicesInit ==
    /\ part \in {"registry", "records", "ledger", "allocation", "account",
                 "evidence", "assurance", "search", "assets", "agreements"}
    /\ RegistryInit /\ RecordsInit /\ LedgerInit /\ AllocationInit /\ AccountInit
    /\ AssuranceInit /\ SearchInit /\ ExchangeInit
    /\ part # "search" => items[Origin] = K

LedgerInFlight ==
    Cardinality({e \in Entries : entry[e] = "checked"})
      + Cardinality({v \in Reviews : review[v] # NoOne})
      + Cardinality({d \in Disputes : dispute[d] = "asking"}) + (IF erasing = NoOne THEN 0 ELSE 1)

AssuranceInFlight ==
    Cardinality(Writing) + Cardinality(rejecting) + Cardinality({r \in Runs : run[r] # NoRun})

RowsOfAsset == Cardinality({e \in Rows : row[e] # NoValue})

ServicesNext ==
    /\ UNCHANGED part
    /\ \/ /\ part = "registry" /\ RegistryNext
          /\ UNCHANGED <<recordsVars, ledgerVars, allocationVars, accountVars, assuranceVars,
                         searchVars, exchangeVars>>
       \/ /\ part = "records" /\ RecordsNext
          /\ UNCHANGED <<registryVars, ledgerVars, allocationVars, accountVars, assuranceVars,
                         searchVars, exchangeVars>>
       \/ /\ part = "ledger" /\ LedgerNext /\ LedgerInFlight' <= MaxInFlight
          /\ UNCHANGED <<registryVars, recordsVars, allocationVars, accountVars, assuranceVars,
                         searchVars, exchangeVars>>
       \/ /\ part = "allocation" /\ AllocationNext
          /\ UNCHANGED <<registryVars, recordsVars, ledgerVars, accountVars, assuranceVars,
                         searchVars, exchangeVars>>
       \/ /\ part = "account" /\ AccountNext
          /\ UNCHANGED <<registryVars, recordsVars, ledgerVars, allocationVars, assuranceVars,
                         searchVars, exchangeVars>>
       \/ /\ part \in {"evidence", "assurance"} /\ AssuranceNext
          /\ IF part = "evidence" THEN UNCHANGED runVars
             ELSE UNCHANGED proposal /\ RowsOfAsset' <= MaxRows
          /\ AssuranceInFlight' <= MaxInFlight
          /\ UNCHANGED <<registryVars, recordsVars, ledgerVars, allocationVars, accountVars,
                         searchVars, exchangeVars>>
       \/ /\ part = "search" /\ SearchNext
          /\ UNCHANGED <<registryVars, recordsVars, ledgerVars, allocationVars, accountVars,
                         assuranceVars, exchangeVars>>
       \/ /\ \/ part = "assets" /\ AssetNext
             \/ part = "agreements" /\ AgreementNext
          /\ UNCHANGED <<registryVars, recordsVars, ledgerVars, allocationVars, accountVars,
                         assuranceVars, searchVars>>

ServicesSpec == ServicesInit /\ [][ServicesNext]_allVars

\* Every part has its types.
TypeOK ==
    /\ RegistryTypeOK /\ RecordsTypeOK /\ LedgerTypeOK /\ AllocationTypeOK /\ AccountTypeOK
    /\ AssuranceTypeOK /\ SearchTypeOK /\ ExchangeTypeOK
===============================================================================
