# TLA+ models of the CAN framework

This directory holds TLA+ modules of the CAN backend (`backend/app`), the TLC
configurations that model-check them, and theorems about them whose proofs the
TLA+ proof system checks. Paths such as `bridge/service.py` are relative to
`backend/app`.

## 1. The system

A *node* is one FastAPI process over a PostgreSQL database. People reach it by
HTTP with a token, agents act for a *steward*, and other nodes are *peers* that
send signed requests. The parts, the state each keeps, what changes it, and what
makes it correct:

| Part | State | Operations | What makes it correct | Where |
| --- | --- | --- | --- | --- |
| Agent payments (`bridge/agent_payments.py`, `mandate_models.py`, `rails.py`) | mandates (status, spent total), payments, wallets | grant, revoke, expire; pay | limits are kept; nothing is paid after revocation; each payment has a record | `AgentPayments` |
| Pledges and settlement (`bridge/service.py`) | holdings, pledges, transfers | create and release a pledge, settle down, credit | value is free or pledged, never both; settling makes no money | `Leverage` |
| Suppliers and invoices (`bridge/routes.py`, `service.py`) | agreements, invoices, wallets | add supplier, answer, submit, verify, pay | only verified work is paid, once; a declined split is honoured | `Suppliers` |
| Projects and contributions (`bridge/routes.py`, `service.py`) | project status, contributions, wallets | set status, contribute, decide | a decision is final; an accepted offer earns once what was agreed | `Contributions` |
| Introductions (`value/introductions.py`) | one row per node and offer, routes, call states | start, receive, decide, reply, commit | contacts only after acceptance and commitment; an answer reaches the asker | `Introductions` |
| Agents (`agents/`) | agents, derived records, sessions | register, update, verify, record, review, recompute | limits per steward; a contradicted record is not relied on | `AgentRegistry`, `DerivedRecords` |
| Ledger, consent, corrections (`services/ledger.py`, `care_consent.py`, `corrections.py`) | entries, consents, disputes | write, delete, dispute, resolve, consent, withdraw | no care entry without consent; a corrected fact counts once | `LedgerEntries` |
| Scoring (`services/scoring.py`) | score snapshots | compute, store | which entries count; a snapshot per request | `LedgerEntries`, `Allocation` |
| Allocation and appeals (`services/allocation.py`, `api/routes/appeals.py`) | requests, appeals | request, decide, appeal, resolve | an appeal is resolved by another person; one upheld is heard | `Allocation` |
| Accounts and sessions (`services/account.py`, `core/`, `api/routes/did_auth.py`) | users, DID challenges and sessions | challenge, verify, logout, delete | a deleted person leaves nothing; a revoked agent has no session | `Account`, `AgentRegistry` |
| Value assurance (`value/routes.py`, `agent.py`, `engine.py`) | assets, evidence, proposals, runs, the holder's mandate | add evidence, propose, decide, run | one current row per input; the agent stays in its mandate and misses no fall | `Assurance` |
| Path search and proofs (`value/map_routes.py`, `forwarding.py`, `proofs.py`) | peers, keys, items | add, update, remove peer; query, forward, sign, verify | every path there is, none that is not; proven means signed | `PathSearch` |
| Agreements and documents (`value/agreements.py`, `documents.py`) | evidence, documents, agreement records | build, import, record, link | another node's word is not this node's evidence; one record, one stake | `Exchange` |
| Network graph, LinkedIn import, UI, migrations, simulations | | | | not modelled (section 7) |

The parts meet in shared rows (wallets are credited by payments, invoices,
contributions and settlements alike, through the one function `credit`), in
calls (an agreement that is linked becomes a contribution, an agreement with a
supplier or an access right), and in peer calls between nodes (introductions,
queries).

### Execution model

All modules rest on the same reading of how a handler runs.

* Handlers are plain `def`, so FastAPI serves each in a thread of its pool:
  requests overlap. Each has a session of its own from `db/session.py:6`
  (`autocommit=False, autoflush=False`).
* PostgreSQL runs READ COMMITTED: a query sees what is committed when it runs.
  No code locks a row or retries, and `UPDATE` writes values computed in Python
  from what was read (only the columns that changed).
* A commit expires the session, so attributes are read again on next use. A
  query does not flush: what a handler changed is written by its next commit.
  Helpers commit too: `get_or_create_wallet` when it inserts and `credit`
  always. What a caller changed *before* such a call is thereby committed in
  the middle of the caller.
* A request may die anywhere (an exception, a lost connection, a killed
  process). Its uncommitted changes are lost, its earlier commits stay.

So a request is a sequence of steps, each reaching from one read or commit to
the next; steps of different requests interleave freely; `Crash` ends a request
between any two. This is where the hard behaviours are: a check that is stale
when its result is used, an absolute value written over a newer one, a commit
in the middle of a handler followed by a death, a retry after it, an answer of
one person racing the action of another. PROJECT.json lists them with the line
at which each bites and the properties that watch it.

## 2. Modules

| Module | What it is |
| --- | --- |
| `Wallet` | A fungible position of a wallet and what `credit()` makes of it. |
| `AgentPayments` | `grant_mandate`, `revoke_mandate`, expiry, and `agent_pay`/`pay` in nine steps. |
| `PaymentContract` | What a mandate promises its granter, abstractly. `AgentPayments` is shown to implement it. |
| `Leverage` | `create_pledge`, `release_pledge`, `settle_down`, and `credit` of new units on the same holdings. |
| `Escrow` | What pledging and settling promise holder and lender. `Leverage` implements it. |
| `Suppliers` | `add_supplier`, `respond_to_agreement`, `submit_invoice`, `verify_invoice`, `pay_invoice`. |
| `WorkContract` | What supplier and sponsor are promised. `Suppliers` implements it. |
| `Contributions` | `set_status`, `propose_contribution`, `decide_contribution`. |
| `Introductions` | One offer from `start` to `receive_commit`: every handler of `value/introductions.py` at every node of its routes. |
| `AgentRegistry` | `register`, `update_agent`, challenges, and signing in as an agent or as a person. |
| `DerivedRecords` | `record_derived`, `review_record`, `recompute`, and the two review queues. |
| `LedgerEntries` | The entries about one person: `add_entry`, `delete_entry`, `set_care_consent`, disputes and their resolution, and which entries `compute_score` counts. |
| `Allocation` | One allocation request: `create_request`, `decide`, appeals and their resolution. |
| `Account` | `delete_account`, statement by statement, against the foreign keys of every table. |
| `Assurance` | The evidence on one asset, proposals, the holder's mandate, `run_assurance`. |
| `PathSearch` | Peers, keys and items of several nodes; one federated query; its proofs. |
| `Exchange` | Asset documents built and imported; agreements recorded, imported and linked. |
| `MC...` | Instances for TLC: constants and symmetry. |
| `MCServices` | The eight modules from `AgentRegistry` to `Exchange` in one state space (section 4). |
| `SumTheorems` | Lemmas on sums over finite sets, and induction on finite sets and on numbers. |
| `...Proofs` | Theorems of the module of that name; `ValueProofs` of `Assurance`, `Exchange` and `PathSearch`; `ServicesProofs` of `AgentRegistry`, `DerivedRecords`, `LedgerEntries`, `Allocation`, `Account` and of all the services side by side (`MCServices`). |

How state corresponds to code. Variables under *rows of the database* are
columns of committed rows (`status`, `spent`, `cash`, `outcome` ...). Variables
of *sessions* are what a handler holds in Python between two statements: `view`
and `loaded` are ORM objects as last read, `found` and `seen` the row `credit`
will merge into, `pending` and `dirty` changes not yet committed, `pc` the place
in the handler. *History* variables are read by properties only: what reached a
payee, which requests were received too late, and `met[r]`, the requests that
were in flight when `r` began.

`Introductions` has no database of its own for each node. A *seat* is a place on
a route; `row[s]` is the row that the offer's arrival at seat `s` inserted at
the node sitting there, so that a node that inserted two has two. A call is a
variable that holds how far its handler has come: `recv[s]` for the offer on its
way to `s`, `reply[<<s, status>>]` for an answer of `s`, `comm[s]` for the
commitment; `asker`, `dec[d]` and `commit` are the handlers of people's
requests. A caller waits for its callee (`http_peer_client` is synchronous) and
hears yes, no, or, by a fault, no while the callee goes on (`HearsNo`,
`HearsBack`). The rows' columns that no property reads (notes, slices, dates,
counts of carried and missed offers) are left out, peers are known and active,
and signatures are valid. A relay's operator carries an offer once; equal
answers of one seat follow each other.

The modules of the services beside the bridge keep the same three groups of
variables. Rows: `agent`, `record`, `entry`, `dispute`, `request`, `appeal`,
`rows` and `marks`, `row` and `current`, `peer`, `agreement`. What a request holds:
`registering`, `signin` and `claim`; `writing` and `job`; `erasing` and `review`;
`handler`; `step` and `gone` (an open transaction); `sees` (the rows a
transaction will supersede), `rejecting`, `run`; `linking`. An entry, a
dispute or an appeal that has passed its checks and is not inserted yet has a
status of its own (`checked`, `asking`). History is read by properties only.

* `AgentRegistry`: one action for each commit or read that something else can
  come between. `CheckCanRegister` and `Register` are the two halves of
  `register`; `FindChallenge`, `SpendChallenge`, `CheckStatus` and `OpenSession`
  those of signing in, at `/agents/auth/verify` (`as = "agent"`, which asks for
  the agent's status) or `/auth/did/verify` (`as = "person"`, which does not).
* `DerivedRecords`: `CheckWrite`, `InsertRecord`; `LoadReview` and `CommitReview`;
  `LoadRecompute` and `CommitRecompute`. Columns equal to what was loaded are not
  written (`Written`), which is how the ORM loses a supersession.
* `LedgerEntries`: an insertion that was checked before a revocation and comes
  after it (`CheckCareEntry`, `InsertCareEntry`; `ReadFactorEntries`, `Revoke`);
  an overlap of two disputes or two reviews of one entry.
* `Allocation`: `LoadRequest` and `Decide`, `LoadAppeal` and `ResolveAppeal` hold
  what they loaded and write only what differs.
* `Account`: `Refers` is the schema, `Statements` the `DELETE`s in the code's
  order; PostgreSQL's check of foreign keys at the end of each statement is
  modelled from how the service is configured.
* `Assurance`: `AddEvidence` and `Accept` see what is committed (`sees`) and
  commit later; a run reads mandate, latest run and evidence (`ReadForRun`) and
  commits later (`CommitRun`). The model asset has one required input, one with
  a default, and one scenario. A mandate has every field of `MandateIn`;
  `Candidates` is what `run_assurance` finds worth an action, `Taken` what it does
  of that, which is all that the row's `actions` say beside their wording.
  `force` remembers the mandates in force while a run is under way, `stirred`
  the runs while which another one ended.
* `PathSearch`: the calls of one query are nested and synchronous, so `Answer` is
  what one call of `search` returns when the calls with one hop less return what
  they do, and `Search` ties the knot: a recursive function of the time to live.
  `WrapHop` and `Proven` are `wrap_hop` and `verify_proof`; a proof carries its
  inner proof, a signature names signer and key.
* `Exchange`: documents only grow, since they are handed on outside the system.
  `ImportDocument` decides attested or not by `SignerTrusted` alone.

Abstractions common to the bridge modules: amounts are whole units, so `round()` changes
nothing; names, notes, evidence and documents are left out; the rows of one
kind and currency in one wallet count as one number; the rail always settles
(`SimulatedRail`), an exception in it is a `Crash`; authentication has happened
(whoever acts has the role the route asks for).

## 3. What holds when

Two kinds of properties are stated, and the modules keep them apart.

*Whatever overlaps and whoever dies*: the order of the commits alone gives
these. Examples: an attempt received after revocation never reaches the rail;
a settled payment has credited its payee; nothing is credited for an invoice
never verified; nothing is issued for an offer the database did not call
accepted.

*Until requests for the same thing overlap (or die)*: since nothing is locked,
the limits are kept only by requests that do not overlap. These properties
have a history predicate as premise (`Awaited`, `Apart`, `Calm`, `Alone`)
read from `met`, so that they speak of every behaviour up to the first overlap
on the same mandate, holding, invoice or offer, with unlimited overlap on
others, in place of a second specification in which nothing overlaps.
Where a death does no harm the premise does not exclude it: each property has
the weakest premise TLC accepts.

*What the code does not keep* is stated last in its module and checked by runs
that expect a violation.

## 4. Runs

| Run | Bounds | What it shows |
| --- | --- | --- |
| `Payments` | 1 mandate (total 3, at most 2 a payment), 3 attempts of 1 or 2, purse 4, payee without wallet, 1 death | payments received after revocation never pay, the count and the total, `MoneyKept`, and that `AgentPayments` implements `PaymentContract` |
| `PaymentsCeilingBroken` | 2 attempts of 2, no death | two overlapping payments exceed the total (*violation*) |
| `Leverage` | 3 holdings (fungible, claim, access right), 3 requests, amounts 1 and 2, 1 death | `CoveredWhenApart`, `ValueKept`, and that `Leverage` implements `Escrow` |
| `LeverageDoublePledge` | 2 pledges of 2 | two overlapping pledges of one holding (*violation*) |
| `Suppliers` | 1 agreement, 2 invoices of 2, 3 requests, all splits, 1 death | a declined split is honoured, only verified work is paid, `WalletHoldsAll`, and that `Suppliers` implements `WorkContract` |
| `SuppliersStakeUnasked` | 1 invoice, no death | units are issued to a supplier who never answered (*violation*) |
| `Contributions` | 2 offers of one contributor, 3 decisions, values 1 and 2, 1 death | an offer earns at most once, what is accepted is issued, a decision is final |
| `Introductions` | one route over a relay, or over a relay that reviews; two routes to two far ends; two routes that merge at a relay; two of which one ends at the other's relay; 2 events | all of `Introductions`, liveness included |
| `IntroductionsAcceptanceLost` | two routes to two far ends, 2 events | an acceptance is lost when the other far end declines (*violation*) |
| `Services` | see below | the properties of the eight modules of `MCServices` |
| `WithdrawalRefused` | 2 rows or marks of a person | an account with an open proposal on an asset is not deleted (*violation*) |
| `FarMatchUnproven` | 4 nodes, 2 changes | a match behind two relays is not proven though all have signed (*violation*) |

The parts of `Services` share no state, so no interleaving of two of them says
more than each says alone: `part` chooses one in the initial state and only its
actions are taken. The state space is the sum of the parts' and not their
product, and every part is complete within its bounds:

| Part | Bounds | Properties |
| --- | --- | --- |
| `registry` | 2 agents of one steward who may have 1, 2 challenges, 2 sign-ins as either | `AccessIsAnsweredFor` |
| `records` | 2 agents of one steward, limits 0 and 1, steward's ceiling 1, 2 records, 2 requests | `RecordsAreReviewed` |
| `ledger` | 3 entries, 2 attesters, 2 disputes, 2 reviews, 2 requests in flight | `ConsentHolds`, `FactsCountOnce` |
| `allocation` | 2 reviewers, 2 appeals, 2 handlers | `AppealStands` |
| `account` | every kind of row and every mark of section 2, 3 of them at a time | `DeletionIsWhole` |
| `evidence` | 3 evidence rows, 3 reports, 1 proposal, decided by holder or attester, 2 requests in flight; no runs | `EvidenceIsSettled` |
| `assurance` | 2 evidence rows, 3 reports, 2 runs, 3 mandates that the holder changes at any time (as delivered; everything; no flags for liabilities, attestation not to be asked for, and 50% for an alert), 2 requests in flight; no proposals | `ActsAsMandated` |
| `search` | 4 nodes in a chain with a shortcut, k = 2, at most 3 hops, 2 changes, no or one lost link | `FindsEveryPath`, `ProvenIsSigned` |
| `assets`, `agreements` | 3 nodes that trust in a chain, 1 fact; 2 records, 2 requests to link | `WordIsKept` |

Why these bounds are enough to be interesting: two requests show every race of
a check with an update, the third lets one come *after* a race or a death and
act on what it left (a payment retried after a death, a late verdict on a paid
invoice, a settlement beside two pledges). Amounts 1 and 2 against a total of 3
give attempts that fit alone and not together, that fit exactly, and that are
refused. One death suffices for every property that speaks of what a death
leaves behind; the premises show which need none. Requests, offers and invoices
of one kind are symmetric; all properties checked under symmetry are safety
properties that do not tell them apart. Every bound (`MaxCrashes`, the sets of
requests and amounts) is a constant; the modules have no other.

In `Introductions` an event is a decision, a lost call, a caller that gives up
or a death (`MaxEvents`). Two let a person decide and one thing go wrong, two
people decide, at two far ends or about one row, or two things go wrong before
anybody decides. The routes are the shortest on which an answer passes a relay,
on which two far ends answer one asker, and on which two routes come to one relay
by different ways and go on to one far end, so that relay and far end may be
reached twice, at once or one after the other. On the last pair a node is the far
end of one route and a relay of the other, and if both arrivals crowd in, an
answer may find the row that never was sent on.

In `Services` two requests show each race once more; the third entry is the
correction of an entry that another corrects, the third evidence row comes
after two that overlapped. What a run reads of a proposal is the row it became, so
`assurance` has none, and two rows are enough for the value to appear and to
fall, under a run or between two. The three mandates differ in every field.
Three requests in flight on one ledger or asset (`MaxInFlight` says two) would
add only races of which every pair is there.
Three traces of a person (`MaxTraces`) are the longest chain that matters, a row,
the row it points at, and one that does not belong to it; the statements are
the real ones, all of them. `MaxChanges` = 2 lets a peer be taken off and put back,
or a key be changed and a peer with it, before, between or after the query and
the check of its proofs; 4 nodes give a path of three hops, a loop to avoid and
two paths to one match.

Deadlock is checked in `Payments` and `Contributions`, where the granter or the
sponsor can always act once more; the requests of `Leverage` and `Suppliers`, and an
offer, really come to an end, so there it is switched off. So do the parts of `Services`,
whose ids run out.

### Disagreements between code and documents

* `PaymentsCeilingBroken`: `check_mandate` compares with a count another
  payment is about to raise. The test suite calls the total "a ceiling, not a
  suggestion".
* `LeverageDoublePledge`: "Double pledging is refused" (`bridge/routes.py:456`)
  holds for pledges that do not overlap (`CoveredWhenApart`).
* `SuppliersStakeUnasked`: participation is "always the supplier's choice,
  never a condition of being paid" (`bridge/routes.py:372`), yet `pay_invoice`
  splits while the answer is still pending.

* `IntroductionsAcceptanceLost`: "One offer, several routes: it is alive while
  any route is" (`value/introductions.py:188`). `receive_reply` sets the status
  of the route inside the list that the row holds and assigns a copy to have
  "the JSON column written" (line 350); the copy equals the list as loaded, so
  the ORM writes nothing, and the next answer finds every route as `start` left
  it. For the same reason two refusals of two routes leave the offer
  "forwarded", and `blocked_by` is empty after a refusal that came by an answer;
  hence `RefusalArrives` speaks of one route and of the status.
* `WithdrawalRefused`: `DELETE /identity/users/me?confirm=true` "erases the
  profile and all data about the person"
  (`docs/about/SAFEGUARDS_IN_CODE.md:30`). `delete_account` deletes assets
  while evidence proposals and projects may refer to them, and the user while
  map items, mandates and payments do; the foreign key makes the statement
  fail and nothing is deleted. The tests run on SQLite, which does not check
  foreign keys unless told to. `DeletionIsWhole` says that nothing else makes it
  fail: the order of the statements respects every other foreign key.
* `FarMatchUnproven`: "the far end signs the match, every node in between signs a
  hop" (`value/proofs.py:143`), and only "a node with no signing key cannot prove
  anything" (line 20).
  `wrap_hop` signs a hash of the whole proof it got, which after a first relay
  has `inner_hash`; `verify_proof` hashes `match` and `hops` alone. Two relays and
  the chain never verifies. `ProvenIsSigned`, the other direction, holds.

More were met while reading and have no run:

* `verify_invoice` does not compare the verifier with the supplier, and a
  sponsor may name themselves as supplier, although
  `docs/implementation/wp-010-bridge-wallet.md:104` says a supplier cannot
  verify their own delivery.
* Accepting an agreement after declining it does not restore the split that
  declining set to all cash.
* A node without a key whose peers can be called raises in `sign_request`
  (`forwarding.py:50`), so that even its own match is lost, although "Its answers
  still travel; they are simply marked unproven" (`proofs.py:20`). `Search` has
  this, and `FindsEveryPath` makes it a premise (`Travels`).
* What a trusted node discloses becomes attested evidence where it is imported,
  what that node itself only reported included; `HearsayIsUnattested` is stated
  for what the code does, that a trusted node has signed it.
* One introduction can be recorded, and one document imported, any number of
  times, each record a stake of its own; `RecordIsOneStake` speaks of a record.
* `delete_account` leaves the subject in `EvidenceProposal.proposed_by` and
  `decided_by`, `Recomputation.by_subject`, `AssuranceRun.triggered_by`,
  `AgreementRecord.recorded_by` and `Introduction.requested_by`; `DeletionIsWhole`
  speaks of the columns that are meant to be pseudonymised.
* `find_paths` (`network_graph.py`) drops longer alternatives over a node that a
  shorter path has reached; it is not modelled.

## 5. Fairness

No liveness is claimed of the bridge and of the service modules: nothing in
them waits for anything, a request that dies is not resumed, and whether a
person answers is not the code's to promise. There `Spec` has no fairness.
`FindsEveryPath` is the whole of what a query promises, as an action property:
the query is one step and its answer is compared with a set-based definition.

`Introductions` states liveness under `LiveSpec`, which is `Spec` with weak
fairness of `Serve`: the steps of handlers that have begun and of calls that
have been sent. It is justified by the threads of the pool being scheduled and
by every call ending, with an answer or at `peer_timeout_seconds`. It is fairness
of their disjunction only: some handler goes on as long as one can. Since each
handler has finitely many steps and waits only for calls it made, that suffices.
What people do (`Ask`, `LoadDecision`, `LoadCommit`) and `Fault` have none: the
properties begin with a decision taken or a commitment given. They end at
`Disturbed`: where a call is lost or a handler dies nobody sends the answer
again, and where an answer overtakes its sender's predecessor it may be
overwritten (`CloseStart`, `CarryOn`). These are behaviours of the code, listed
among the hazards, and the run holds them: the properties of contacts are
checked through them without that premise.

## 6. Proofs

Every invariant and every action property of a passing run is a theorem here,
for every value of the constants; what stays with TLC is named at the end.
The theorems hold for every set of mandates, holdings, invoices, offers, routes,
agents, entries, rows, nodes and requests, every amount, every number of deaths, from
the assumptions named in each module (`PaymentsAssumption` ...: the types of the
constants, positive limits, finite sets where something is counted or summed, a
last row in every set of rows, and that the placeholders `NoOne`, `NoValue`,
`NoRun` ... are not values). TLC evaluates each of them on a run.

* `SumTheorems`. The totals of the bridge are folds over finite sets
  (`SumFunctionOnSet`). No induction theorem of the library can be used, since
  they take an operator; but a set of subsets is a value, and its smallest
  member that is not good is found by well-foundedness of the strict subset
  ordering: `SubsetInduction`. From it come `EveryNumber`, the same for numbers,
  and the lemmas about sums: the fold exists, does not depend on the order
  (`SumTakeOut`), and changes by what one or two of its parts change.
* `AgentPaymentsProofs`. `TypeCorrect` comes first. The unconditional
  properties follow from `SafeInv`, which ties each step of a request to what the
  request has done (past the rail, credited, counted), bounds `spent[m]` by
  `paid[m]`, and bounds `view[r].spent` by `paid[m]` as well: without this last
  conjunct `CountNeverOverstates` is not inductive, since the count is written
  from a view. `CeilingHolds` needs the sequential invariant: while attempts
  are awaited at most one is in flight per mandate, its view of the count is
  the count, and the count is what was paid and, short of the payment under
  way, what was sent. `PaymentsImplementContract` maps each step to a step of
  `PaymentContract` or a stutter from the same invariant. `MoneyKeptHolds` adds
  what the only request in flight holds: its view of the payer's row is the row,
  and what is missing from the total is what it took and has not credited yet, or
  what a death took with it.
* `LeverageProofs`. `CoveredWhenApartHolds` rests on an invariant that between
  its check and its commit an undisturbed request's loaded amount is still the
  row's, so that the room it checked is still there when it commits.
  `PledgedIsTheSum` holds whatever overlaps: the code has no column for it and adds up
  the active rows, of which the model's `pledged` is thereby shown to be the sum. `ValueKeptHolds` and `LeverageImplementsEscrow` share the
  invariant of a single request in flight: the cash it found is the cash that
  there is (`FreshCash`), so at every step cash is what the units gone are worth
  (`Balanced`), the step that commits both included.
* `SuppliersProofs`. `PaidIsFinalHolds`, `PaysOnlyWhatWasVerifiedHolds` and
  `SuppliersImplementContract` share the invariant that the invoice a request
  loaded is still in that state while no other request met it, and that what
  has been received is what the request's place in `pay_invoice` says.
  `WalletHoldsAllHolds`: as long as requests for one supplier do not overlap, the
  row that `credit` found is the row it writes to, and each of the two credits
  adds the same to wallet and sum.
* `ContributionsProofs`. `EarnsAtMostOnceHolds` and `DecisionIsFinalHolds`
  survive deaths because the acceptance is flushed by whichever commit comes
  first; `AcceptedIsIssuedHolds` needs the premise that nobody dies between.
* `IntroductionsProofs`. The twenty-odd steps of the handlers are first reduced to
  what one of them may do to a row, a call, an answer, the asker and the history
  (`Framed`; `StepsAreFramed` has one lemma per handler). On these moves, and no
  more on the handlers, the invariant is shown inductive: an arrival is inserted once
  and only behind rows (`ArrivedOnce`), who answers or decides has a row
  (`AnswersFromRow`, `DecidesOnRow`), rows of one node are alone unless crowded
  (`Alone`), and a contact, wherever it is held or carried, is on the way to
  somebody who accepted (`ContactOnTheWay`, `AnswerOnTheWay`); likewise the asker's
  on the way of the commitment. The proof corrected the model's property: on
  routes that merge at a relay by ways of different length, and two arrivals that
  crowd in there, `receive_reply` may take either row (`.first()`,
  `introductions.py:338`), and the contact goes back along a way by which the
  offer had not come. Routes on which TLC sees this were added to the run, and
  `ContactByConsent` has the premise that no two arrivals crowded.

* `ServicesProofs`. `AgentsWithinLimitHolds` needs that a registration which no
  other of the steward's overlaps still has room when it inserts; `rivals` and
  `revived` are taken out of the count, and the cardinalities of finite sets do
  the rest. `AccessIsAnsweredForHolds` adds what each half of a sign-in knows: a
  challenge found by one request only is unspent, an agent seen active that has
  been revoked since has outrun it. `RecordsAreReviewedHolds` rests on the same two
  ideas: an overlap-free write has room in the steward's queue (`QueueRoom`), and
  of a record that no review contested a review in flight is the only job, and a
  recomputation that loaded it superseded still finds it so (`JobsKnow`): without
  the latter a `Written` that leaves the column alone could lose the supersession.
* Its ledger: `ConsentHoldsAlways` needs that a revocation in flight has
  read every care entry that is not `late`, or will fail on a foreign key
  (`RevocationSeesAll`), and that a correction is of an attested entry which stays
  as long as it does (`EntriesHangTogether`). `FactsCountOnceAlways`: about an entry
  whose disputes no two requests handled at once there is one pending dispute at
  most, of an entry that counts, and one review of it (`OneAtATime`).
* Its allocation: `AppealStandsHolds`. Until somebody decides again, whoever is
  about to resolve an appeal is not whom it is against (`IndependenceKept`); unless
  a decision and a resolution have crossed, none of the two is in flight with the
  other, and a resolution that loaded a reopened request finds it so
  (`ApartUntilCrossed`).
* Its account: `DeletionIsWholeHolds`. `At` gives every kind of row the number of the
  statement that deletes it, and `OrderRespectsKeys` compares these along every
  foreign key: a kind is deleted no later than what it refers to, but for the
  kinds in `Unforeseen`. So a row left dangling is of one of these or was inserted
  beside the deletion; and when the user's own row goes, nothing is left, since
  every chain of references ends there.
* `ValueProofs`. `EvidenceIsSettledHolds`: a write that overlaps no other of its key
  supersedes, from its start to its commit, every current row of the key, what
  an earlier overlap left included (`RowsApart`), and an open proposal has one decision at most under way
  (`DecisionsApart`). `ActsAsMandatedHolds`: the mandate a run has read is one
  of those in force while it runs, and the value it compares with is the latest
  when it commits unless another run ended meanwhile (`RunsKnow`); what such a
  mandate calls for is then among the candidates (`CallIsHeard`). A fall from
  nothing is no fall: it calls for a review where liabilities are flagged, and
  for nothing where they are not.
  `WordIsKeptHolds`: evidence and documents only grow but for what newer evidence
  supersedes, so hearsay is inductive as it stands; that a record becomes one stake
  needs that a record one request has found not linked is found by no other
  (`LinksKnow`). `ExchangeTypeCorrect` bounds the stakes of a record even when
  requests overlap: each counts once, as found or as linked (`StakesBounded`).
* Its search. That the recursive function exists is shown first: two searches of
  bounded depth agree where both are defined, there is one of each depth, and
  so `Search` is what its equation says (`SearchUnfolds`). Then by `EveryNumber` on the
  time to live: each result of a call is vouched for by the nodes on its path
  (`SearchVouched`), which the invariant remembers of the answer until it is
  checked (`Carried`), whence `ProvenIsSignedHolds`; and the results are
  exactly the simple ways on which calls are accepted (`SearchFindsAll`), whose
  weights are the products along them (`PathWeightIs`): `FindsEveryPathHolds`. No
  bound on nodes, links or hops is left in either.
* The services together: a step of `MCServices` is a step of one part and a
  stutter of each other (`ServicesAreTheirParts`), so that the theorems of the parts
  carry over: `ServicesTypeCorrect` and `ServicesKeepTheirWord`.

Some theorems are of properties that no run lists, since the theorem says more than
the run would: `PaidIsFinalHolds`, `ExhaustedIsSpentHolds`, `PaidIsCreditedHolds`
and the like. They hold for every value of the constants.

Only model-checked: liveness under fairness (`AnswerArrives`, `RefusalArrives`,
`CommitmentArrives`), which is out of the prover's reach, as `ENABLED` is. What the
code does not keep needs no proof: the runs that expect a violation show it by
an example.

## 7. Not modelled, and why

* Network graph search and LinkedIn import: a bounded search over rows that do
  not change while it runs, and the parsing of an uploaded file.
* Signatures, tokens, key parsing, hashes, canonical JSON: cryptography and
  libraries. Where a module needs one it takes it as unforgeable, and a hash as
  the value it is taken of.
* Scores' float weights and yaml tables, the full value formula with its
  scenarios: data. What the modules keep of them is what the
  properties tell apart (which entries count; a value, its fall, its sign, the share of it that is attested).
* Refusals that change nothing: scopes, sizes and hourly rates of agents and
  peers, and who may see what of an asset. A refused peer call is a lost call.
* Commitments and their epoch in a query: taken as whether `k_anonymity` items
  match.
* The rest of an introduction: the limit of open offers per caller, counts of
  carried and missed offers, and the cancelling of other rows of an offer.
* Map slices and account exports: reports of rows that they do not change.
* Browser interface, schemas, migrations, simulations: no state of the running
  system.

## 8. Plan

1. The safety half of what the liveness properties of `Introductions` say, as
   invariants: an undisturbed offer at rest has its answer at the asker. Proved, they
   would leave only "it comes to rest" to TLC.
2. Which premises are needed: for each of `Apart`, `Alone` and `Awaited`, what
   remains true of the requests that did overlap (`PledgedIsTheSum` and
   `StakesBounded` are of this kind).
3. The limit of open offers per caller in `Introductions`, a check before an
   insertion.
