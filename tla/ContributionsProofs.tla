------------------------- MODULE ContributionsProofs --------------------------
(***************************************************************************)
(* Theorems about Contributions, for every set of offers and decisions and *)
(* every value.  The first holds whatever overlaps and whoever crashes;    *)
(* the next until decisions on one offer overlap, the last until one dies, *)
(* too.                                                                    *)
(***************************************************************************)
EXTENDS Contributions, TLAPS

\* The fields of a decision, and whom it is about.
LEMMA AskFields ==
    ASSUME NEW d \in Decisions, req \in [Decisions -> Asks]
    PROVE  /\ req[d].offer \in Offers /\ req[d].accept \in BOOLEAN
           /\ req[d].value \in Values /\ req[d].value \in Nat \ {0}
           /\ Payee(d) \in People
  BY ContributionsAssumption DEF Asks, Payee, People

-----------------------------------------------------------------------------
(* Types. *)

LEMMA InitTypeOK == Init => TypeOK
  BY ContributionsAssumption DEF Init, TypeOK, None

LEMMA NextTypeOK == TypeOK /\ [Next]_vars => TypeOK'
  <1> SUFFICES ASSUME TypeOK, [Next]_vars PROVE TypeOK'
    OBVIOUS
  <1> USE ContributionsAssumption, AskFields DEF TypeOK, Busy, None
  <1>1. ASSUME NEW s \in {"funding", "funded", "delivering", "operating", "closed"},
               SetStatus(s) PROVE TypeOK'
    BY <1>1 DEF SetStatus, history
  <1>2. ASSUME NEW c \in Offers, FindProjectOpen(c) PROVE TypeOK'
    BY <1>2 DEF FindProjectOpen, rows, history
  <1>3. ASSUME NEW c \in Offers, InsertOffer(c) PROVE TypeOK'
    BY <1>3 DEF InsertOffer, history
  <1>4. ASSUME NEW d \in Decisions, RefuseDecision(d) PROVE TypeOK'
    BY <1>4 DEF RefuseDecision, rows, history
  <1>5. ASSUME NEW d \in Decisions, LoadOffer(d) PROVE TypeOK'
    BY <1>5 DEF LoadOffer, rows, history
  <1>6. ASSUME NEW d \in Decisions, CommitRejection(d) PROVE TypeOK'
    BY <1>6 DEF CommitRejection, history
  <1>7. ASSUME NEW d \in Decisions, OpenWallet(d) PROVE TypeOK'
    BY <1>7 DEF OpenWallet, Flush
  <1>8. ASSUME NEW d \in Decisions, FindUnits(d) PROVE TypeOK'
    BY <1>8 DEF FindUnits, rows, history
  <1>9. ASSUME NEW d \in Decisions, CreditUnits(d) PROVE TypeOK'
    <2>1. UnitsAfter(d) \in Nat
      BY DEF UnitsAfter, AfterCredit, InRow
    <2> QED
      BY <1>9, <2>1 DEF CreditUnits, Flush
  <1>10. ASSUME NEW d \in Decisions, CreditAccess(d) PROVE TypeOK'
    BY <1>10 DEF CreditAccess, Flush
  <1>11. ASSUME NEW d \in Decisions, Crash(d) PROVE TypeOK'
    BY <1>11 DEF Crash, rows, history
  <1>12. CASE UNCHANGED vars
    BY <1>12 DEF vars, rows, history
  <1> QED
    BY <1>1, <1>2, <1>3, <1>4, <1>5, <1>6, <1>7, <1>8, <1>9, <1>10, <1>11, <1>12
    DEF Next, ProjectStep, Decide

\* Every variable keeps its type in every behaviour of the contributions.
THEOREM TypeCorrect == Spec => []TypeOK
  BY InitTypeOK, NextTypeOK, PTL DEF Spec

-----------------------------------------------------------------------------
(* Whatever overlaps and whoever crashes. *)

Accepting == {"wallet", "units", "crediting", "access"}

\* An acceptance that is no longer only in the session is in the database.
Flushed ==
    \A d \in Decisions : pc[d] \in Accepting /\ d \notin dirty => req[d].offer \in accepted

FlushInv == TypeOK /\ Flushed /\ IssuedWasAccepted

LEMMA InitFlushInv == Init => FlushInv
  BY InitTypeOK DEF Init, FlushInv, Flushed, IssuedWasAccepted, Accepting

LEMMA NextFlushInv == FlushInv /\ [Next]_vars => FlushInv'
  <1> SUFFICES ASSUME FlushInv, [Next]_vars PROVE FlushInv'
    OBVIOUS
  <1>0. TypeOK /\ TypeOK'
    BY NextTypeOK DEF FlushInv
  <1> USE <1>0, AskFields DEF FlushInv, TypeOK, Flushed, IssuedWasAccepted, Accepting
  <1>1. ASSUME NEW s \in {"funding", "funded", "delivering", "operating", "closed"},
               SetStatus(s) PROVE FlushInv'
    BY <1>1 DEF SetStatus, history
  <1>2. ASSUME NEW c \in Offers, FindProjectOpen(c) PROVE FlushInv'
    BY <1>2 DEF FindProjectOpen, rows, history
  <1>3. ASSUME NEW c \in Offers, InsertOffer(c) PROVE FlushInv'
    BY <1>3 DEF InsertOffer, history
  <1>4. ASSUME NEW d \in Decisions, RefuseDecision(d) PROVE FlushInv'
    BY <1>4 DEF RefuseDecision, rows, history
  <1>5. ASSUME NEW d \in Decisions, LoadOffer(d) PROVE FlushInv'
    BY <1>5 DEF LoadOffer, rows, history
  <1>6. ASSUME NEW d \in Decisions, CommitRejection(d) PROVE FlushInv'
    BY <1>6 DEF CommitRejection, history
  <1>7. ASSUME NEW d \in Decisions, OpenWallet(d) PROVE FlushInv'
    BY <1>7 DEF OpenWallet, Flush
  <1>8. ASSUME NEW d \in Decisions, FindUnits(d) PROVE FlushInv'
    BY <1>8 DEF FindUnits, rows, history
  <1>9. ASSUME NEW d \in Decisions, CreditUnits(d) PROVE FlushInv'
    BY <1>9 DEF CreditUnits, Flush
  <1>10. ASSUME NEW d \in Decisions, CreditAccess(d) PROVE FlushInv'
    BY <1>10 DEF CreditAccess, Flush
  <1>11. ASSUME NEW d \in Decisions, Crash(d) PROVE FlushInv'
    BY <1>11 DEF Crash, rows, history
  <1>12. CASE UNCHANGED vars
    BY <1>12 DEF vars, rows, history
  <1> QED
    BY <1>1, <1>2, <1>3, <1>4, <1>5, <1>6, <1>7, <1>8, <1>9, <1>10, <1>11, <1>12
    DEF Next, ProjectStep, Decide

\* Nothing is issued before the database calls the offer accepted, however
\* decisions overlap or die (decide_contribution, get_or_create_wallet and
\* credit commit the acceptance first).
THEOREM IssuedWasAcceptedHolds == Spec => []IssuedWasAccepted
  <1>1. FlushInv => IssuedWasAccepted
    BY DEF FlushInv
  <1> QED
    BY InitFlushInv, NextFlushInv, <1>1, PTL DEF Spec

-----------------------------------------------------------------------------
(* Until decisions on one offer overlap. *)

OneInFlight ==
    \A q, d \in Decisions :
      InFlight(q) /\ InFlight(d) /\ req[q].offer = req[d].offer => q = d

\* Where a decision in flight stands says what the database holds of its offer.
Stand ==
    \A d \in Decisions : InFlight(d) =>
      LET c == req[d].offer IN
      /\ d \in dirty => status[c] = "proposed" /\ issued[c] = 0 /\ value[c] = 0
      /\ d \notin dirty => status[c] = "accepted" /\ value[c] = req[d].value
      /\ pc[d] \in {"reject", "wallet"} => d \in dirty
      /\ pc[d] \in {"units", "crediting"} => ForUnits(c)
      /\ rights[c] = 0
      /\ pc[d] # "access" => issued[c] = 0
      /\ pc[d] = "access" => ForAccess(c) /\ (ForUnits(c) => issued[c] = value[c] /\ d \notin dirty)

\* Only an accepted offer has a value.
Valued == \A c \in Offers : status[c] # "accepted" => value[c] = 0

Earned ==
    \A c \in Offers : /\ issued[c] <= value[c] /\ rights[c] <= 1
                      /\ status[c] # "accepted" => issued[c] = 0 /\ rights[c] = 0

Orderly == OneInFlight /\ Stand /\ Valued /\ Earned

AloneInv == TypeOK /\ (Apart => Orderly)

\* Decisions that have met have met for good, and one that died stays dead.
LEMMA NothingForgotten ==
  TypeOK /\ [Next]_vars =>
    /\ req' = req
    /\ \A d \in Decisions : /\ met[d] \subseteq met'[d]
                            /\ pc[d] = "crashed" => pc'[d] = "crashed"
  BY DEF TypeOK, Next, ProjectStep, Decide, SetStatus, FindProjectOpen, InsertOffer,
     RefuseDecision, LoadOffer, CommitRejection, OpenWallet, FindUnits, CreditUnits,
     CreditAccess, Crash, MayStart, InFlight, Busy, vars, history

LEMMA ApartBefore == TypeOK /\ [Next]_vars /\ Apart' => Apart
  BY NothingForgotten DEF Apart

LEMMA CalmBefore == TypeOK /\ [Next]_vars /\ Calm' => Calm
  BY NothingForgotten DEF Calm, Apart

LEMMA InitAloneInv == Init => AloneInv
  BY InitTypeOK DEF Init, AloneInv, Orderly, OneInFlight, Stand, Valued, Earned, InFlight,
         Busy

\* The access right is what an offer wants when it does not want units.
LEMMA UnitsOrAccess == \A c \in Offers : ForUnits(c) \/ ForAccess(c)
  BY ContributionsAssumption DEF ForUnits, ForAccess

LEMMA NextAloneInv == AloneInv /\ [Next]_vars => AloneInv'
  <1> SUFFICES ASSUME AloneInv, [Next]_vars PROVE AloneInv'
    OBVIOUS
  <1>0. TypeOK /\ TypeOK'
    BY NextTypeOK DEF AloneInv
  <1> SUFFICES ASSUME Apart' PROVE Orderly'
    BY <1>0 DEF AloneInv
  <1>o. Orderly
    BY <1>0, ApartBefore DEF AloneInv
  <1> USE <1>0, <1>o, AskFields, UnitsOrAccess
      DEF Orderly, TypeOK, OneInFlight, Stand, Valued, Earned, InFlight, Busy
  <1>1. ASSUME NEW s \in {"funding", "funded", "delivering", "operating", "closed"},
               SetStatus(s) PROVE Orderly'
    BY <1>1 DEF SetStatus, history
  <1>2. ASSUME NEW c \in Offers, FindProjectOpen(c) PROVE Orderly'
    BY <1>2 DEF FindProjectOpen, rows, history
  <1>3. ASSUME NEW c \in Offers, InsertOffer(c) PROVE Orderly'
    BY <1>3 DEF InsertOffer, history
  <1>4. ASSUME NEW d \in Decisions, RefuseDecision(d) PROVE Orderly'
    BY <1>4 DEF RefuseDecision, rows, history
  <1>5. ASSUME NEW d \in Decisions, LoadOffer(d) PROVE Orderly'
    <2>1. \A q \in met'[d] : req'[q].offer # req'[d].offer
      BY DEF Apart
    <2>2. \A q \in Decisions : InFlight(q) => req[q].offer # req[d].offer
      BY <1>5, <2>1 DEF LoadOffer
    <2>3. /\ UNCHANGED <<status, value, units, rights, issued, req>>
          /\ pc[d] = "idle" /\ status[req[d].offer] = "proposed"
          /\ pc' = [pc EXCEPT ![d] = IF req[d].accept THEN "wallet" ELSE "reject"]
          /\ dirty' = dirty \cup {d}
      BY <1>5 DEF LoadOffer, MayStart, Decidable, rows
    <2>4. OneInFlight'
      BY <2>2, <2>3
    <2>5. Valued' /\ Earned'
      BY <2>3
    <2>6. Stand'
      BY <2>2, <2>3
    <2> QED
      BY <2>4, <2>5, <2>6
  <1>6. ASSUME NEW d \in Decisions, CommitRejection(d) PROVE Orderly'
    BY <1>6 DEF CommitRejection, history
  <1>7. ASSUME NEW d \in Decisions, OpenWallet(d) PROVE Orderly'
    BY SMTT(30), <1>7 DEF OpenWallet, Flush
  <1>8. ASSUME NEW d \in Decisions, FindUnits(d) PROVE Orderly'
    BY <1>8 DEF FindUnits, rows, history
  <1>9. ASSUME NEW d \in Decisions, CreditUnits(d) PROVE Orderly'
    BY <1>9 DEF CreditUnits, Flush
  <1>10. ASSUME NEW d \in Decisions, CreditAccess(d) PROVE Orderly'
    BY <1>10 DEF CreditAccess, Flush
  <1>11. ASSUME NEW d \in Decisions, Crash(d) PROVE Orderly'
    BY <1>11 DEF Crash, rows, history
  <1>12. CASE UNCHANGED vars
    BY <1>12 DEF vars, rows, history
  <1> QED
    BY <1>1, <1>2, <1>3, <1>4, <1>5, <1>6, <1>7, <1>8, <1>9, <1>10, <1>11, <1>12
    DEF Next, ProjectStep, Decide

LEMMA AloneInvHolds == Spec => []AloneInv
  BY InitAloneInv, NextAloneInv, PTL DEF Spec

\* Until decisions on one offer overlap, an offer earns its units and its right
\* at most once and only when it is accepted, whoever dies.
THEOREM EarnsAtMostOnceHolds == Spec => []EarnsAtMostOnce
  <1>1. AloneInv => EarnsAtMostOnce
    BY DEF AloneInv, Orderly, Earned, EarnsAtMostOnce
  <1> QED
    BY <1>1, AloneInvHolds, PTL

\* Until then no decision is taken back or changed.
THEOREM DecisionIsFinalHolds == Spec => DecisionIsFinal
  <1> DEFINE Final == \A c \in Offers : status[c] \in {"accepted", "rejected"}
                                          => status'[c] = status[c] /\ value'[c] = value[c]
  <1>1. ASSUME AloneInv, [Next]_vars, Apart' PROVE Final
    <2>0. TypeOK /\ Stand
      BY <1>1, ApartBefore DEF AloneInv, Orderly
    <2> USE <2>0, AskFields DEF TypeOK, Stand, InFlight, Busy
    <2>1. ASSUME NEW c \in Offers, InsertOffer(c) PROVE Final
      BY <2>1 DEF InsertOffer
    <2>2. ASSUME NEW d \in Decisions, CommitRejection(d) PROVE Final
      BY <2>2 DEF CommitRejection
    <2>3. ASSUME NEW d \in Decisions, OpenWallet(d) PROVE Final
      BY <2>3 DEF OpenWallet, Flush
    <2>4. ASSUME NEW d \in Decisions, CreditUnits(d) PROVE Final
      BY <2>4 DEF CreditUnits, Flush
    <2>5. ASSUME NEW d \in Decisions, CreditAccess(d) PROVE Final
      BY <2>5 DEF CreditAccess, Flush
    <2>6. CASE UNCHANGED <<status, value>>
      BY <2>6
    <2> QED
      BY <1>1, <2>1, <2>2, <2>3, <2>4, <2>5, <2>6
      DEF Next, ProjectStep, Decide, SetStatus, FindProjectOpen, RefuseDecision,
          LoadOffer, FindUnits, Crash, vars, rows
  <1>2. AloneInv /\ [Next]_vars => [Apart' => Final]_vars
    BY <1>1
  <1> QED
    BY <1>2, AloneInvHolds, PTL DEF Spec, DecisionIsFinal

-----------------------------------------------------------------------------
(* Until a request dies, too. *)

Complete(c) == /\ ForUnits(c) => issued[c] = value[c]
               /\ ForAccess(c) => rights[c] = 1

\* Whoever accepted an offer is still at it, or has issued everything.
Attended ==
    \A c \in Offers : status[c] = "accepted" =>
      Complete(c) \/ \E d \in Decisions : InFlight(d) /\ req[d].offer = c

CleanInv == AloneInv /\ (Calm => Attended)

LEMMA InitCleanInv == Init => CleanInv
  BY InitAloneInv DEF Init, CleanInv, Attended

LEMMA NextCleanInv == CleanInv /\ [Next]_vars => CleanInv'
  <1> SUFFICES ASSUME CleanInv, [Next]_vars PROVE CleanInv'
    OBVIOUS
  <1>a. AloneInv /\ AloneInv'
    BY NextAloneInv DEF CleanInv
  <1> SUFFICES ASSUME Calm' PROVE Attended'
    BY <1>a DEF CleanInv
  <1>0. TypeOK /\ TypeOK'
    BY <1>a DEF AloneInv
  <1>b. Attended /\ Stand /\ Earned
    BY <1>0, <1>a, CalmBefore DEF CleanInv, AloneInv, Calm, Orderly
  <1>c. Stand' /\ Earned'
    BY <1>a DEF AloneInv, Calm, Orderly
  <1> USE <1>0, <1>b, <1>c, AskFields, UnitsOrAccess
      DEF Earned, TypeOK, Stand, InFlight, Busy, Attended, Complete
  <1>1. ASSUME NEW s \in {"funding", "funded", "delivering", "operating", "closed"},
               SetStatus(s) PROVE Attended'
    BY <1>1 DEF SetStatus, history
  <1>2. ASSUME NEW c \in Offers, FindProjectOpen(c) PROVE Attended'
    BY <1>2 DEF FindProjectOpen, rows, history
  <1>3. ASSUME NEW c \in Offers, InsertOffer(c) PROVE Attended'
    BY <1>3 DEF InsertOffer, history
  <1>4. ASSUME NEW d \in Decisions, RefuseDecision(d) PROVE Attended'
    BY <1>4 DEF RefuseDecision, MayStart, rows, history
  <1>5. ASSUME NEW d \in Decisions, LoadOffer(d) PROVE Attended'
    BY <1>5 DEF LoadOffer, MayStart, rows, history
  <1>6. ASSUME NEW d \in Decisions, CommitRejection(d) PROVE Attended'
    BY <1>6 DEF CommitRejection, history
  <1>7. ASSUME NEW d \in Decisions, OpenWallet(d) PROVE Attended'
    BY <1>7 DEF OpenWallet, Flush
  <1>8. ASSUME NEW d \in Decisions, FindUnits(d) PROVE Attended'
    BY <1>8 DEF FindUnits, rows, history
  <1>9. ASSUME NEW d \in Decisions, CreditUnits(d) PROVE Attended'
    BY <1>9 DEF CreditUnits, Flush
  <1>10. ASSUME NEW d \in Decisions, CreditAccess(d) PROVE Attended'
    BY <1>10 DEF CreditAccess, Flush
  <1>11. ASSUME NEW d \in Decisions, Crash(d) PROVE Attended'
    <2>1. pc'[d] # "crashed"
      BY DEF Calm
    <2> QED
      BY <1>11, <2>1 DEF Crash
  <1>12. CASE UNCHANGED vars
    BY <1>12 DEF vars, rows, history
  <1> QED
    BY <1>1, <1>2, <1>3, <1>4, <1>5, <1>6, <1>7, <1>8, <1>9, <1>10, <1>11, <1>12
    DEF Next, ProjectStep, Decide

\* Until decisions on an offer overlap or die, an accepted offer has earned all
\* that was agreed once no decision on it is in flight (decide_contribution).
THEOREM AcceptedIsIssuedHolds == Spec => []AcceptedIsIssued
  <1>1. CleanInv => AcceptedIsIssued
    BY DEF CleanInv, Attended, Complete, AcceptedIsIssued
  <1> QED
    BY InitCleanInv, NextCleanInv, <1>1, PTL DEF Spec
=============================================================================
