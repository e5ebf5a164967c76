---------------------------- MODULE LeverageProofs ----------------------------
(***************************************************************************)
(* Theorems about Leverage, for every wallet, every set of requests and    *)
(* every number of crashes.                                                *)
(***************************************************************************)
EXTENDS Leverage, SumTheorems, TLAPS

\* The fields of what a request asks for.
LEMMA AskFields ==
    \A a \in Asks : /\ a.op \in Operations /\ a.holding \in Holdings
                    /\ a.amount \in Nat \ {0}
                    /\ a.op = "issue" => a.holding \in Fungible
  BY LeverageAssumption DEF Asks

\* What is settled has a worth in money.
LEMMA WorthIsNat == \A r \in Requests : req \in [Requests -> Asks] => Worth(r) \in Nat
  <1> SUFFICES ASSUME NEW r \in Requests, req \in [Requests -> Asks]
               PROVE  Worth(r) \in Nat
    OBVIOUS
  <1> DEFINE a == req[r].amount
             u == UnitValue[req[r].holding]
  <1>1. a \in Nat /\ u \in Nat
    BY AskFields, LeverageAssumption
  <1>2. \A x, y \in Nat : x * y \in Nat
    OBVIOUS
  <1>3. a * u \in Nat
    BY <1>1, <1>2
  <1> QED
    BY <1>3 DEF Worth

-----------------------------------------------------------------------------
(* Types. *)

LEMMA InitTypeOK == Init => TypeOK
  BY LeverageAssumption DEF Init, TypeOK, Busy, None

LEMMA NextTypeOK == TypeOK /\ [Next]_vars => TypeOK'
  <1> SUFFICES ASSUME TypeOK, [Next]_vars PROVE TypeOK'
    OBVIOUS
  <1> USE LeverageAssumption, AskFields DEF TypeOK, None, Busy
  <1>1. ASSUME NEW r \in Requests, LoadHolding(r) PROVE TypeOK'
    BY <1>1 DEF LoadHolding, rows, history
  <1>2. ASSUME NEW r \in Requests, Refuse(r) PROVE TypeOK'
    BY <1>2 DEF Refuse, rows, history
  <1>3. ASSUME NEW r \in Requests, CheckPledge(r) PROVE TypeOK'
    BY <1>3 DEF CheckPledge, rows, history
  <1>4. ASSUME NEW r \in Requests, InsertPledge(r) PROVE TypeOK'
    BY <1>4 DEF InsertPledge, history
  <1>5. ASSUME NEW r \in Requests, ReleasePledge(r) PROVE TypeOK'
    BY <1>5 DEF ReleasePledge, history
  <1>6. ASSUME NEW r \in Requests, CheckSettle(r) PROVE TypeOK'
    BY <1>6 DEF CheckSettle, rows, history
  <1>7. ASSUME NEW r \in Requests, FindCash(r) PROVE TypeOK'
    BY <1>7 DEF FindCash, rows, history
  <1>8. ASSUME NEW r \in Requests, MoveValue(r) PROVE TypeOK'
    <2>1. CashAfter(r) \in Nat
      BY WorthIsNat DEF CashAfter, AfterCredit, InRow
    <2> QED
      BY <1>8, <2>1 DEF MoveValue
  <1>9. ASSUME NEW r \in Requests, NoteTransfer(r) PROVE TypeOK'
    BY <1>9 DEF NoteTransfer, history
  <1>10. ASSUME NEW r \in Requests, IssueUnits(r) PROVE TypeOK'
    BY <1>10 DEF IssueUnits
  <1>11. ASSUME NEW r \in Requests, Crash(r) PROVE TypeOK'
    BY <1>11 DEF Crash, rows, history
  <1>12. CASE UNCHANGED vars
    BY <1>12 DEF vars, rows, history
  <1> QED
    BY <1>1, <1>2, <1>3, <1>4, <1>5, <1>6, <1>7, <1>8, <1>9, <1>10, <1>11, <1>12
    DEF Next, Step

\* Every variable keeps its type in every behaviour of the wallet.
THEOREM TypeCorrect == Spec => []TypeOK
  BY InitTypeOK, NextTypeOK, PTL DEF Spec

-----------------------------------------------------------------------------
(* Transfers, whatever overlaps and whoever crashes. *)

\* A settlement past its checks concerns a claim, and one that is about to
\* note its transfer has credited the money.
SettlingInv ==
    /\ TypeOK /\ TransferBacked
    /\ \A r \in Requests :
         /\ pc[r] \in {"find", "move"} => req[r].holding \in Settleable
         /\ pc[r] = "note" => r \in moved

LEMMA InitSettlingInv == Init => SettlingInv
  BY InitTypeOK DEF Init, SettlingInv, TransferBacked

LEMMA NextSettlingInv == SettlingInv /\ [Next]_vars => SettlingInv'
  <1> SUFFICES ASSUME SettlingInv, [Next]_vars PROVE SettlingInv'
    OBVIOUS
  <1>0. TypeOK /\ TypeOK'
    BY NextTypeOK DEF SettlingInv
  <1> USE <1>0 DEF SettlingInv, TransferBacked, TypeOK
  <1>1. ASSUME NEW r \in Requests, LoadHolding(r) PROVE SettlingInv'
    BY <1>1 DEF LoadHolding, rows, history
  <1>2. ASSUME NEW r \in Requests, Refuse(r) PROVE SettlingInv'
    BY <1>2 DEF Refuse, rows, history
  <1>3. ASSUME NEW r \in Requests, CheckPledge(r) PROVE SettlingInv'
    BY <1>3 DEF CheckPledge, rows, history
  <1>4. ASSUME NEW r \in Requests, InsertPledge(r) PROVE SettlingInv'
    BY <1>4 DEF InsertPledge, history
  <1>5. ASSUME NEW r \in Requests, ReleasePledge(r) PROVE SettlingInv'
    BY <1>5 DEF ReleasePledge, history
  <1>6. ASSUME NEW r \in Requests, CheckSettle(r) PROVE SettlingInv'
    BY <1>6 DEF CheckSettle, MaySettle, rows, history
  <1>7. ASSUME NEW r \in Requests, FindCash(r) PROVE SettlingInv'
    BY <1>7 DEF FindCash, rows, history
  <1>8. ASSUME NEW r \in Requests, MoveValue(r) PROVE SettlingInv'
    BY <1>8 DEF MoveValue
  <1>9. ASSUME NEW r \in Requests, NoteTransfer(r) PROVE SettlingInv'
    BY <1>9 DEF NoteTransfer, history
  <1>10. ASSUME NEW r \in Requests, IssueUnits(r) PROVE SettlingInv'
    BY <1>10 DEF IssueUnits
  <1>11. ASSUME NEW r \in Requests, Crash(r) PROVE SettlingInv'
    BY <1>11 DEF Crash, rows, history
  <1>12. CASE UNCHANGED vars
    BY <1>12 DEF vars, rows, history
  <1> QED
    BY <1>1, <1>2, <1>3, <1>4, <1>5, <1>6, <1>7, <1>8, <1>9, <1>10, <1>11, <1>12
    DEF Next, Step

\* A transfer is recorded only for money that was credited, and no access
\* right becomes money (settle_down), however the requests overlap or die.
THEOREM TransferBackedHolds == Spec => []TransferBacked
  <1>1. SettlingInv => TransferBacked
    BY DEF SettlingInv
  <1> QED
    BY InitSettlingInv, NextSettlingInv, <1>1, PTL DEF Spec

-----------------------------------------------------------------------------
(* Pledges, until two requests for one holding overlap. *)

\* One request in flight for a holding: no other can make its view stale.
OneInFlight ==
    \A q, r \in Requests :
      InFlight(q) /\ InFlight(r) /\ req[q].holding = req[r].holding => q = r

FreshView ==
    \A r \in Requests : pc[r] \in {"loaded", "insert", "find", "move"}
                          => seenUnits[r] = units[req[r].holding]

\* What was checked before a pledge or a settlement is still so when it is
\* written.
StillFree ==
    \A r \in Requests : pc[r] \in {"insert", "find", "move"}
      => pledged[req[r].holding] + req[r].amount <= units[req[r].holding]

Covered == \A h \in Holdings : pledged[h] <= units[h]

Orderly == OneInFlight /\ FreshView /\ StillFree /\ Covered

PledgeInv == TypeOK /\ (Apart => Orderly)

\* Requests that have met have met for good.
LEMMA ApartBefore == TypeOK /\ [Next]_vars /\ Apart' => Apart
  <1> SUFFICES ASSUME TypeOK, [Next]_vars, Apart', NEW r \in Requests, NEW q \in met[r]
               PROVE  req[q].holding # req[r].holding
    BY DEF Apart
  <1>1. req' = req
    BY DEF Next, Step, LoadHolding, Refuse, CheckPledge, InsertPledge, ReleasePledge,
       CheckSettle, FindCash, MoveValue, NoteTransfer, IssueUnits, Crash, vars
  <1>2. met[r] \subseteq met'[r]
    BY DEF TypeOK, Next, Step, LoadHolding, Refuse, CheckPledge, InsertPledge, ReleasePledge,
       CheckSettle, FindCash, MoveValue, NoteTransfer, IssueUnits, Crash, vars, history
  <1> QED
    BY <1>1, <1>2 DEF Apart

LEMMA InitPledgeInv == Init => PledgeInv
  BY InitTypeOK, LeverageAssumption
  DEF Init, PledgeInv, Orderly, OneInFlight, FreshView, StillFree, Covered, InFlight, Busy

LEMMA NextPledgeInv == PledgeInv /\ [Next]_vars => PledgeInv'
  <1> SUFFICES ASSUME PledgeInv, [Next]_vars PROVE PledgeInv'
    OBVIOUS
  <1>0. TypeOK /\ TypeOK'
    BY NextTypeOK DEF PledgeInv
  <1> SUFFICES ASSUME Apart' PROVE Orderly'
    BY <1>0 DEF PledgeInv
  <1>o. Orderly
    BY <1>0, ApartBefore DEF PledgeInv
  <1> USE <1>0, <1>o, AskFields DEF TypeOK, Busy, InFlight,
      Orderly, OneInFlight, FreshView, StillFree, Covered
  <1>1. ASSUME NEW r \in Requests, LoadHolding(r) PROVE Orderly'
    <2>1. \A q \in met'[r] : req'[q].holding # req'[r].holding
      BY DEF Apart
    <2>2. \A q \in Requests : InFlight(q) => req[q].holding # req[r].holding
      BY <1>1, <2>1 DEF LoadHolding
    <2> QED
      BY <1>1, <2>2 DEF LoadHolding, rows
  <1>2. ASSUME NEW r \in Requests, Refuse(r) PROVE Orderly'
    BY <1>2 DEF Refuse, rows, history
  <1>3. ASSUME NEW r \in Requests, CheckPledge(r) PROVE Orderly'
    BY <1>3 DEF CheckPledge, MayPledge, Free, rows, history
  <1>4. ASSUME NEW r \in Requests, InsertPledge(r) PROVE Orderly'
    BY <1>4 DEF InsertPledge, history
  <1>5. ASSUME NEW r \in Requests, ReleasePledge(r) PROVE Orderly'
    BY <1>5 DEF ReleasePledge, history
  <1>6. ASSUME NEW r \in Requests, CheckSettle(r) PROVE Orderly'
    BY <1>6 DEF CheckSettle, MaySettle, Free, rows, history
  <1>7. ASSUME NEW r \in Requests, FindCash(r) PROVE Orderly'
    BY <1>7 DEF FindCash, rows, history
  <1>8. ASSUME NEW r \in Requests, MoveValue(r) PROVE Orderly'
    BY <1>8 DEF MoveValue
  <1>9. ASSUME NEW r \in Requests, NoteTransfer(r) PROVE Orderly'
    BY <1>9 DEF NoteTransfer, history
  <1>10. ASSUME NEW r \in Requests, IssueUnits(r) PROVE Orderly'
    BY <1>10 DEF IssueUnits
  <1>11. ASSUME NEW r \in Requests, Crash(r) PROVE Orderly'
    BY <1>11 DEF Crash, rows, history
  <1>12. CASE UNCHANGED vars
    BY <1>12 DEF vars, rows, history
  <1> QED
    BY <1>1, <1>2, <1>3, <1>4, <1>5, <1>6, <1>7, <1>8, <1>9, <1>10, <1>11, <1>12
    DEF Next, Step

\* Until two requests for one holding overlap, a holding backs no more pledges
\* than it has value, whoever dies (create_pledge, release_pledge,
\* settle_down).
THEOREM CoveredWhenApartHolds == Spec => []CoveredWhenApart
  <1>1. PledgeInv => CoveredWhenApart
    BY DEF PledgeInv, Orderly, Covered, CoveredWhenApart
  <1> QED
    BY InitPledgeInv, NextPledgeInv, <1>1, PTL DEF Spec

-----------------------------------------------------------------------------
(* The pledged sum, whatever overlaps and whoever crashes. *)

AmountOf == [r \in Requests |-> req[r].amount]

ActiveOn(h) == {r \in Requests : pledge[r] = "active" /\ req[r].holding = h}

\* What create_pledge, settle_down and the wallet page read as SUM(amount).
SummedOn(h) ==
    IsFiniteSet(ActiveOn(h)) /\ pledged[h] = SumFunctionOnSet(AmountOf, ActiveOn(h))

\* A request inserts one pledge, as its last step.
OnePledge == \A r \in Requests : pledge[r] # "none" => pc[r] = "done"

SummedInv == TypeOK /\ OnePledge /\ \A h \in Holdings : SummedOn(h)

LEMMA InitSummedInv == Init => SummedInv
  <1> SUFFICES ASSUME Init PROVE SummedInv
    OBVIOUS
  <1>1. TypeOK /\ OnePledge
    BY InitTypeOK DEF Init, OnePledge
  <1>2. ASSUME NEW h \in Holdings PROVE SummedOn(h)
    <2>1. ActiveOn(h) = {}
      BY DEF Init, ActiveOn
    <2>2. pledged[h] = 0
      BY DEF Init
    <2> QED
      BY <2>1, <2>2, SumOfNothing, FS_EmptySet DEF SummedOn
  <1> QED
    BY <1>1, <1>2 DEF SummedInv

\* The sum moves with the one pledge that a step adds or releases.
LEMMA NextSummedInv == SummedInv /\ [Next]_vars => SummedInv'
  <1> SUFFICES ASSUME SummedInv, [Next]_vars PROVE SummedInv'
    OBVIOUS
  <1>0. TypeOK /\ TypeOK' /\ req' = req
    BY NextTypeOK DEF SummedInv, Next, Step, LoadHolding, Refuse, CheckPledge, InsertPledge,
       ReleasePledge, CheckSettle, FindCash, MoveValue, NoteTransfer, IssueUnits, Crash, vars
  <1>1. AmountOf' = AmountOf
    BY <1>0 DEF AmountOf
  <1>2. \A S \in SUBSET Requests : IsWhole(AmountOf, S)
    BY <1>0, AskFields DEF IsWhole, AmountOf, TypeOK
  <1>3. ASSUME NEW r \in Requests, InsertPledge(r) PROVE SummedInv'
    <2>1. OnePledge'
      BY <1>0, <1>3 DEF SummedInv, OnePledge, InsertPledge, TypeOK
    <2>2. ASSUME NEW h \in Holdings PROVE SummedOn(h)'
      <3>1. SummedOn(h) /\ r \notin ActiveOn(h)
        BY <1>3 DEF SummedInv, OnePledge, InsertPledge, ActiveOn
      <3>2. CASE h = req[r].holding
        <4>1. ActiveOn(h)' = ActiveOn(h) \cup {r}
          BY <1>0, <1>3, <3>2 DEF InsertPledge, ActiveOn, TypeOK
        <4>2. pledged'[h] = pledged[h] + req[r].amount
          BY <1>0, <1>3, <3>2 DEF InsertPledge, TypeOK
        <4>3. IsWhole(AmountOf, ActiveOn(h) \cup {r})
          BY <1>2 DEF ActiveOn
        <4>4. SumFunctionOnSet(AmountOf, ActiveOn(h) \cup {r})
                = AmountOf[r] + SumFunctionOnSet(AmountOf, ActiveOn(h))
          BY <3>1, <4>3, SumPutIn DEF SummedOn
        <4>5. IsFiniteSet(ActiveOn(h) \cup {r})
          BY <3>1, FS_AddElement DEF SummedOn
        <4>6. AmountOf[r] = req[r].amount /\ AmountOf[r] \in Int /\ pledged[h] \in Int
          BY <1>0, AskFields DEF AmountOf, TypeOK
        <4> QED
          BY <1>1, <3>1, <4>1, <4>2, <4>4, <4>5, <4>6 DEF SummedOn
      <3>3. CASE h # req[r].holding
        <4>1. ActiveOn(h)' = ActiveOn(h) /\ pledged'[h] = pledged[h]
          BY <1>0, <1>3, <3>3 DEF InsertPledge, ActiveOn, TypeOK
        <4> QED
          BY <1>1, <3>1, <4>1 DEF SummedOn
      <3> QED
        BY <3>2, <3>3
    <2> QED
      BY <1>0, <2>1, <2>2 DEF SummedInv
  <1>4. ASSUME NEW r \in Requests, ReleasePledge(r) PROVE SummedInv'
    <2>1. OnePledge'
      BY <1>0, <1>4 DEF SummedInv, OnePledge, ReleasePledge, TypeOK
    <2>2. ASSUME NEW h \in Holdings PROVE SummedOn(h)'
      <3>1. SummedOn(h)
        BY DEF SummedInv
      <3>2. CASE h = req[r].holding
        <4>1. ActiveOn(h)' = ActiveOn(h) \ {r} /\ r \in ActiveOn(h)
          BY <1>0, <1>4, <3>2 DEF ReleasePledge, ActiveOn, TypeOK
        <4>2. pledged'[h] = pledged[h] - req[r].amount
          BY <1>0, <1>4, <3>2 DEF ReleasePledge, TypeOK
        <4>3. IsWhole(AmountOf, ActiveOn(h)) /\ IsWhole(AmountOf, ActiveOn(h) \ {r})
          BY <1>2 DEF ActiveOn
        <4>4. SumFunctionOnSet(AmountOf, ActiveOn(h))
                = AmountOf[r] + SumFunctionOnSet(AmountOf, ActiveOn(h) \ {r})
          BY <3>1, <4>1, <4>3, SumTakeOut DEF SummedOn
        <4>5. IsFiniteSet(ActiveOn(h) \ {r})
          BY <3>1, FS_RemoveElement DEF SummedOn
        <4>6. AmountOf[r] = req[r].amount /\ AmountOf[r] \in Int
          BY <1>0, AskFields DEF AmountOf, TypeOK
        <4>7. SumFunctionOnSet(AmountOf, ActiveOn(h) \ {r}) \in Int
          BY <4>3, <4>5, SumIsWhole
        <4> QED
          BY <1>1, <3>1, <4>1, <4>2, <4>4, <4>5, <4>6, <4>7 DEF SummedOn
      <3>3. CASE h # req[r].holding
        <4>1. ActiveOn(h)' = ActiveOn(h) /\ pledged'[h] = pledged[h]
          BY <1>0, <1>4, <3>3 DEF ReleasePledge, ActiveOn, TypeOK
        <4> QED
          BY <1>1, <3>1, <4>1 DEF SummedOn
      <3> QED
        BY <3>2, <3>3
    <2> QED
      BY <1>0, <2>1, <2>2 DEF SummedInv
  <1>5. ASSUME pledge' = pledge, pledged' = pledged,
               \A r \in Requests : pc[r] = "done" => pc'[r] = "done"
        PROVE  SummedInv'
    <2>1. OnePledge'
      BY <1>5 DEF SummedInv, OnePledge
    <2>2. ASSUME NEW h \in Holdings PROVE SummedOn(h)'
      <3>1. ActiveOn(h)' = ActiveOn(h)
        BY <1>0, <1>5 DEF ActiveOn
      <3> QED
        BY <1>1, <1>5, <3>1 DEF SummedOn, SummedInv
    <2> QED
      BY <1>0, <2>1, <2>2 DEF SummedInv
  <1>6. ASSUME NEW r \in Requests, Step(r), ~InsertPledge(r), ~ReleasePledge(r)
        PROVE  SummedInv'
    <2>1. pledge' = pledge /\ pledged' = pledged
      BY <1>6 DEF Step, LoadHolding, Refuse, CheckPledge, CheckSettle, FindCash, MoveValue,
         NoteTransfer, IssueUnits, Crash, rows
    <2>2. pc[r] # "done" /\ \E s : pc' = [pc EXCEPT ![r] = s]
      BY <1>6 DEF Step, LoadHolding, Refuse, CheckPledge, CheckSettle, FindCash, MoveValue,
         NoteTransfer, IssueUnits, Crash, InFlight, Busy
    <2> QED
      BY <1>0, <1>5, <2>1, <2>2 DEF TypeOK
  <1>7. CASE UNCHANGED vars
    BY <1>5, <1>7 DEF vars, rows
  <1> QED
    BY <1>3, <1>4, <1>6, <1>7 DEF Next

\* pledged is the sum over the active pledges that the code asks the database
\* for each time, overlapping pledges and releases included.
THEOREM PledgedIsTheSum == Spec => [](\A h \in Holdings : SummedOn(h))
  <1>1. SummedInv => \A h \in Holdings : SummedOn(h)
    BY DEF SummedInv
  <1> QED
    BY InitSummedInv, NextSummedInv, <1>1, PTL DEF Spec

\* So a holding backs at least each active pledge on it.
LEMMA PledgeWithinPledged ==
  ASSUME SummedInv, NEW r \in Requests, pledge[r] = "active"
  PROVE  req[r].amount <= pledged[req[r].holding]
  <1> DEFINE h == req[r].holding
  <1>1. TypeOK /\ h \in Holdings /\ r \in ActiveOn(h)
    BY AskFields DEF SummedInv, TypeOK, ActiveOn
  <1>2. \A q \in ActiveOn(h) : AmountOf[q] \in Nat
    BY <1>1, AskFields DEF TypeOK, ActiveOn, AmountOf
  <1>3. SummedOn(h)
    BY <1>1 DEF SummedInv
  <1>4. AmountOf[r] <= SumFunctionOnSet(AmountOf, ActiveOn(h))
    BY <1>1, <1>2, <1>3, PartWithinSum DEF SummedOn
  <1> QED
    BY <1>3, <1>4 DEF SummedOn, AmountOf

-----------------------------------------------------------------------------
(* Value and money, until two requests overlap. *)

OneAtAll == \A q, r \in Requests : InFlight(q) /\ InFlight(r) => q = r

\* The cash is still what credit() found.
FreshCash == \A r \in Requests : pc[r] = "move" => seenCash[r] = cash

\* What a holding no longer has of what was issued to it, in money.
Gone == [h \in Holdings |-> (issued[h] - units[h]) * UnitValue[h]]

Balanced == InRow(cash) = SumFunctionOnSet(Gone, Holdings)

LoneInv == PledgeInv /\ (Alone => OneAtAll /\ FreshCash /\ Balanced)

\* Requests that are alone are apart, and were alone before.
LEMMA AloneBefore == TypeOK /\ [Next]_vars /\ Alone' => Alone
  <1> SUFFICES ASSUME TypeOK, [Next]_vars, Alone', NEW r \in Requests PROVE met[r] = {}
    BY DEF Alone
  <1>1. met[r] \subseteq met'[r]
    BY DEF TypeOK, Next, Step, LoadHolding, Refuse, CheckPledge, InsertPledge, ReleasePledge,
       CheckSettle, FindCash, MoveValue, NoteTransfer, IssueUnits, Crash, vars, history
  <1> QED
    BY <1>1 DEF Alone

LEMMA AloneIsApart == Alone => Apart
  BY DEF Alone, Apart

\* Whole numbers for all that is gone.
LEMMA GoneIsWhole ==
  ASSUME NEW i \in [Holdings -> Nat], NEW v \in [Holdings -> Int]
  PROVE  IsWhole([h \in Holdings |-> (i[h] - v[h]) * UnitValue[h]], Holdings)
  <1> SUFFICES ASSUME NEW h \in Holdings PROVE (i[h] - v[h]) * UnitValue[h] \in Int
    BY DEF IsWhole
  <1>1. i[h] - v[h] \in Int /\ UnitValue[h] \in Int
    BY LeverageAssumption
  <1>2. \A j, k \in Int : j * k \in Int
    OBVIOUS
  <1> QED
    BY <1>1, <1>2

LEMMA InitLoneInv == Init => LoneInv
  <1> SUFFICES ASSUME Init PROVE LoneInv
    OBVIOUS
  <1>1. OneAtAll /\ FreshCash
    BY DEF Init, OneAtAll, FreshCash, InFlight, Busy
  <1>2. \A h \in Holdings : Gone[h] = 0
    <2> SUFFICES ASSUME NEW h \in Holdings PROVE Gone[h] = 0
      OBVIOUS
    <2>1. issued[h] - units[h] = 0 /\ UnitValue[h] \in Int
      BY LeverageAssumption DEF Init
    <2>2. \A j \in Int : 0 * j = 0
      OBVIOUS
    <2> QED
      BY <2>1, <2>2 DEF Gone
  <1>3. Balanced
    BY <1>2, LeverageAssumption, SumOfZeros DEF Balanced, Init, InRow
  <1> QED
    BY <1>1, <1>3, InitPledgeInv DEF LoneInv

\* A settlement turns what it takes into its worth.
LEMMA MoveBalances ==
  ASSUME TypeOK, TypeOK', Balanced, NEW r \in Requests, MoveValue(r),
         seenUnits[r] = units[req[r].holding], seenCash[r] = cash
  PROVE  Balanced'
  <1> DEFINE h == req[r].holding
             a == req[r].amount
             u == UnitValue[h]
  <1>1. h \in Holdings /\ a \in Int /\ u \in Int /\ units[h] \in Int /\ issued[h] \in Int
    BY AskFields, LeverageAssumption DEF TypeOK
  <1>2. units'[h] = units[h] - a /\ issued' = issued
    BY <1>1 DEF MoveValue, TypeOK
  <1>3. \A g \in Holdings \ {h} : Gone[g] = Gone'[g]
    BY <1>1 DEF MoveValue, TypeOK, Gone
  <1>4. Gone'[h] = Gone[h] + a * u
    <2>1. Gone[h] = (issued[h] - units[h]) * u /\ Gone'[h] = (issued'[h] - units'[h]) * u
      BY <1>1 DEF Gone
    <2>2. issued'[h] - units'[h] = (issued[h] - units[h]) + a
      BY <1>1, <1>2
    <2>3. \A i, j, k \in Int : (i + j) * k = i * k + j * k
      OBVIOUS
    <2>4. issued[h] - units[h] \in Int
      BY <1>1
    <2> QED
      BY <1>1, <2>1, <2>2, <2>3, <2>4
  <1>5. SumFunctionOnSet(Gone', Holdings)
          = SumFunctionOnSet(Gone, Holdings) + (Gone'[h] - Gone[h])
    <2>1. IsWhole(Gone, Holdings) /\ IsWhole(Gone', Holdings)
      BY GoneIsWhole DEF Gone, TypeOK
    <2> QED
      BY <1>1, <1>3, <2>1, LeverageAssumption, SumOfChanged
  <1>6. InRow(cash') = a * u + InRow(cash)
    <2>1. a * u \in Nat
      BY WorthIsNat DEF Worth, TypeOK
    <2>2. cash' = a * u + InRow(cash)
      BY DEF MoveValue, CashAfter, AfterCredit, Worth
    <2> QED
      BY <2>1, <2>2 DEF InRow, None, TypeOK
  <1>7. Gone[h] \in Int /\ a * u \in Int /\ InRow(cash) \in Int
    <2>1. IsWhole(Gone, Holdings)
      BY GoneIsWhole DEF Gone, TypeOK
    <2>2. a * u \in Int
      BY WorthIsNat DEF Worth, TypeOK
    <2>3. InRow(cash) \in Int
      BY DEF InRow, TypeOK
    <2> QED
      BY <1>1, <2>1, <2>2, <2>3 DEF IsWhole
  <1>8. InRow(cash') = SumFunctionOnSet(Gone', Holdings)
    <2> HIDE DEF h, a, u
    <2> QED
      BY <1>4, <1>5, <1>6, <1>7 DEF Balanced
  <1> QED
    BY <1>8 DEF Balanced

LEMMA IssueBalances ==
  ASSUME TypeOK, Balanced, NEW r \in Requests, IssueUnits(r),
         seenUnits[r] = units[req[r].holding]
  PROVE  Balanced'
  <1>1. req[r].holding \in Holdings /\ req[r].amount \in Int
    BY AskFields DEF TypeOK
  <1>2. \A h \in Holdings : issued'[h] - units'[h] = issued[h] - units[h]
    BY <1>1 DEF IssueUnits, TypeOK
  <1>3. Gone' = Gone
    BY <1>2 DEF Gone
  <1> QED
    BY <1>3 DEF Balanced, IssueUnits

LEMMA NextLoneInv == LoneInv /\ [Next]_vars => LoneInv'
  <1> SUFFICES ASSUME LoneInv, [Next]_vars PROVE LoneInv'
    OBVIOUS
  <1>0. PledgeInv /\ PledgeInv' /\ TypeOK /\ TypeOK'
    BY NextPledgeInv DEF LoneInv, PledgeInv
  <1> SUFFICES ASSUME Alone' PROVE (OneAtAll /\ FreshCash /\ Balanced)'
    BY <1>0 DEF LoneInv
  <1>a. Alone
    BY <1>0, AloneBefore
  <1>o. OneAtAll /\ FreshCash /\ Balanced
    BY <1>a DEF LoneInv
  <1>f. FreshView
    BY <1>0, <1>a, AloneIsApart DEF PledgeInv, Orderly
  <1>1. ASSUME NEW r \in Requests, LoadHolding(r) PROVE (OneAtAll /\ FreshCash)'
    <2>1. met'[r] = {}
      BY DEF Alone
    <2>2. \A q \in Requests : ~InFlight(q)
      BY <1>0, <1>1, <2>1 DEF LoadHolding, TypeOK
    <2> QED
      BY <1>0, <1>1, <1>o, <2>2 DEF LoadHolding, OneAtAll, FreshCash, InFlight, Busy, TypeOK, rows
  <1>2. ASSUME NEW r \in Requests, Step(r), ~LoadHolding(r) PROVE (OneAtAll /\ FreshCash)'
    <2> USE <1>0, <1>2, <1>o DEF OneAtAll, FreshCash, InFlight, Busy, TypeOK
    <2>1. CASE Refuse(r)
      BY <2>1 DEF Refuse, rows
    <2>2. CASE CheckPledge(r)
      BY <2>2 DEF CheckPledge, rows
    <2>3. CASE InsertPledge(r)
      BY <2>3 DEF InsertPledge
    <2>4. CASE ReleasePledge(r)
      BY <2>4 DEF ReleasePledge
    <2>5. CASE CheckSettle(r)
      BY <2>5 DEF CheckSettle, rows
    <2>6. CASE FindCash(r)
      BY <2>6 DEF FindCash, rows
    <2>7. CASE MoveValue(r)
      BY <2>7 DEF MoveValue
    <2>8. CASE NoteTransfer(r)
      BY <2>8 DEF NoteTransfer
    <2>9. CASE IssueUnits(r)
      BY <2>9 DEF IssueUnits
    <2>10. CASE Crash(r)
      BY <2>10 DEF Crash, rows
    <2> QED
      BY <2>1, <2>2, <2>3, <2>4, <2>5, <2>6, <2>7, <2>8, <2>9, <2>10 DEF Step
  <1>3. ASSUME NEW r \in Requests, MoveValue(r) PROVE Balanced'
    BY <1>0, <1>3, <1>o, <1>f, MoveBalances DEF FreshView, FreshCash, MoveValue
  <1>4. ASSUME NEW r \in Requests, IssueUnits(r) PROVE Balanced'
    BY <1>0, <1>4, <1>o, <1>f, IssueBalances DEF FreshView, IssueUnits
  <1>5. ASSUME units' = units, issued' = issued, cash' = cash PROVE Balanced'
    BY <1>5, <1>o DEF Balanced, Gone
  <1>6. ASSUME NEW r \in Requests, Step(r), ~MoveValue(r), ~IssueUnits(r) PROVE Balanced'
    BY <1>5, <1>6 DEF Step, LoadHolding, Refuse, CheckPledge, InsertPledge, ReleasePledge,
       CheckSettle, FindCash, NoteTransfer, Crash, rows, history
  <1>7. CASE UNCHANGED vars
    <2>1. (OneAtAll /\ FreshCash)'
      BY <1>7, <1>o DEF vars, rows, OneAtAll, FreshCash, InFlight
    <2> QED
      BY <1>5, <1>7, <2>1 DEF vars, rows, history
  <1> QED
    BY <1>1, <1>2, <1>3, <1>4, <1>6, <1>7 DEF Next

\* Until two requests overlap the money is what was taken out of the holdings,
\* whoever dies between the commits (settle_down, credit).
THEOREM ValueKeptHolds == Spec => []ValueKept
  <1>1. LoneInv => ValueKept
    BY DEF LoneInv, Balanced, Gone, ValueKept
  <1> QED
    BY InitLoneInv, NextLoneInv, <1>1, PTL DEF Spec

-----------------------------------------------------------------------------
(* The escrow, until two requests overlap. *)

LEMMA InitEscrow == Init => Vault!Init
  BY LeverageAssumption DEF Init, Vault!Init, InRow, None

\* Every step that writes value is a step of the escrow.  What was checked
\* when the holding was loaded is still so, the cash is the one found, and a
\* release never frees more than is pledged.
LEMMA NextEscrow ==
  LoneInv /\ SummedInv /\ [Next]_vars => [Alone' => [Vault!Next]_(Vault!vars)]_vars
  <1> SUFFICES ASSUME LoneInv, SummedInv, Next, Alone'
               PROVE  Vault!Next \/ UNCHANGED Vault!vars
    BY DEF Vault!vars
  <1>n. [Next]_vars
    OBVIOUS
  <1>0. TypeOK /\ TypeOK' /\ PledgeInv
    BY <1>n, NextTypeOK DEF LoneInv, PledgeInv
  <1>o. OneAtAll /\ FreshCash /\ FreshView /\ StillFree
    <2>1. Alone
      BY <1>n, <1>0, AloneBefore
    <2> QED
      BY <1>0, <2>1, AloneIsApart DEF LoneInv, PledgeInv, Orderly
  <1> DEFINE free == [h \in Holdings |-> units[h] - pledged[h]]
  <1>f. \A h \in Holdings : units[h] \in Int /\ pledged[h] \in Int
    BY <1>0 DEF TypeOK
  <1>u. ASSUME UNCHANGED <<units, pledged, cash>> PROVE UNCHANGED Vault!vars
    BY <1>u DEF Vault!vars
  <1>1. ASSUME NEW r \in Requests, InsertPledge(r) PROVE Vault!Next
    <2>1. PICK h \in Holdings, a \in Amounts : h = req[r].holding /\ a = req[r].amount
      BY <1>0 DEF TypeOK, Asks
    <2>2. a \in Int /\ a <= free[h]
      BY <1>1, <1>o, <1>f, <2>1, LeverageAssumption DEF InsertPledge, StillFree
    <2>3. free' = [free EXCEPT ![h] = @ - a]
      BY <1>1, <1>0, <1>f, <2>1, <2>2 DEF InsertPledge, TypeOK
    <2>4. pledged' = [pledged EXCEPT ![h] = @ + a] /\ UNCHANGED InRow(cash)
      BY <1>1, <2>1 DEF InsertPledge
    <2>5. Vault!Lock(h, a)
      BY <2>2, <2>3, <2>4 DEF Vault!Lock
    <2> QED
      BY <2>5 DEF Vault!Next
  <1>2. ASSUME NEW r \in Requests, ReleasePledge(r) PROVE Vault!Next
    <2>1. PICK h \in Holdings, a \in Amounts : h = req[r].holding /\ a = req[r].amount
      BY <1>0 DEF TypeOK, Asks
    <2>2. a \in Int /\ a <= pledged[h]
      BY <1>2, <2>1, PledgeWithinPledged, LeverageAssumption DEF ReleasePledge
    <2>3. free' = [free EXCEPT ![h] = @ + a]
      BY <1>2, <1>0, <1>f, <2>1, <2>2 DEF ReleasePledge, TypeOK
    <2>4. pledged' = [pledged EXCEPT ![h] = @ - a] /\ UNCHANGED InRow(cash)
      BY <1>2, <2>1 DEF ReleasePledge
    <2>5. Vault!Unlock(h, a)
      BY <2>2, <2>3, <2>4 DEF Vault!Unlock
    <2> QED
      BY <2>5 DEF Vault!Next
  <1>3. ASSUME NEW r \in Requests, MoveValue(r) PROVE Vault!Next
    <2>1. PICK h \in Holdings, a \in Amounts : h = req[r].holding /\ a = req[r].amount
      BY <1>0 DEF TypeOK, Asks
    <2>2. a \in Int /\ a <= free[h] /\ seenUnits[r] = units[h]
      BY <1>3, <1>o, <1>f, <2>1, LeverageAssumption DEF MoveValue, StillFree, FreshView
    <2>3. free' = [free EXCEPT ![h] = @ - a]
      BY <1>3, <1>0, <1>f, <2>1, <2>2 DEF MoveValue, TypeOK
    <2>4. InRow(cash)' = InRow(cash) + a * UnitValue[h]
      <3>1. Worth(r) = a * UnitValue[h] /\ Worth(r) \in Nat
        BY <1>0, <2>1, WorthIsNat DEF Worth, TypeOK
      <3>2. cash' = Worth(r) + InRow(cash) /\ InRow(cash) \in Nat
        BY <1>3, <1>0, <1>o DEF MoveValue, CashAfter, AfterCredit, FreshCash, InRow, TypeOK
      <3>3. InRow(cash') = Worth(r) + InRow(cash)
        BY <3>1, <3>2 DEF InRow, None
      <3>4. InRow(cash)' = InRow(cash) + Worth(r)
        BY <3>1, <3>2, <3>3
      <3> QED
        BY <3>1, <3>4
    <2>5. pledged' = pledged
      BY <1>3 DEF MoveValue
    <2>6. Vault!CashIn(h, a)
      BY <2>2, <2>3, <2>4, <2>5 DEF Vault!CashIn
    <2> QED
      BY <2>6 DEF Vault!Next
  <1>4. ASSUME NEW r \in Requests, IssueUnits(r) PROVE Vault!Next
    <2>1. PICK h \in Holdings, a \in Amounts : h = req[r].holding /\ a = req[r].amount
      BY <1>0 DEF TypeOK, Asks
    <2>2. a \in Int /\ seenUnits[r] = units[h]
      BY <1>4, <1>o, <2>1, LeverageAssumption DEF IssueUnits, FreshView
    <2>3. free' = [free EXCEPT ![h] = @ + a]
      BY <1>4, <1>0, <1>f, <2>1, <2>2 DEF IssueUnits, TypeOK
    <2>4. pledged' = pledged /\ InRow(cash)' = InRow(cash)
      BY <1>4 DEF IssueUnits
    <2>5. Vault!Issue(h, a)
      BY <2>3, <2>4 DEF Vault!Issue
    <2> QED
      BY <2>5 DEF Vault!Next
  <1>5. ASSUME NEW r \in Requests, Step(r),
               ~InsertPledge(r), ~ReleasePledge(r), ~MoveValue(r), ~IssueUnits(r)
        PROVE  UNCHANGED Vault!vars
    BY <1>5, <1>u DEF Step, LoadHolding, Refuse, CheckPledge, CheckSettle, FindCash,
       NoteTransfer, Crash, rows
  <1> QED
    BY <1>1, <1>2, <1>3, <1>4, <1>5 DEF Next

\* Pledging and settling implement the escrow as long as requests do not
\* overlap, whoever dies.
THEOREM LeverageImplementsEscrow == Spec => EscrowKept
  <1>1. Spec => [](LoneInv /\ SummedInv)
    BY InitLoneInv, NextLoneInv, InitSummedInv, NextSummedInv, PTL DEF Spec
  <1> QED
    BY InitEscrow, NextEscrow, <1>1, PTL DEF Spec, EscrowKept
=============================================================================
