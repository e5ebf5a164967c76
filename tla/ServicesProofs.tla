---------------------------- MODULE ServicesProofs ----------------------------
(***************************************************************************)
(* Theorems about the parts of the service that stand by themselves: the   *)
(* register of agents and the records they derive, the ledger of a         *)
(* person's entries, an allocation request and the deletion of an account. *)
(* They hold for every number of agents, stewards, sign-ins, records,      *)
(* requests, entries, attesters, disputes, reviewers and appeals, and      *)
(* every limit.  The last theorems put these parts and those of            *)
(* ValueProofs side by side: in MCServices each keeps what it kept alone.  *)
(***************************************************************************)
EXTENDS MCServices, ValueProofs, FiniteSetTheorems, TLAPS

-----------------------------------------------------------------------------
(* The register: types. *)

LEMMA RegistryInitType == RegistryInit => RegistryTypeOK
BY DEF RegistryInit, RegistryTypeOK

LEMMA RegistryNextType == RegistryTypeOK /\ [RegistryNext]_registryVars => RegistryTypeOK'
<1> SUFFICES ASSUME RegistryTypeOK, [RegistryNext]_registryVars PROVE RegistryTypeOK'
  OBVIOUS
<1> USE DEF RegistryTypeOK
<1>1. ASSUME NEW a \in Agents, CheckCanRegister(a) PROVE RegistryTypeOK'
  BY <1>1 DEF CheckCanRegister
<1>2. ASSUME NEW a \in Agents, Register(a) PROVE RegistryTypeOK'
  BY <1>2 DEF Register, registryHistory
<1>3. ASSUME NEW a \in Agents, NEW s \in {"active", "suspended", "revoked"}, Update(a, s)
      PROVE  RegistryTypeOK'
  BY <1>3 DEF Update
<1>4. ASSUME NEW c \in Challenges, GetChallenge(c) PROVE RegistryTypeOK'
  BY <1>4 DEF GetChallenge, registryHistory
<1>5. ASSUME NEW x \in SignIns, NEW c \in Claims, FindChallenge(x, c) PROVE RegistryTypeOK'
  BY <1>5 DEF FindChallenge, Meeting
<1>6. ASSUME NEW x \in SignIns, SpendChallenge(x) PROVE RegistryTypeOK'
  BY <1>6 DEF SpendChallenge, registryHistory
<1>7. ASSUME NEW x \in SignIns, CheckStatus(x) PROVE RegistryTypeOK'
  BY <1>7 DEF CheckStatus, registryHistory
<1>8. ASSUME NEW x \in SignIns, OpenSession(x) \/ EndSession(x) PROVE RegistryTypeOK'
  BY <1>8 DEF OpenSession, EndSession, registryHistory
<1>9. CASE UNCHANGED registryVars
  BY <1>9 DEF registryVars, registryHistory
<1> QED
  BY <1>1, <1>2, <1>3, <1>4, <1>5, <1>6, <1>7, <1>8, <1>9 DEF RegistryNext

\* Every variable of the register keeps its type.
THEOREM RegistryTypeCorrect == RegistrySpec => []RegistryTypeOK
BY RegistryInitType, RegistryNextType, PTL DEF RegistrySpec

-----------------------------------------------------------------------------
(* The register: the limit per steward. *)

\* Agents of s that the limit speaks of.
Limited(s) == Answerable(s) \ (rivals \cup revived)

\* A registration that no other of the steward's overlaps still has room, and an agent
\* that is being registered is not there yet.
RoomIsKept ==
    /\ \A a \in registering : agent[a] = "none"
    /\ \A a \in registering \ rivals :
         /\ Cardinality(Limited(StewardOf[a])) < MaxAgents
         /\ registering \cap Fellows(a) = {a}

LimitInv == RegistryTypeOK /\ RoomIsKept /\ AgentsWithinLimit

LEMMA LimitedFinite == ASSUME NEW s PROVE IsFiniteSet(Limited(s)) /\ Cardinality(Limited(s)) \in Nat
<1>1. Limited(s) \in SUBSET Agents
  BY DEF Limited, Answerable
<1> QED
  BY <1>1, RegistryAssumption, FS_Subset, FS_CardinalityType

\* The limit in terms of Limited, now and next.
LEMMA LimitIsLimited ==
    /\ AgentsWithinLimit <=> \A s \in Stewards : Cardinality(Limited(s)) <= MaxAgents
    /\ AgentsWithinLimit' <=> \A s \in Stewards : Cardinality(Limited(s)') <= MaxAgents
BY DEF AgentsWithinLimit, Limited

\* Where nobody becomes answerable for more, room and limit stay.
LEMMA LimitShrinks ==
    ASSUME RegistryTypeOK, LimitInv, \A s \in Stewards : Limited(s)' \subseteq Limited(s),
           registering' \ rivals' \subseteq registering \ rivals,
           \A a \in registering' : agent'[a] = "none",
           registering' \subseteq registering
    PROVE  RoomIsKept' /\ AgentsWithinLimit'
<1>1. \A s \in Stewards :
        /\ Cardinality(Limited(s)) \in Nat /\ Cardinality(Limited(s)') \in Nat
        /\ Cardinality(Limited(s)') <= Cardinality(Limited(s))
  <2> SUFFICES ASSUME NEW s \in Stewards
               PROVE  /\ Cardinality(Limited(s)) \in Nat /\ Cardinality(Limited(s)') \in Nat
                      /\ Cardinality(Limited(s)') <= Cardinality(Limited(s))
    OBVIOUS
  <2>1. Limited(s)' \in SUBSET Limited(s) /\ IsFiniteSet(Limited(s))
    BY LimitedFinite
  <2>2. IsFiniteSet(Limited(s)') /\ Cardinality(Limited(s)') <= Cardinality(Limited(s))
    BY <2>1, FS_Subset
  <2> QED
    BY <2>1, <2>2, FS_CardinalityType
<1>2. AgentsWithinLimit'
  BY <1>1, RegistryAssumption, LimitIsLimited DEF LimitInv
<1>3. \A a \in registering' \ rivals' : registering' \cap Fellows(a) = {a}
  BY DEF LimitInv, RoomIsKept, Fellows, RegistryTypeOK
<1>4. ASSUME NEW a \in registering' \ rivals'
      PROVE  Cardinality(Limited(StewardOf[a])') < MaxAgents
  <2>1. StewardOf[a] \in Stewards /\ MaxAgents \in Nat
    BY <1>4, RegistryAssumption DEF LimitInv, RegistryTypeOK
  <2>2. Cardinality(Limited(StewardOf[a])) < MaxAgents
    BY DEF LimitInv, RoomIsKept
  <2> QED
    BY <1>1, <2>1, <2>2
<1> QED
  BY <1>2, <1>3, <1>4 DEF RoomIsKept

LEMMA LimitKept == LimitInv /\ [RegistryNext]_registryVars => LimitInv'
<1> SUFFICES ASSUME LimitInv, [RegistryNext]_registryVars PROVE LimitInv'
  OBVIOUS
<1>a. RegistryTypeOK /\ RegistryTypeOK'
  BY RegistryNextType DEF LimitInv
<1>1. ASSUME NEW a \in Agents, CheckCanRegister(a) PROVE LimitInv'
  <2>1. /\ agent[a] = "none" /\ a \notin registering /\ registering' = registering \cup {a}
        /\ rivals \subseteq rivals' /\ UNCHANGED <<agent, revived>>
        /\ Cardinality(Answerable(StewardOf[a])) < MaxAgents
        /\ registering \cap Fellows(a) # {} =>
             a \in rivals' /\ registering \cap Fellows(a) \subseteq rivals'
    BY <1>1 DEF CheckCanRegister
  <2>2. \A s : Limited(s)' \subseteq Limited(s)
    BY <2>1 DEF Limited, Answerable
  <2>3. \A s \in Stewards :
          /\ Cardinality(Limited(s)) \in Nat /\ Cardinality(Limited(s)') \in Nat
          /\ Cardinality(Limited(s)') <= Cardinality(Limited(s))
    BY <2>2, LimitedFinite, FS_Subset, FS_CardinalityType
  <2>4. AgentsWithinLimit'
    BY <2>3, RegistryAssumption, LimitIsLimited DEF LimitInv
  <2>5. ASSUME NEW b \in registering' \ rivals'
        PROVE  /\ Cardinality(Limited(StewardOf[b])') < MaxAgents
               /\ registering' \cap Fellows(b) = {b}
    <3>1. StewardOf[b] \in Stewards /\ MaxAgents \in Nat /\ StewardOf[a] \in Stewards
      BY <1>a, RegistryAssumption DEF RegistryTypeOK
    <3>2. CASE b = a
      <4>1. registering \cap Fellows(a) = {}
        BY <2>1, <3>2
      <4>2. Answerable(StewardOf[a]) \in SUBSET Agents
        BY DEF Answerable
      <4>3. IsFiniteSet(Answerable(StewardOf[a])) /\ Cardinality(Answerable(StewardOf[a])) \in Nat
        BY <4>2, RegistryAssumption, FS_Subset, FS_CardinalityType
      <4>4. Limited(StewardOf[a]) \in SUBSET Answerable(StewardOf[a])
        BY DEF Limited
      <4>5. Cardinality(Limited(StewardOf[a])) <= Cardinality(Answerable(StewardOf[a]))
        BY <4>3, <4>4, FS_Subset
      <4>6. Cardinality(Limited(StewardOf[a])') < MaxAgents
        BY <2>1, <2>3, <3>1, <4>3, <4>5
      <4>7. registering' \cap Fellows(a) = {a}
        BY <2>1, <4>1 DEF Fellows
      <4> QED
        BY <3>2, <4>6, <4>7
    <3>3. CASE b # a
      <4>1. b \in registering \ rivals
        BY <2>1, <3>3
      <4>2. /\ Cardinality(Limited(StewardOf[b])) < MaxAgents
            /\ registering \cap Fellows(b) = {b}
        BY <4>1 DEF LimitInv, RoomIsKept
      <4>3. a \notin Fellows(b)
        BY <1>a, <2>1, <4>1 DEF Fellows, RegistryTypeOK
      <4> QED
        BY <2>1, <2>3, <3>1, <4>2, <4>3
    <3> QED
      BY <3>2, <3>3
  <2> QED
    BY <1>a, <2>1, <2>4, <2>5 DEF LimitInv, RoomIsKept
<1>2. ASSUME NEW a \in Agents, Register(a) PROVE LimitInv'
  <2>1. /\ a \in registering /\ registering' = registering \ {a} /\ agent[a] = "none"
        /\ agent' = [agent EXCEPT ![a] = "active"] /\ UNCHANGED <<rivals, revived>>
    BY <1>2 DEF Register, registryHistory, LimitInv, RoomIsKept
  <2>2. \A b \in registering' : agent'[b] = "none"
    BY <1>a, <2>1 DEF LimitInv, RoomIsKept, RegistryTypeOK
  <2>3. ASSUME NEW s, ~(s = StewardOf[a] /\ a \notin rivals)
        PROVE  Limited(s)' \subseteq Limited(s)
    BY <1>a, <2>1, <2>3 DEF Limited, Answerable, RegistryTypeOK
  <2>4. CASE a \in rivals
    BY <1>a, <2>1, <2>2, <2>3, <2>4, LimitShrinks DEF LimitInv
  <2>5. CASE a \notin rivals
    <3> DEFINE s == StewardOf[a]
    <3>1. s \in Stewards /\ MaxAgents \in Nat
      BY RegistryAssumption
    <3>2. Cardinality(Limited(s)) < MaxAgents /\ registering \cap Fellows(a) = {a}
      BY <2>1, <2>5 DEF LimitInv, RoomIsKept
    <3>3. Limited(s)' \subseteq Limited(s) \cup {a}
      BY <1>a, <2>1 DEF Limited, Answerable, RegistryTypeOK
    <3>4. /\ IsFiniteSet(Limited(s) \cup {a})
          /\ Cardinality(Limited(s) \cup {a}) <= MaxAgents
      <4>1. IsFiniteSet(Limited(s)) /\ Cardinality(Limited(s)) \in Nat
        BY LimitedFinite
      <4>2. /\ IsFiniteSet(Limited(s) \cup {a})
            /\ \/ Cardinality(Limited(s) \cup {a}) = Cardinality(Limited(s))
               \/ Cardinality(Limited(s) \cup {a}) = Cardinality(Limited(s)) + 1
        BY <4>1, FS_AddElement
      <4> QED
        BY <3>1, <3>2, <4>1, <4>2
    <3>5. Cardinality(Limited(s)') <= Cardinality(Limited(s) \cup {a})
      BY <3>3, <3>4, FS_Subset
    <3>6. /\ Cardinality(Limited(s)') \in Nat /\ Cardinality(Limited(s) \cup {a}) \in Nat
      BY <3>3, <3>4, FS_Subset, FS_CardinalityType
    <3>7. Cardinality(Limited(s)') <= MaxAgents
      BY <3>1, <3>4, <3>5, <3>6
    <3>8. ASSUME NEW t \in Stewards, t # s
          PROVE  /\ Cardinality(Limited(t)) \in Nat /\ Cardinality(Limited(t)') \in Nat
                 /\ Cardinality(Limited(t)') <= Cardinality(Limited(t))
      BY <2>3, <3>8, LimitedFinite, FS_Subset, FS_CardinalityType
    <3>9. AgentsWithinLimit'
      BY <3>1, <3>7, <3>8, LimitIsLimited DEF LimitInv
    <3>10. ASSUME NEW b \in registering' \ rivals'
           PROVE  /\ Cardinality(Limited(StewardOf[b])') < MaxAgents
                  /\ registering' \cap Fellows(b) = {b}
      <4>1. b \in registering \ rivals /\ b # a /\ b \in Agents /\ StewardOf[b] \in Stewards
        BY <1>a, <2>1, RegistryAssumption DEF RegistryTypeOK
      <4>2. StewardOf[b] # s
        BY <2>1, <3>2, <4>1 DEF Fellows
      <4>3. /\ Cardinality(Limited(StewardOf[b])) < MaxAgents
            /\ registering \cap Fellows(b) = {b}
        BY <4>1 DEF LimitInv, RoomIsKept
      <4> QED
        BY <2>1, <3>1, <3>8, <4>1, <4>2, <4>3
    <3> QED
      BY <1>a, <2>2, <3>9, <3>10 DEF LimitInv, RoomIsKept
  <2> QED
    BY <2>4, <2>5
<1>3. ASSUME NEW a \in Agents, NEW s \in {"active", "suspended", "revoked"}, Update(a, s)
      PROVE  LimitInv'
  <2>1. \A t \in Stewards : Limited(t)' \subseteq Limited(t)
    BY <1>3, <1>a DEF Update, Limited, Answerable, RegistryTypeOK
  <2>2. \A b \in registering' : agent'[b] = "none"
    BY <1>3, <1>a DEF Update, LimitInv, RoomIsKept, RegistryTypeOK
  <2> QED
    BY <1>3, <1>a, <2>1, <2>2, LimitShrinks DEF Update, LimitInv
<1>4. CASE UNCHANGED <<agent, registering, rivals, revived>>
  BY <1>4, <1>a DEF LimitInv, RoomIsKept, AgentsWithinLimit, Limited, Answerable
<1> QED
  BY <1>1, <1>2, <1>3, <1>4
  DEF RegistryNext, registryVars, registryHistory, GetChallenge, FindChallenge, SpendChallenge,
      CheckStatus, OpenSession, EndSession

\* Above a steward's limit are only agents whose registrations overlapped or that were
\* set back from revoked, however many register, in whatever order.
THEOREM AgentsWithinLimitHolds == RegistrySpec => []AgentsWithinLimit
<1>1. RegistryInit => LimitInv
  <2> SUFFICES ASSUME RegistryInit PROVE LimitInv
    OBVIOUS
  <2>1. \A s : Answerable(s) \ (rivals \cup revived) = {}
    BY DEF RegistryInit, Answerable
  <2> QED
    BY <2>1, RegistryInitType, RegistryAssumption, FS_EmptySet
    DEF RegistryInit, LimitInv, RoomIsKept, AgentsWithinLimit
<1>2. LimitInv => AgentsWithinLimit
  BY DEF LimitInv
<1> QED
  BY <1>1, <1>2, LimitKept, PTL DEF RegistrySpec

-----------------------------------------------------------------------------
(* The register: sessions. *)

\* A sign-in has presented something from its first step on, with a challenge that was
\* handed out; once past that step, the challenge is not there any more.
ClaimsStand ==
    \A x \in SignIns : signin[x] # "idle" =>
      /\ claim[x] \in Claims /\ claim[x].challenge \in offered
      /\ signin[x] # "found" => claim[x].challenge \notin challenges

\* An agent that passed the check of its status is active as long as that is not changed.
CheckedIsActive ==
    \A x \in SignIns :
      /\ signin[x] \in {"checked", "live"} /\ claim[x].as = "agent" /\ x \notin outrun
      => agent[claim[x].did] = "active"

\* Two sign-ins with one challenge have met.
SharersMet ==
    \A x, y \in SignIns :
      x # y /\ signin[x] # "idle" /\ signin[y] # "idle" /\ claim[x].challenge = claim[y].challenge
      => {x, y} \subseteq shared

SessionInv == RegistryTypeOK /\ ClaimsStand /\ CheckedIsActive /\ SharersMet

LEMMA SessionKept == SessionInv /\ [RegistryNext]_registryVars => SessionInv'
<1> SUFFICES ASSUME SessionInv, [RegistryNext]_registryVars PROVE SessionInv'
  OBVIOUS
<1>a. RegistryTypeOK /\ RegistryTypeOK'
  BY RegistryNextType DEF SessionInv
<1>1. ASSUME NEW a \in Agents, Register(a) PROVE SessionInv'
  <2>1. \A b \in Agents : agent[b] = "active" => agent'[b] = "active"
    BY <1>1, <1>a DEF Register, RegistryTypeOK
  <2>2. UNCHANGED <<offered, challenges, signin, claim, outrun, shared>>
    BY <1>1 DEF Register, registryHistory
  <2> QED
    BY <1>a, <2>1, <2>2 DEF SessionInv, ClaimsStand, CheckedIsActive, SharersMet, Claims
<1>2. ASSUME NEW a \in Agents, NEW s \in {"active", "suspended", "revoked"}, Update(a, s)
      PROVE  SessionInv'
  <2>1. /\ UNCHANGED <<offered, challenges, claim, shared>> /\ outrun \subseteq outrun'
        /\ \A b \in Agents : agent'[b] = IF b = a THEN s ELSE agent[b]
        /\ \A x \in SignIns :
             /\ signin'[x] = "idle" <=> signin[x] = "idle"
             /\ signin'[x] = "found" <=> signin[x] = "found"
             /\ signin'[x] \in {"checked", "live"} => signin'[x] = signin[x]
             /\ signin[x] = "checked" /\ claim[x].did = a => x \in outrun'
             /\ signin'[x] = "live" /\ claim[x].did = a => s = "active"
    BY <1>2, <1>a DEF Update, RegistryTypeOK
  <2>2. CheckedIsActive'
    BY <1>a, <2>1 DEF SessionInv, ClaimsStand, CheckedIsActive, Claims
  <2> QED
    BY <1>a, <2>1, <2>2 DEF SessionInv, ClaimsStand, SharersMet
<1>3. ASSUME NEW c \in Challenges, GetChallenge(c) PROVE SessionInv'
  <2>1. /\ c \notin offered
        /\ offered' = offered \cup {c} /\ challenges' = challenges \cup {c}
        /\ UNCHANGED <<agent, signin, claim, outrun, shared>>
    BY <1>3 DEF GetChallenge, registryHistory
  <2> QED
    BY <1>a, <2>1 DEF SessionInv, ClaimsStand, CheckedIsActive, SharersMet
<1>4. ASSUME NEW x \in SignIns, NEW c \in Claims, FindChallenge(x, c) PROVE SessionInv'
  <2>1. /\ signin[x] = "idle" /\ c.challenge \in challenges /\ c.challenge \in offered
        /\ \A y \in SignIns : /\ signin'[y] = IF y = x THEN "found" ELSE signin[y]
                              /\ claim'[y] = IF y = x THEN c ELSE claim[y]
        /\ UNCHANGED <<agent, offered, challenges, outrun>>
        /\ shared \subseteq shared'
        /\ \A y \in SignIns : signin[y] = "found" /\ claim[y].challenge = c.challenge =>
             {x, y} \subseteq shared'
    BY <1>4, <1>a DEF FindChallenge, Meeting, RegistryTypeOK
  <2>2. ClaimsStand'
    BY <2>1 DEF SessionInv, ClaimsStand
  <2>3. CheckedIsActive'
    BY <2>1 DEF SessionInv, CheckedIsActive
  <2>4. ASSUME NEW y \in SignIns, y # x, signin[y] # "idle", claim[y].challenge = c.challenge
        PROVE  {x, y} \subseteq shared'
    BY <2>1, <2>4 DEF SessionInv, ClaimsStand
  <2>5. SharersMet'
    <3> SUFFICES ASSUME NEW y \in SignIns, NEW z \in SignIns, y # z, signin'[y] # "idle",
                        signin'[z] # "idle", claim'[y].challenge = claim'[z].challenge
                 PROVE  {y, z} \subseteq shared'
      BY DEF SharersMet
    <3>1. CASE y # x /\ z # x
      BY <2>1, <3>1 DEF SessionInv, SharersMet
    <3>2. CASE y = x \/ z = x
      BY <2>1, <2>4, <3>2
    <3> QED
      BY <3>1, <3>2
  <2> QED
    BY <1>a, <2>2, <2>3, <2>5 DEF SessionInv
<1>5. ASSUME NEW x \in SignIns, SpendChallenge(x) PROVE SessionInv'
  <2>1. /\ signin[x] = "found" /\ challenges' = challenges \ {claim[x].challenge}
        /\ \A y \in SignIns : y # x => signin'[y] = signin[y]
        /\ signin'[x] \in {"spent", "refused"}
        /\ UNCHANGED <<agent, offered, claim, outrun, shared>>
    BY <1>5, <1>a DEF SpendChallenge, registryHistory, RegistryTypeOK
  <2>2. ClaimsStand'
    BY <2>1 DEF SessionInv, ClaimsStand
  <2>3. CheckedIsActive' /\ SharersMet'
    BY <2>1 DEF SessionInv, CheckedIsActive, SharersMet
  <2> QED
    BY <1>a, <2>2, <2>3 DEF SessionInv
<1>6. ASSUME NEW x \in SignIns, CheckStatus(x) PROVE SessionInv'
  <2>1. /\ signin[x] = "spent" /\ \A y \in SignIns : y # x => signin'[y] = signin[y]
        /\ signin'[x] \in {"checked", "refused"}
        /\ signin'[x] = "checked" /\ claim[x].as # "person" => agent[claim[x].did] = "active"
        /\ UNCHANGED <<agent, offered, challenges, claim, outrun, shared>>
    BY <1>6, <1>a DEF CheckStatus, registryHistory, RegistryTypeOK
  <2> QED
    BY <1>a, <2>1 DEF SessionInv, ClaimsStand, CheckedIsActive, SharersMet
<1>7. ASSUME NEW x \in SignIns, OpenSession(x) \/ EndSession(x) PROVE SessionInv'
  <2>1. /\ signin[x] \in {"checked", "live"}
        /\ \A y \in SignIns : y # x => signin'[y] = signin[y]
        /\ signin'[x] \in {"live", "ended"}
        /\ UNCHANGED <<agent, offered, challenges, claim, outrun, shared>>
    BY <1>7, <1>a DEF OpenSession, EndSession, registryHistory, RegistryTypeOK
  <2> QED
    BY <1>a, <2>1 DEF SessionInv, ClaimsStand, CheckedIsActive, SharersMet
<1>8. CASE UNCHANGED <<agent, offered, challenges, signin, claim, outrun, shared>>
  BY <1>8, <1>a DEF SessionInv, ClaimsStand, CheckedIsActive, SharersMet
<1> QED
  BY <1>1, <1>2, <1>3, <1>4, <1>5, <1>6, <1>7, <1>8
  DEF RegistryNext, registryVars, registryHistory, CheckCanRegister

\* The limit, that a revoked agent has no session but one that outran the revocation, and
\* that a challenge opens one session unless two requests had found it.
THEOREM AccessIsAnsweredForHolds == RegistrySpec => []AccessIsAnsweredFor
<1>1. RegistryInit => SessionInv
  BY RegistryInitType
  DEF RegistryInit, SessionInv, ClaimsStand, CheckedIsActive, SharersMet
<1>2. SessionInv => RevokedHasNoSession /\ ChallengeOpensOneSession
  BY DEF SessionInv, CheckedIsActive, SharersMet, RevokedHasNoSession, ChallengeOpensOneSession
<1>3. AgentsWithinLimit /\ RevokedHasNoSession /\ ChallengeOpensOneSession => AccessIsAnsweredFor
  BY DEF AccessIsAnsweredFor
<1> QED
  BY <1>1, <1>2, <1>3, SessionKept, AgentsWithinLimitHolds, PTL DEF RegistrySpec

-----------------------------------------------------------------------------
(* Derived records: types. *)

LEMMA RecordsNextType == RecordsTypeOK /\ [RecordsNext]_recordsVars => RecordsTypeOK'
<1> SUFFICES ASSUME RecordsTypeOK, [RecordsNext]_recordsVars PROVE RecordsTypeOK'
  OBVIOUS
<1> USE DEF RecordsTypeOK, recordsHistory
<1>1. ASSUME NEW a \in Writers, NEW n \in Limits, SetLimit(a, n) PROVE RecordsTypeOK'
  BY <1>1 DEF SetLimit
<1>2. ASSUME NEW r \in Records, InsertRecord(r) PROVE RecordsTypeOK'
  BY <1>2 DEF InsertRecord
<1>3. ASSUME NEW r \in Records, NEW a \in Writers, CheckWrite(r, a) PROVE RecordsTypeOK'
  BY <1>3 DEF CheckWrite
<1>4. ASSUME NEW q \in Jobs, NEW op \in {"review", "recompute"}, NEW r \in Records,
             record[r] # "none", Load(q, op, r)
      PROVE  RecordsTypeOK'
  <2>1. [op |-> op, of |-> r, record |-> record[r], check |-> check[r]] \in Loaded
    BY <1>4 DEF Loaded
  <2> QED
    BY <1>4, <2>1 DEF Load
<1>5. ASSUME NEW q \in Jobs, NEW v \in {"confirmed", "rejected"}, CommitReview(q, v)
      PROVE  RecordsTypeOK'
  BY <1>5 DEF CommitReview, Loaded
<1>6. ASSUME NEW q \in Jobs, NEW v \in {"matched", "mismatched"}, CommitRecompute(q, v)
      PROVE  RecordsTypeOK'
  <2>1. job[q] \in Loaded
    BY <1>6 DEF CommitRecompute
  <2> QED
    BY <1>6, <2>1 DEF CommitRecompute, Written, Loaded
<1>7. CASE UNCHANGED recordsVars
  BY <1>7 DEF recordsVars
<1> QED
  BY <1>1, <1>2, <1>3, <1>4, <1>5, <1>6, <1>7 DEF RecordsNext, LoadReview, LoadRecompute

LEMMA RecordsInitType == RecordsInit => RecordsTypeOK
BY RecordsAssumption DEF RecordsInit, RecordsTypeOK

\* Every variable of the derived records keeps its type.
THEOREM RecordsTypeCorrect == RecordsSpec => []RecordsTypeOK
BY RecordsInitType, RecordsNextType, PTL DEF RecordsSpec

-----------------------------------------------------------------------------
(* Derived records: contradicted ones. *)

JobOn(q, r)     == job[q] # NoJob /\ job[q].of = r
ReviewOn(q, r)  == JobOn(q, r) /\ job[q].op = "review"

\* Of a record that no review contested, a review in flight is the only job, and it
\* has not been decided on since; a recomputation that found it superseded finds it so
\* when it commits.
JobsKnow ==
    \A r \in Records \ contested :
      /\ \A p \in Jobs : ReviewOn(p, r) =>
           record[r] = "unreviewed" /\ \A q \in Jobs : JobOn(q, r) => q = p
      /\ \A q \in Jobs :
           JobOn(q, r) /\ job[q].op = "recompute" /\ job[q].record = "superseded"
           => record[r] = "superseded"

\* What is being written is not there yet, what a request has loaded is.
RowsInOrder ==
    /\ \A r \in writing : record[r] = "none" /\ author[r] \in Writers
    /\ \A q \in Jobs : job[q] # NoJob => record[job[q].of] # "none"

MismatchInv == RecordsTypeOK /\ RowsInOrder /\ JobsKnow /\ MismatchStands

LEMMA MismatchKept == MismatchInv /\ [RecordsNext]_recordsVars => MismatchInv'
<1> SUFFICES ASSUME MismatchInv, [RecordsNext]_recordsVars PROVE MismatchInv'
  OBVIOUS
<1>a. RecordsTypeOK /\ RecordsTypeOK'
  BY RecordsNextType DEF MismatchInv
<1> USE DEF recordsHistory
<1>1. ASSUME NEW a \in Writers, NEW n \in Limits, SetLimit(a, n) PROVE MismatchInv'
  BY <1>1, <1>a DEF SetLimit, MismatchInv, RowsInOrder, JobsKnow, JobOn, ReviewOn, MismatchStands
<1>2. ASSUME NEW r \in Records, InsertRecord(r) PROVE MismatchInv'
  BY <1>2, <1>a DEF InsertRecord, MismatchInv, RowsInOrder, JobsKnow, JobOn, ReviewOn,
     MismatchStands, RecordsTypeOK
<1>3. ASSUME NEW r \in Records, NEW a \in Writers, CheckWrite(r, a) PROVE MismatchInv'
  BY <1>3, <1>a DEF CheckWrite, MismatchInv, RowsInOrder, JobsKnow, JobOn, ReviewOn,
     MismatchStands, RecordsTypeOK
<1>4. ASSUME NEW q \in Jobs, NEW op \in {"review", "recompute"}, NEW r \in Records,
             record[r] # "none", op = "review" => record[r] = "unreviewed", Load(q, op, r)
      PROVE  MismatchInv'
  <2> DEFINE loaded == [op |-> op, of |-> r, record |-> record[r], check |-> check[r]]
  <2>1. /\ job[q] = NoJob /\ contested \subseteq contested'
        /\ (\E p \in Jobs : JobOn(p, r) /\ "review" \in {op, job[p].op}) => r \in contested'
        /\ UNCHANGED <<record, author, writing, failed>>
    BY <1>4 DEF Load, JobOn
  <2>2. /\ \A p \in Jobs : job'[p] = IF p = q THEN loaded ELSE job[p]
        /\ loaded.op = op /\ loaded.of = r /\ loaded.record = record[r]
    BY <1>4, <1>a DEF Load, RecordsTypeOK
  <2> HIDE DEF loaded
  <2>3. \A p \in Jobs, x \in Records : JobOn(p, x)' => JobOn(p, x) \/ (p = q /\ x = r)
    BY <2>2 DEF JobOn
  <2>4. ASSUME NEW x \in Records \ contested', NEW p \in Jobs, ReviewOn(p, x)'
        PROVE  record'[x] = "unreviewed" /\ \A u \in Jobs : JobOn(u, x)' => u = p
    <3>1. CASE p = q
      BY <1>4, <2>1, <2>2, <2>3, <2>4, <3>1 DEF JobOn, ReviewOn
    <3>2. CASE p # q
      <4>1. ReviewOn(p, x)
        BY <2>2, <2>4, <3>2 DEF JobOn, ReviewOn
      <4>2. x # r
        BY <2>1, <4>1 DEF ReviewOn
      <4> QED
        BY <2>1, <2>3, <4>1, <4>2 DEF MismatchInv, JobsKnow
    <3> QED
      BY <3>1, <3>2
  <2>5. ASSUME NEW x \in Records \ contested', NEW p \in Jobs, JobOn(p, x)',
               job'[p].op = "recompute", job'[p].record = "superseded"
        PROVE  record'[x] = "superseded"
    BY <2>1, <2>2, <2>5 DEF MismatchInv, JobsKnow, JobOn
  <2>6. RowsInOrder'
    BY <1>4, <2>1, <2>2 DEF MismatchInv, RowsInOrder
  <2>7. JobsKnow'
    BY <2>4, <2>5 DEF JobsKnow
  <2>8. MismatchStands'
    BY <2>1 DEF MismatchInv, MismatchStands
  <2> QED
    BY <1>a, <2>6, <2>7, <2>8 DEF MismatchInv
<1>5. ASSUME NEW q \in Jobs, NEW v \in {"confirmed", "rejected"}, CommitReview(q, v)
      PROVE  MismatchInv'
  <2> DEFINE r == job[q].of
  <2>1. /\ ReviewOn(q, r) /\ r \in Records
        /\ \A x \in Records : record'[x] = IF x = r THEN v ELSE record[x]
        /\ \A p \in Jobs : job'[p] = IF p = q THEN NoJob ELSE job[p]
        /\ UNCHANGED <<author, writing, contested, failed>>
    BY <1>5, <1>a DEF CommitReview, JobOn, ReviewOn, RecordsTypeOK, Loaded
  <2> HIDE DEF r
  <2>2. RowsInOrder'
    BY <1>a, <2>1 DEF MismatchInv, RowsInOrder, RecordsTypeOK, Loaded, ReviewOn, JobOn
  <2>4. \A x \in Records, p \in Jobs : JobOn(p, x)' => JobOn(p, x) /\ p # q /\ job'[p] = job[p]
    BY <2>1 DEF JobOn
  <2>5. JobsKnow'
    BY <2>1, <2>4 DEF MismatchInv, JobsKnow, ReviewOn
  <2>6. MismatchStands'
    BY <1>a, <2>1 DEF MismatchInv, JobsKnow, MismatchStands, RecordsTypeOK
  <2> QED
    BY <1>a, <2>2, <2>5, <2>6 DEF MismatchInv
<1>6. ASSUME NEW q \in Jobs, NEW v \in {"matched", "mismatched"}, CommitRecompute(q, v)
      PROVE  MismatchInv'
  <2> DEFINE r == job[q].of
  <2>1. /\ JobOn(q, r) /\ job[q].op = "recompute" /\ r \in Records
        /\ \A x \in Records : record'[x] =
             IF x = r /\ v = "mismatched" /\ job[q].record # "superseded" THEN "superseded"
                                                                        ELSE record[x]
        /\ \A p \in Jobs : job'[p] = IF p = q THEN NoJob ELSE job[p]
        /\ failed' = IF v = "mismatched" THEN failed \cup {r} ELSE failed
        /\ UNCHANGED <<author, writing, contested>>
    BY <1>6, <1>a DEF CommitRecompute, Written, JobOn, RecordsTypeOK, Loaded
  <2> HIDE DEF r
  <2>2. RowsInOrder'
    BY <1>a, <2>1 DEF MismatchInv, RowsInOrder, RecordsTypeOK, Loaded, JobOn
  <2>3. \A p \in Jobs : ReviewOn(p, r) => r \in contested
    BY <2>1 DEF MismatchInv, JobsKnow, ReviewOn
  <2>4. \A x \in Records, p \in Jobs : JobOn(p, x)' => JobOn(p, x) /\ p # q /\ job'[p] = job[p]
    BY <2>1 DEF JobOn
  <2>5. JobsKnow'
    BY <2>1, <2>3, <2>4 DEF MismatchInv, JobsKnow, ReviewOn
  <2>6. MismatchStands'
    BY <1>a, <2>1 DEF MismatchInv, JobsKnow, MismatchStands, RecordsTypeOK
  <2> QED
    BY <1>a, <2>2, <2>5, <2>6 DEF MismatchInv
<1>7. CASE UNCHANGED recordsVars
  BY <1>7, <1>a DEF recordsVars, MismatchInv, RowsInOrder, JobsKnow, JobOn, ReviewOn,
     MismatchStands
<1> QED
  BY <1>1, <1>2, <1>3, <1>4, <1>5, <1>6, <1>7 DEF RecordsNext, LoadReview, LoadRecompute

-----------------------------------------------------------------------------
(* Derived records: the steward's queue. *)

\* The part of the queue that the ceiling speaks of.
Orderly(s) == StewardQueue(s) \ crowded

\* A write that no other of the steward's overlaps still has room.
QueueRoom ==
    \A r \in writing \ crowded :
      /\ Cardinality(Orderly(Steward(r))) < MaxPerSteward
      /\ \A w \in writing : Steward(w) = Steward(r) => w = r

QueueInv == MismatchInv /\ QueueRoom /\ QueueOverrunIsOverlap

LEMMA OrderlyFinite == ASSUME NEW s PROVE IsFiniteSet(Orderly(s)) /\ Cardinality(Orderly(s)) \in Nat
<1>1. Orderly(s) \in SUBSET Records
  BY DEF Orderly, StewardQueue
<1> QED
  BY <1>1, RecordsAssumption, FS_Subset, FS_CardinalityType

LEMMA QueueIsOrderly ==
    /\ QueueOverrunIsOverlap <=>
         \A s \in {AnswersFor[a] : a \in Writers} : Cardinality(Orderly(s)) <= MaxPerSteward
    /\ QueueOverrunIsOverlap' <=>
         \A s \in {AnswersFor[a] : a \in Writers} : Cardinality(Orderly(s)') <= MaxPerSteward
BY DEF QueueOverrunIsOverlap, Orderly

LEMMA FewerOrderly ==
    ASSUME NEW s, Orderly(s)' \subseteq Orderly(s)
    PROVE  /\ Cardinality(Orderly(s)) \in Nat /\ Cardinality(Orderly(s)') \in Nat
           /\ Cardinality(Orderly(s)') <= Cardinality(Orderly(s))
BY OrderlyFinite, FS_Subset, FS_CardinalityType

LEMMA QueueKept == QueueInv /\ [RecordsNext]_recordsVars => QueueInv'
<1> SUFFICES ASSUME QueueInv, [RecordsNext]_recordsVars PROVE QueueInv'
  OBVIOUS
<1>a. MismatchInv /\ MismatchInv' /\ RecordsTypeOK /\ RecordsTypeOK' /\ MaxPerSteward \in Nat
  BY MismatchKept, RecordsAssumption DEF QueueInv, MismatchInv
<1>b. ASSUME \A s : Orderly(s)' \subseteq Orderly(s), UNCHANGED <<author, writing, crowded>>
      PROVE  QueueInv'
  <2>1. QueueOverrunIsOverlap'
    BY <1>a, <1>b, FewerOrderly, QueueIsOrderly DEF QueueInv
  <2>2. QueueRoom'
    <3> SUFFICES ASSUME NEW r \in writing \ crowded
                 PROVE  /\ Cardinality(Orderly(Steward(r))') < MaxPerSteward
                        /\ \A w \in writing : Steward(w)' = Steward(r)' => w = r
      BY <1>b DEF QueueRoom
    <3>1. \A w : Steward(w)' = Steward(w)
      BY <1>b DEF Steward
    <3>2. Orderly(Steward(r))' \subseteq Orderly(Steward(r))
      BY <1>b, <3>1 DEF Orderly, StewardQueue
    <3> QED
      BY <1>a, <3>1, <3>2, OrderlyFinite, FS_Subset, FS_CardinalityType DEF QueueInv, QueueRoom
  <2> QED
    BY <1>a, <2>1, <2>2 DEF QueueInv
<1> USE DEF recordsHistory
<1>1. ASSUME NEW a \in Writers, NEW n \in Limits, SetLimit(a, n) PROVE QueueInv'
  BY <1>1, <1>b DEF SetLimit, Orderly, StewardQueue, Steward
<1>2. ASSUME NEW r \in Records, InsertRecord(r) PROVE QueueInv'
  <2>1. /\ r \in writing /\ writing' = writing \ {r} /\ record[r] = "none"
        /\ record' = [record EXCEPT ![r] = "unreviewed"] /\ UNCHANGED <<author, crowded>>
        /\ Steward(r) \in {AnswersFor[a] : a \in Writers}
    BY <1>2, <1>a DEF InsertRecord, MismatchInv, RowsInOrder, Steward
  <2> PICK t \in {AnswersFor[a] : a \in Writers} : t = Steward(r)
    BY <2>1
  <2>2. \A w : Steward(w)' = Steward(w)
    BY <2>1 DEF Steward
  <2>3. ASSUME NEW s, s # t \/ r \in crowded PROVE Orderly(s)' \subseteq Orderly(s)
    BY <1>a, <2>1, <2>2, <2>3 DEF Orderly, StewardQueue, RecordsTypeOK
  <2>4. Orderly(t)' \subseteq Orderly(t) \cup {r}
    BY <1>a, <2>1, <2>2 DEF Orderly, StewardQueue, RecordsTypeOK
  <2>5. r \notin crowded => Cardinality(Orderly(t)) < MaxPerSteward
    BY <2>1 DEF QueueInv, QueueRoom
  <2>6. Cardinality(Orderly(t)') <= MaxPerSteward
    <3>1. CASE r \in crowded
      BY <1>a, <2>1, <2>3, <3>1, FewerOrderly, QueueIsOrderly DEF QueueInv
    <3>2. CASE r \notin crowded
      <4> DEFINE S == Orderly(t)
      <4>a. IsFiniteSet(S) /\ Cardinality(S) \in Nat /\ Cardinality(S) < MaxPerSteward
        BY <2>5, <3>2, OrderlyFinite
      <4> HIDE DEF S
      <4>b. /\ IsFiniteSet(S \cup {r})
            /\ Cardinality(S \cup {r}) \in {Cardinality(S), Cardinality(S) + 1}
        BY <4>a, FS_AddElement
      <4>1. /\ IsFiniteSet(Orderly(t) \cup {r})
            /\ Cardinality(Orderly(t) \cup {r}) <= MaxPerSteward
            /\ Cardinality(Orderly(t) \cup {r}) \in Nat
        BY <1>a, <4>a, <4>b DEF S
      <4>2. /\ Cardinality(Orderly(t)') <= Cardinality(Orderly(t) \cup {r})
            /\ Cardinality(Orderly(t)') \in Nat
        BY <2>4, <4>1, FS_Subset, FS_CardinalityType
      <4> QED
        BY <1>a, <4>1, <4>2
    <3> QED
      BY <3>1, <3>2
  <2>7. QueueOverrunIsOverlap'
    <3> SUFFICES ASSUME NEW s \in {AnswersFor[a] : a \in Writers}
                 PROVE  Cardinality(Orderly(s)') <= MaxPerSteward
      BY QueueIsOrderly
    <3>1. CASE s = t
      BY <2>6, <3>1
    <3>2. CASE s # t
      BY <1>a, <2>3, <3>2, FewerOrderly, QueueIsOrderly DEF QueueInv
    <3> QED
      BY <3>1, <3>2
  <2>8. QueueRoom'
    <3> SUFFICES ASSUME NEW w \in writing' \ crowded'
                 PROVE  /\ Cardinality(Orderly(Steward(w))') < MaxPerSteward
                        /\ \A u \in writing' : Steward(u)' = Steward(w)' => u = w
      BY DEF QueueRoom
    <3>1. w \in writing \ crowded /\ w # r
      BY <2>1
    <3>2. /\ Cardinality(Orderly(Steward(w))) < MaxPerSteward
          /\ \A u \in writing : Steward(u) = Steward(w) => u = w
      BY <3>1 DEF QueueInv, QueueRoom
    <3>3. Steward(w) # t
      BY <2>1, <3>1, <3>2
    <3>4. Orderly(Steward(w))' \subseteq Orderly(Steward(w))
      BY <2>1, <2>2, <2>3, <3>3 DEF Orderly, StewardQueue
    <3>5. /\ Cardinality(Orderly(Steward(w))') <= Cardinality(Orderly(Steward(w)))
          /\ Cardinality(Orderly(Steward(w))') \in Nat
      BY <3>4, OrderlyFinite, FS_Subset, FS_CardinalityType
    <3> QED
      BY <1>a, <2>1, <2>2, <3>1, <3>2, <3>5, OrderlyFinite
  <2> QED
    BY <1>a, <2>7, <2>8 DEF QueueInv
<1>3. ASSUME NEW r \in Records, NEW a \in Writers, CheckWrite(r, a) PROVE QueueInv'
  <2>1. /\ record[r] = "none" /\ r \notin writing /\ writing' = writing \cup {r}
        /\ Cardinality(StewardQueue(AnswersFor[a])) < MaxPerSteward
        /\ author' = [author EXCEPT ![r] = a] /\ crowded \subseteq crowded'
        /\ UNCHANGED record
        /\ \A w \in writing : Steward(w) = AnswersFor[a] => {r, w} \subseteq crowded'
    BY <1>3 DEF CheckWrite, Room
  <2>2. /\ \A w \in Records \ {r} : Steward(w)' = Steward(w)
        /\ Steward(r)' = AnswersFor[a]
    BY <1>a, <2>1 DEF Steward, RecordsTypeOK
  <2>3. \A s : Orderly(s)' \subseteq Orderly(s)
    BY <2>1, <2>2 DEF Orderly, StewardQueue
  <2>4. QueueOverrunIsOverlap'
    BY <1>a, <2>3, FewerOrderly, QueueIsOrderly DEF QueueInv
  <2>5. QueueRoom'
    <3> SUFFICES ASSUME NEW w \in writing' \ crowded'
                 PROVE  /\ Cardinality(Orderly(Steward(w))') < MaxPerSteward
                        /\ \A u \in writing' : Steward(u)' = Steward(w)' => u = w
      BY DEF QueueRoom
    <3> DEFINE s == Steward(w)'
    <3>1. writing' \subseteq Records
      BY <1>a DEF RecordsTypeOK
    <3>2. Cardinality(Orderly(s)) < MaxPerSteward
      <4>1. CASE w = r
        <5>1. StewardQueue(s) \in SUBSET Records /\ Orderly(s) \in SUBSET StewardQueue(s)
          BY DEF StewardQueue, Orderly
        <5>2. /\ IsFiniteSet(StewardQueue(s)) /\ Cardinality(StewardQueue(s)) \in Nat
              /\ Cardinality(Orderly(s)) <= Cardinality(StewardQueue(s))
              /\ Cardinality(Orderly(s)) \in Nat
          BY <5>1, RecordsAssumption, FS_Subset, FS_CardinalityType
        <5> QED
          BY <1>a, <2>1, <2>2, <4>1, <5>2
      <4>2. CASE w # r
        BY <2>1, <2>2, <3>1, <4>2 DEF QueueInv, QueueRoom
      <4> QED
        BY <4>1, <4>2
    <3>3. Orderly(Steward(w))' \subseteq Orderly(s)
      BY <2>1, <2>2 DEF Orderly, StewardQueue
    <3>4. Cardinality(Orderly(Steward(w))') < MaxPerSteward
      <4> HIDE DEF s
      <4>1. /\ Cardinality(Orderly(Steward(w))') <= Cardinality(Orderly(s))
            /\ Cardinality(Orderly(Steward(w))') \in Nat /\ Cardinality(Orderly(s)) \in Nat
        BY <3>3, OrderlyFinite, FS_Subset, FS_CardinalityType
      <4> QED
        BY <1>a, <3>2, <4>1
    <3>5. ASSUME NEW u \in writing', Steward(u)' = s PROVE u = w
      <4>1. CASE u # r /\ w # r
        BY <2>1, <2>2, <3>1, <3>5, <4>1 DEF QueueInv, QueueRoom
      <4>2. CASE u = r \/ w = r
        BY <2>1, <2>2, <3>1, <3>5, <4>2
      <4> QED
        BY <4>1, <4>2
    <3> QED
      BY <3>4, <3>5
  <2> QED
    BY <1>a, <2>4, <2>5 DEF QueueInv
<1>4. ASSUME NEW q \in Jobs, NEW op \in {"review", "recompute"}, NEW r \in Records, Load(q, op, r)
      PROVE  QueueInv'
  BY <1>4, <1>b DEF Load, Orderly, StewardQueue, Steward
<1>5. ASSUME NEW q \in Jobs, NEW v \in {"confirmed", "rejected"}, CommitReview(q, v)
      PROVE  QueueInv'
  BY <1>5, <1>a, <1>b DEF CommitReview, Orderly, StewardQueue, Steward, RecordsTypeOK, Loaded
<1>6. ASSUME NEW q \in Jobs, NEW v \in {"matched", "mismatched"}, CommitRecompute(q, v)
      PROVE  QueueInv'
  BY <1>6, <1>a, <1>b
  DEF CommitRecompute, Written, Orderly, StewardQueue, Steward, RecordsTypeOK, Loaded
<1>7. CASE UNCHANGED recordsVars
  BY <1>7, <1>b DEF recordsVars, Orderly, StewardQueue, Steward
<1> QED
  BY <1>1, <1>2, <1>3, <1>4, <1>5, <1>6, <1>7 DEF RecordsNext, LoadReview, LoadRecompute

\* The steward's queue goes past its ceiling only by writes that overlapped, and what was
\* contradicted stays superseded unless a review was in flight with another request.
THEOREM RecordsAreReviewedHolds == RecordsSpec => []RecordsAreReviewed
<1>1. RecordsInit => QueueInv
  <2> SUFFICES ASSUME RecordsInit PROVE QueueInv
    OBVIOUS
  <2>1. \A s : StewardQueue(s) \ crowded = {}
    BY DEF RecordsInit, StewardQueue
  <2>2. QueueOverrunIsOverlap
    BY <2>1, RecordsAssumption, FS_EmptySet DEF QueueOverrunIsOverlap
  <2>3. MismatchInv /\ QueueRoom
    BY RecordsInitType
    DEF RecordsInit, MismatchInv, RowsInOrder, JobsKnow, JobOn, ReviewOn, MismatchStands, QueueRoom
  <2> QED
    BY <2>2, <2>3 DEF QueueInv
<1>2. QueueInv => RecordsAreReviewed
  BY DEF QueueInv, MismatchInv, RecordsAreReviewed
<1> QED
  BY <1>1, <1>2, QueueKept, PTL DEF RecordsSpec

-----------------------------------------------------------------------------
(* The ledger: types. *)

LEMMA LedgerInitType == LedgerInit => LedgerTypeOK
<1> SUFFICES ASSUME LedgerInit PROVE LedgerTypeOK
  OBVIOUS
<1>1. consent \in BOOLEAN
  BY Zenon DEF LedgerInit
<1> QED
  BY <1>1 DEF LedgerInit, LedgerTypeOK

LEMMA LedgerNextType == LedgerTypeOK /\ [LedgerNext]_ledgerVars => LedgerTypeOK'
<1> SUFFICES ASSUME LedgerTypeOK, [LedgerNext]_ledgerVars PROVE LedgerTypeOK'
  OBVIOUS
<1> USE DEF LedgerTypeOK
<1>1. ASSUME NEW e \in Entries, NEW by \in Attesters \cup {Self}, AddEntry(e, by)
      PROVE  LedgerTypeOK'
  BY <1>1 DEF AddEntry
<1>2. ASSUME NEW e \in Entries, NEW by \in Attesters \cup {Self}, CheckCareEntry(e, by)
      PROVE  LedgerTypeOK'
  BY <1>2 DEF CheckCareEntry
<1>3. ASSUME NEW e \in Entries, InsertCareEntry(e) PROVE LedgerTypeOK'
  BY <1>3 DEF InsertCareEntry
<1>4. ASSUME NEW e \in Entries, DeleteSelfReported(e) PROVE LedgerTypeOK'
  BY <1>4 DEF DeleteSelfReported, Erase
<1>5. CASE Grant
  BY <1>5 DEF Grant
<1>6. CASE ReadFactorEntries
  BY <1>6 DEF ReadFactorEntries, ledgerRows
<1>7. CASE Revoke
  <2> DEFINE closing == {d \in Disputes : dispute[d] = "open" /\ about[d] \in erasing}
  <2>1. /\ dispute' = [d \in Disputes |-> IF d \in closing THEN "closed" ELSE dispute[d]]
        /\ about' = [d \in Disputes |-> IF d \in closing THEN NoOne ELSE about[d]]
    BY <1>7 DEF Revoke
  <2>2. /\ dispute' \in [Disputes -> {"none", "asking", "open", "closed"}]
        /\ about' \in [Disputes -> Entries \cup {NoOne}]
        /\ \A d \in Disputes : dispute'[d] \in {"asking", "open"} => about'[d] # NoOne
    <3> HIDE DEF closing
    <3> QED
      BY <2>1
  <2>3. erasing \in SUBSET Entries
    BY <1>7 DEF Revoke
  <2>4. /\ consent' = FALSE /\ erasing' = NoOne /\ UNCHANGED review
        /\ Erase(erasing)
    BY <1>7 DEF Revoke
  <2>5. /\ entry' \in [Entries -> {"none", "checked", "active", "superseded", "erased"}]
        /\ attester' \in [Entries -> Attesters \cup {Self}]
        /\ corrects' \in [Entries -> Entries \cup {NoOne}]
        /\ care' \subseteq Entries /\ late' \subseteq Entries /\ muddled' \subseteq Entries
    BY <2>3, <2>4 DEF Erase
  <2>6. consent' \in BOOLEAN
    BY <2>4
  <2> QED
    BY <2>2, <2>4, <2>5, <2>6
<1>8. CASE FailToRevoke
  BY <1>8 DEF FailToRevoke, ledgerRows
<1>9. ASSUME NEW d \in Disputes, OpenDispute(d) PROVE LedgerTypeOK'
  BY <1>9 DEF OpenDispute, Close
<1>10. ASSUME NEW d \in Disputes, NEW e \in Entries, CheckDispute(d, e) PROVE LedgerTypeOK'
  <2>1. muddled' \subseteq Entries
    BY <1>10 DEF CheckDispute, Noted
  <2>2. e # NoOne
    BY LedgerAssumption
  <2> QED
    BY <1>10, <2>1, <2>2 DEF CheckDispute
<1>11. ASSUME NEW v \in Reviews, NEW d \in Disputes, NEW by \in Attesters,
              LoadDispute(v, d, by)
       PROVE  LedgerTypeOK'
  <2>1. [dispute |-> d, entry |-> about[d], by |-> by] \in Loads
    BY <1>11 DEF LoadDispute, Loads
  <2> QED
    BY <1>11, <2>1 DEF LoadDispute, Noted, ledgerRows
<1>12. ASSUME NEW v \in Reviews, NEW o \in {"removed", "rejected"}, Resolve(v, o)
       PROVE  LedgerTypeOK'
  <2>1. review[v] \in Loads
    BY <1>12 DEF Resolve, Resolvable
  <2> QED
    BY <1>12, <2>1 DEF Resolve, Close, Loads
<1>13. ASSUME NEW v \in Reviews, NEW f \in Entries, Correct(v, f) PROVE LedgerTypeOK'
  <2>1. review[v] \in Loads
    BY <1>13 DEF Correct, Resolvable
  <2> QED
    BY <1>13, <2>1 DEF Correct, Close, Loads
<1>14. ASSUME NEW v \in Reviews, AbandonReview(v) PROVE LedgerTypeOK'
  BY <1>14 DEF AbandonReview, ledgerRows
<1>15. CASE UNCHANGED ledgerVars
  BY <1>15 DEF ledgerVars, ledgerRows
<1> QED
  BY <1>1, <1>2, <1>3, <1>4, <1>5, <1>6, <1>7, <1>8, <1>9, <1>10, <1>11, <1>12, <1>13,
     <1>14, <1>15 DEF LedgerNext

\* Every variable keeps its type in every behaviour of the ledger.
THEOREM LedgerTypeCorrect == LedgerSpec => []LedgerTypeOK
BY LedgerInitType, LedgerNextType, PTL DEF LedgerSpec

-----------------------------------------------------------------------------
(* The ledger: what ConsentHolds rests on. *)

\* An entry is known to be a care entry from its check to its erasure, and points at
\* what it corrects only while its row is there.  Only what was attested is corrected,
\* what corrects is attested itself, and an entry stays while its correction does.
EntriesHangTogether ==
    /\ \A e \in care : entry[e] \notin {"none", "erased"}
    /\ \A e \in Entries : ~Stored(e) => corrects[e] = NoOne
    /\ \A e \in Entries : corrects[e] # NoOne =>
         /\ attester[e] # Self
         /\ Stored(corrects[e]) /\ attester[corrects[e]] # Self

\* Something that was not read corrects what was: the revocation will fail.
RevocationBlocked == \E f \in Entries \ erasing : Stored(f) /\ corrects[f] \in erasing

\* A revocation in flight has read all care entries that are not late, unless it fails.
RevocationSeesAll ==
    erasing # NoOne =>
      /\ consent
      /\ \A e \in erasing : entry[e] # "none"
      /\ RevocationBlocked \/ \A e \in care : Stored(e) => e \in late \cup erasing

\* An attested entry was there when e was disputed.
Disputable(e) ==
    /\ e \in Entries /\ entry[e] \in {"active", "superseded", "erased"}
    /\ Stored(e) => attester[e] # Self

\* Dispute d is about e, or has been.
Concerns(d, e) == dispute[d] = "closed" \/ (dispute[d] = "open" /\ about[d] = e)

\* A dispute, and what a review has loaded, is about an entry that was attested.
DisputesRefer ==
    /\ \A d \in Disputes : dispute[d] \in {"asking", "open"} => Disputable(about[d])
    /\ \A v \in Reviews : review[v] # NoOne =>
         Concerns(review[v].dispute, review[v].entry) /\ Disputable(review[v].entry)

ConsentInv ==
    /\ LedgerTypeOK
    /\ EntriesHangTogether /\ RevocationSeesAll /\ DisputesRefer /\ ConsentHolds

\* What resolving dispute b of entry e makes of the rows, without a correction ...
Resolved(v, o, e, b) ==
    /\ review[v] # NoOne /\ e = review[v].entry /\ b = review[v].dispute /\ Stored(e)
    /\ \A x \in Entries : entry'[x] = IF x = e /\ o = "removed" THEN "superseded" ELSE entry[x]
    /\ \A c \in Disputes : /\ dispute'[c] = IF c = b THEN "closed" ELSE dispute[c]
                           /\ about'[c] = IF c = b THEN NoOne ELSE about[c]
    /\ \A u \in Reviews : review'[u] = IF u = v THEN NoOne ELSE review[u]
    /\ UNCHANGED <<care, attester, corrects, consent, erasing, late, muddled>>

\* ... and with the correction f.
Corrected(v, f, e, b) ==
    /\ review[v] # NoOne /\ e = review[v].entry /\ b = review[v].dispute /\ Stored(e)
    /\ entry[f] = "none" /\ e # f
    /\ \A x \in Entries :
         /\ entry'[x] = IF x = e THEN "superseded" ELSE IF x = f THEN "active" ELSE entry[x]
         /\ x # f => attester'[x] = attester[x] /\ corrects'[x] = corrects[x]
    /\ attester'[f] # Self /\ corrects'[f] = e
    /\ care' = IF e \in care THEN care \cup {f} ELSE care
    /\ late' = IF e \in late THEN late \cup {f} ELSE late
    /\ \A c \in Disputes : /\ dispute'[c] = IF c = b THEN "closed" ELSE dispute[c]
                           /\ about'[c] = IF c = b THEN NoOne ELSE about[c]
    /\ \A u \in Reviews : review'[u] = IF u = v THEN NoOne ELSE review[u]
    /\ UNCHANGED <<consent, erasing, muddled>>

LEMMA ResolveEffect ==
    ASSUME LedgerTypeOK, NEW v \in Reviews, NEW o \in {"removed", "rejected"}, Resolve(v, o)
    PROVE  \E e \in Entries, b \in Disputes : Resolved(v, o, e, b)
<1>1. /\ review[v] \in Loads /\ review[v] # NoOne
      /\ review[v].entry \in Entries /\ review[v].dispute \in Disputes
  BY DEF Resolve, Resolvable, LedgerTypeOK, Loads
<1> SUFFICES Resolved(v, o, review[v].entry, review[v].dispute)
  BY <1>1
<1> QED
  BY <1>1 DEF Resolved, Resolve, Resolvable, Close, LedgerTypeOK

LEMMA CorrectEffect ==
    ASSUME LedgerTypeOK, NEW v \in Reviews, NEW f \in Entries, Correct(v, f)
    PROVE  \E e \in Entries, b \in Disputes : Corrected(v, f, e, b)
<1>1. review[v] \in Loads /\ review[v] # NoOne /\ entry[f] = "none" /\ Stored(review[v].entry)
  BY DEF Correct, Resolvable, Fresh, LedgerTypeOK
<1>2. /\ review[v].entry \in Entries /\ review[v].dispute \in Disputes
      /\ review[v].by \in Attesters /\ review[v].by # Self /\ review[v].entry # f
  BY <1>1, LedgerAssumption DEF Loads, Stored
<1> SUFFICES Corrected(v, f, review[v].entry, review[v].dispute)
  BY <1>2
<1> QED
  BY <1>1, <1>2 DEF Corrected, Correct, Close, LedgerTypeOK

LEMMA HangTogetherKept ==
    ConsentInv /\ LedgerTypeOK' /\ [LedgerNext]_ledgerVars => EntriesHangTogether'
<1> SUFFICES ASSUME ConsentInv, LedgerTypeOK', [LedgerNext]_ledgerVars PROVE EntriesHangTogether'
  OBVIOUS
<1> USE LedgerAssumption
       DEF ConsentInv, LedgerTypeOK, EntriesHangTogether, DisputesRefer, Disputable, Stored
<1>1. ASSUME NEW e \in Entries, NEW by \in Attesters \cup {Self}, AddEntry(e, by)
      PROVE  EntriesHangTogether'
  BY <1>1 DEF AddEntry, Fresh
<1>2. ASSUME NEW e \in Entries, NEW by \in Attesters \cup {Self}, CheckCareEntry(e, by)
      PROVE  EntriesHangTogether'
  BY <1>2 DEF CheckCareEntry, Fresh
<1>3. ASSUME NEW e \in Entries, InsertCareEntry(e) PROVE EntriesHangTogether'
  BY <1>3 DEF InsertCareEntry
<1>4. ASSUME NEW e \in Entries, DeleteSelfReported(e) PROVE EntriesHangTogether'
  BY <1>4 DEF DeleteSelfReported, Erase
<1>5. CASE Grant
  BY <1>5 DEF Grant
<1>6. CASE ReadFactorEntries
  BY <1>6 DEF ReadFactorEntries, ledgerRows
<1>7. CASE Revoke
  BY <1>7 DEF Revoke, Erase
<1>8. CASE FailToRevoke
  BY <1>8 DEF FailToRevoke, ledgerRows
<1>9. ASSUME NEW d \in Disputes, OpenDispute(d) PROVE EntriesHangTogether'
  BY <1>9 DEF OpenDispute, Close
<1>10. ASSUME NEW d \in Disputes, NEW e \in Entries, CheckDispute(d, e) PROVE EntriesHangTogether'
  BY <1>10 DEF CheckDispute
<1>11. ASSUME NEW v \in Reviews, NEW d \in Disputes, NEW by \in Attesters,
              LoadDispute(v, d, by) PROVE EntriesHangTogether'
  BY <1>11 DEF LoadDispute, ledgerRows
<1>12. ASSUME NEW v \in Reviews, NEW o \in {"removed", "rejected"}, Resolve(v, o)
       PROVE  EntriesHangTogether'
  <2>1. PICK e \in Entries, b \in Disputes : Resolved(v, o, e, b)
    BY <1>12, ResolveEffect
  <2>2. /\ \A x \in Entries : /\ Stored(x)' <=> Stored(x)
                              /\ (entry'[x] \in {"none", "erased"})
                                    <=> (entry[x] \in {"none", "erased"})
        /\ UNCHANGED <<care, attester, corrects>>
    BY <2>1 DEF Resolved
  <2>3. \A x \in Entries : corrects[x] # NoOne => corrects[x] \in Entries
    OBVIOUS
  <2> HIDE DEF Stored
  <2> QED
    BY <2>2, <2>3
<1>13. ASSUME NEW v \in Reviews, NEW f \in Entries, Correct(v, f) PROVE EntriesHangTogether'
  <2>1. PICK e \in Entries, b \in Disputes : Corrected(v, f, e, b)
    BY <1>13, CorrectEffect
  <2>2. /\ attester[e] # Self /\ Stored(e)' /\ Stored(f)' /\ ~Stored(f)
        /\ \A x \in Entries \ {f} : /\ Stored(x)' <=> Stored(x)
                                   /\ attester'[x] = attester[x] /\ corrects'[x] = corrects[x]
        /\ attester'[f] # Self /\ corrects'[f] = e /\ e # f
    BY <2>1 DEF Corrected
  <2>3. \A x \in care' : entry'[x] \notin {"none", "erased"}
    BY <2>1 DEF Corrected
  <2>4. \A x \in Entries : corrects[x] # NoOne => corrects[x] \in Entries \ {f}
    BY <2>2
  <2>5. ASSUME NEW x \in Entries \ {f}, corrects'[x] # NoOne
        PROVE  /\ attester'[x] # Self
               /\ Stored(corrects[x])' /\ attester'[corrects'[x]] # Self
    <3>1. corrects'[x] = corrects[x] /\ attester'[x] = attester[x]
      BY <2>2
    <3>2. corrects[x] \in Entries \ {f}
      BY <2>4, <2>5, <3>1
    <3>3. attester[x] # Self /\ Stored(corrects[x]) /\ attester[corrects[x]] # Self
      <4> HIDE DEF Stored
      <4> QED
        BY <2>5, <3>1
    <3> HIDE DEF Stored
    <3> QED
      BY <2>2, <3>1, <3>2, <3>3
  <2>6. \A x \in Entries : ~Stored(x)' => corrects'[x] = NoOne
    <3> HIDE DEF Stored
    <3> QED
      BY <2>2
  <2> QED
    BY <2>2, <2>3, <2>5, <2>6
<1>14. ASSUME NEW v \in Reviews, AbandonReview(v) PROVE EntriesHangTogether'
  BY <1>14 DEF AbandonReview, ledgerRows
<1>15. CASE UNCHANGED ledgerVars
  BY <1>15 DEF ledgerVars, ledgerRows
<1> HIDE DEF ConsentInv, LedgerTypeOK, EntriesHangTogether, DisputesRefer, Disputable, Stored
<1> QED
  BY <1>1, <1>2, <1>3, <1>4, <1>5, <1>6, <1>7, <1>8, <1>9, <1>10, <1>11, <1>12, <1>13,
     <1>14, <1>15 DEF LedgerNext

LEMMA SeesAllKept ==
    ConsentInv /\ LedgerTypeOK' /\ [LedgerNext]_ledgerVars => RevocationSeesAll'
<1> SUFFICES ASSUME ConsentInv, LedgerTypeOK', [LedgerNext]_ledgerVars PROVE RevocationSeesAll'
  OBVIOUS
<1> USE LedgerAssumption
       DEF ConsentInv, LedgerTypeOK, RevocationSeesAll, RevocationBlocked, EntriesHangTogether,
           ConsentHolds, DisputesRefer, Disputable, Stored
<1>1. ASSUME NEW e \in Entries, NEW by \in Attesters \cup {Self}, AddEntry(e, by)
      PROVE  RevocationSeesAll'
  BY <1>1 DEF AddEntry, Fresh
<1>2. ASSUME NEW e \in Entries, NEW by \in Attesters \cup {Self}, CheckCareEntry(e, by)
      PROVE  RevocationSeesAll'
  BY <1>2 DEF CheckCareEntry, Fresh
<1>3. ASSUME NEW e \in Entries, InsertCareEntry(e) PROVE RevocationSeesAll'
  BY <1>3 DEF InsertCareEntry
<1>4. ASSUME NEW e \in Entries, DeleteSelfReported(e) PROVE RevocationSeesAll'
  BY <1>4 DEF DeleteSelfReported, Erase
<1>5. CASE Grant
  BY <1>5 DEF Grant
<1>6. CASE ReadFactorEntries
  BY <1>6 DEF ReadFactorEntries, ledgerRows
<1>7. CASE Revoke
  BY <1>7 DEF Revoke, Erase
<1>8. CASE FailToRevoke
  BY <1>8 DEF FailToRevoke, ledgerRows
<1>9. ASSUME NEW d \in Disputes, OpenDispute(d) PROVE RevocationSeesAll'
  BY <1>9 DEF OpenDispute, Close
<1>10. ASSUME NEW d \in Disputes, NEW e \in Entries, CheckDispute(d, e) PROVE RevocationSeesAll'
  BY <1>10 DEF CheckDispute
<1>11. ASSUME NEW v \in Reviews, NEW d \in Disputes, NEW by \in Attesters,
              LoadDispute(v, d, by) PROVE RevocationSeesAll'
  BY <1>11 DEF LoadDispute, ledgerRows
<1>12. ASSUME NEW v \in Reviews, NEW o \in {"removed", "rejected"}, Resolve(v, o)
       PROVE  RevocationSeesAll'
  <2>1. PICK e \in Entries, b \in Disputes : Resolved(v, o, e, b)
    BY <1>12, ResolveEffect
  <2> QED
    BY <2>1 DEF Resolved
<1>13. ASSUME NEW v \in Reviews, NEW f \in Entries, Correct(v, f) PROVE RevocationSeesAll'
  <2>1. PICK e \in Entries, b \in Disputes : Corrected(v, f, e, b)
    BY <1>13, CorrectEffect
  <2> QED
    BY <2>1 DEF Corrected
<1>14. ASSUME NEW v \in Reviews, AbandonReview(v) PROVE RevocationSeesAll'
  BY <1>14 DEF AbandonReview, ledgerRows
<1>15. CASE UNCHANGED ledgerVars
  BY <1>15 DEF ledgerVars, ledgerRows
<1> HIDE DEF ConsentInv, LedgerTypeOK, RevocationSeesAll, RevocationBlocked, EntriesHangTogether,
            ConsentHolds, DisputesRefer, Disputable, Stored
<1> QED
  BY <1>1, <1>2, <1>3, <1>4, <1>5, <1>6, <1>7, <1>8, <1>9, <1>10, <1>11, <1>12, <1>13,
     <1>14, <1>15 DEF LedgerNext

LEMMA DisputesReferKept ==
    ConsentInv /\ LedgerTypeOK' /\ [LedgerNext]_ledgerVars => DisputesRefer'
<1> SUFFICES ASSUME ConsentInv, LedgerTypeOK', [LedgerNext]_ledgerVars PROVE DisputesRefer'
  OBVIOUS
<1> USE LedgerAssumption
       DEF ConsentInv, LedgerTypeOK, DisputesRefer, Disputable, Concerns, Loads, Stored
<1>1. ASSUME NEW e \in Entries, NEW by \in Attesters \cup {Self}, AddEntry(e, by)
      PROVE  DisputesRefer'
  BY <1>1 DEF AddEntry, Fresh
<1>2. ASSUME NEW e \in Entries, NEW by \in Attesters \cup {Self}, CheckCareEntry(e, by)
      PROVE  DisputesRefer'
  BY <1>2 DEF CheckCareEntry, Fresh
<1>3. ASSUME NEW e \in Entries, InsertCareEntry(e) PROVE DisputesRefer'
  BY <1>3 DEF InsertCareEntry
<1>4. ASSUME NEW e \in Entries, DeleteSelfReported(e) PROVE DisputesRefer'
  BY <1>4 DEF DeleteSelfReported, Erase
<1>5. CASE Grant
  BY <1>5 DEF Grant
<1>6. CASE ReadFactorEntries
  BY <1>6 DEF ReadFactorEntries, ledgerRows
<1>7. CASE Revoke
  BY <1>7 DEF Revoke, Erase
<1>8. CASE FailToRevoke
  BY <1>8 DEF FailToRevoke, ledgerRows
<1>9. ASSUME NEW d \in Disputes, OpenDispute(d) PROVE DisputesRefer'
  BY <1>9 DEF OpenDispute, Close
<1>10. ASSUME NEW d \in Disputes, NEW e \in Entries, CheckDispute(d, e) PROVE DisputesRefer'
  BY <1>10 DEF CheckDispute
<1>11. ASSUME NEW v \in Reviews, NEW d \in Disputes, NEW by \in Attesters,
              LoadDispute(v, d, by) PROVE DisputesRefer'
  BY <1>11 DEF LoadDispute, ledgerRows
<1>12. ASSUME NEW v \in Reviews, NEW o \in {"removed", "rejected"}, Resolve(v, o)
       PROVE  DisputesRefer'
  <2>1. PICK e \in Entries, b \in Disputes : Resolved(v, o, e, b)
    BY <1>12, ResolveEffect
  <2>2. \A x \in Entries : Disputable(x) => Disputable(x)'
    BY <2>1 DEF Resolved
  <2>3. \A u \in Reviews : review'[u] # NoOne =>
          /\ review'[u] = review[u] /\ review[u].dispute \in Disputes
          /\ review[u].entry \in Entries
    BY <2>1 DEF Resolved
  <2>4. \A c \in Disputes : dispute'[c] \in {"asking", "open"} =>
          dispute'[c] = dispute[c] /\ about'[c] = about[c]
    BY <2>1 DEF Resolved
  <2>6. \A c \in Disputes :
          dispute'[c] = "closed" \/ (dispute'[c] = dispute[c] /\ about'[c] = about[c])
    BY <2>1 DEF Resolved
  <2> QED
    <3>1. \A c \in Disputes : dispute'[c] \in {"asking", "open"} => Disputable(about[c])'
      <4> HIDE DEF Disputable
      <4> QED
        BY <2>2, <2>4
    <3>2. \A u \in Reviews : review'[u] # NoOne =>
            Concerns(review[u].dispute, review[u].entry)' /\ Disputable(review[u].entry)'
      <4> SUFFICES ASSUME NEW u \in Reviews, review'[u] # NoOne
                   PROVE  Concerns(review[u].dispute, review[u].entry)'
                          /\ Disputable(review[u].entry)'
        OBVIOUS
      <4>1. /\ review'[u] = review[u] /\ review[u].entry \in Entries
            /\ review[u].dispute \in Disputes
            /\ Concerns(review[u].dispute, review[u].entry) /\ Disputable(review[u].entry)
        <5> HIDE DEF Disputable, Concerns
        <5> QED
          BY <2>3
      <4>2. Concerns(review[u].dispute, review[u].entry)'
        BY <2>6, <4>1
      <4> HIDE DEF Disputable
      <4> QED
        BY <2>2, <4>1, <4>2
    <3> QED
      BY <3>1, <3>2
<1>13. ASSUME NEW v \in Reviews, NEW f \in Entries, Correct(v, f) PROVE DisputesRefer'
  <2>1. PICK e \in Entries, b \in Disputes : Corrected(v, f, e, b)
    BY <1>13, CorrectEffect
  <2>2. \A x \in Entries : Disputable(x) => Disputable(x)'
    BY <2>1 DEF Corrected
  <2>3. \A u \in Reviews : review'[u] # NoOne =>
          /\ review'[u] = review[u] /\ review[u].dispute \in Disputes
          /\ review[u].entry \in Entries
    BY <2>1 DEF Corrected
  <2>4. \A c \in Disputes : dispute'[c] \in {"asking", "open"} =>
          dispute'[c] = dispute[c] /\ about'[c] = about[c]
    BY <2>1 DEF Corrected
  <2>6. \A c \in Disputes :
          dispute'[c] = "closed" \/ (dispute'[c] = dispute[c] /\ about'[c] = about[c])
    BY <2>1 DEF Corrected
  <2> QED
    <3>1. \A c \in Disputes : dispute'[c] \in {"asking", "open"} => Disputable(about[c])'
      <4> HIDE DEF Disputable
      <4> QED
        BY <2>2, <2>4
    <3>2. \A u \in Reviews : review'[u] # NoOne =>
            Concerns(review[u].dispute, review[u].entry)' /\ Disputable(review[u].entry)'
      <4> SUFFICES ASSUME NEW u \in Reviews, review'[u] # NoOne
                   PROVE  Concerns(review[u].dispute, review[u].entry)'
                          /\ Disputable(review[u].entry)'
        OBVIOUS
      <4>1. /\ review'[u] = review[u] /\ review[u].entry \in Entries
            /\ review[u].dispute \in Disputes
            /\ Concerns(review[u].dispute, review[u].entry) /\ Disputable(review[u].entry)
        <5> HIDE DEF Disputable, Concerns
        <5> QED
          BY <2>3
      <4>2. Concerns(review[u].dispute, review[u].entry)'
        BY <2>6, <4>1
      <4> HIDE DEF Disputable
      <4> QED
        BY <2>2, <4>1, <4>2
    <3> QED
      BY <3>1, <3>2
<1>14. ASSUME NEW v \in Reviews, AbandonReview(v) PROVE DisputesRefer'
  BY <1>14 DEF AbandonReview, ledgerRows
<1>15. CASE UNCHANGED ledgerVars
  BY <1>15 DEF ledgerVars, ledgerRows
<1> HIDE DEF ConsentInv, LedgerTypeOK, DisputesRefer, Disputable, Concerns, Loads, Stored
<1> QED
  BY <1>1, <1>2, <1>3, <1>4, <1>5, <1>6, <1>7, <1>8, <1>9, <1>10, <1>11, <1>12, <1>13,
     <1>14, <1>15 DEF LedgerNext

LEMMA ConsentHoldsKept ==
    ConsentInv /\ LedgerTypeOK' /\ [LedgerNext]_ledgerVars => ConsentHolds'
<1> SUFFICES ASSUME ConsentInv, LedgerTypeOK', [LedgerNext]_ledgerVars PROVE ConsentHolds'
  OBVIOUS
<1> USE LedgerAssumption
       DEF ConsentInv, LedgerTypeOK, ConsentHolds, RevocationSeesAll, RevocationBlocked,
           EntriesHangTogether, Loads, Stored
<1>1. ASSUME NEW e \in Entries, NEW by \in Attesters \cup {Self}, AddEntry(e, by)
      PROVE  ConsentHolds'
  BY <1>1 DEF AddEntry, Fresh
<1>2. ASSUME NEW e \in Entries, NEW by \in Attesters \cup {Self}, CheckCareEntry(e, by)
      PROVE  ConsentHolds'
  BY <1>2 DEF CheckCareEntry, Fresh
<1>3. ASSUME NEW e \in Entries, InsertCareEntry(e) PROVE ConsentHolds'
  BY <1>3 DEF InsertCareEntry
<1>4. ASSUME NEW e \in Entries, DeleteSelfReported(e) PROVE ConsentHolds'
  BY <1>4 DEF DeleteSelfReported, Erase
<1>5. CASE Grant
  BY <1>5 DEF Grant
<1>6. CASE ReadFactorEntries
  BY <1>6 DEF ReadFactorEntries, ledgerRows
<1>7. CASE Revoke
  BY <1>7 DEF Revoke, Erase
<1>8. CASE FailToRevoke
  BY <1>8 DEF FailToRevoke, ledgerRows
<1>9. ASSUME NEW d \in Disputes, OpenDispute(d) PROVE ConsentHolds'
  BY <1>9 DEF OpenDispute, Close
<1>10. ASSUME NEW d \in Disputes, NEW e \in Entries, CheckDispute(d, e) PROVE ConsentHolds'
  BY <1>10 DEF CheckDispute
<1>11. ASSUME NEW v \in Reviews, NEW d \in Disputes, NEW by \in Attesters,
              LoadDispute(v, d, by) PROVE ConsentHolds'
  BY <1>11 DEF LoadDispute, ledgerRows
<1>12. ASSUME NEW v \in Reviews, NEW o \in {"removed", "rejected"}, Resolve(v, o)
       PROVE  ConsentHolds'
  <2>1. PICK e \in Entries, b \in Disputes : Resolved(v, o, e, b)
    BY <1>12, ResolveEffect
  <2> QED
    BY <2>1 DEF Resolved
<1>13. ASSUME NEW v \in Reviews, NEW f \in Entries, Correct(v, f) PROVE ConsentHolds'
  <2>1. PICK e \in Entries, b \in Disputes : Corrected(v, f, e, b)
    BY <1>13, CorrectEffect
  <2> QED
    BY <2>1 DEF Corrected
<1>14. ASSUME NEW v \in Reviews, AbandonReview(v) PROVE ConsentHolds'
  BY <1>14 DEF AbandonReview, ledgerRows
<1>15. CASE UNCHANGED ledgerVars
  BY <1>15 DEF ledgerVars, ledgerRows
<1> HIDE DEF ConsentInv, LedgerTypeOK, ConsentHolds, RevocationSeesAll, RevocationBlocked,
            EntriesHangTogether, Loads, Stored
<1> QED
  BY <1>1, <1>2, <1>3, <1>4, <1>5, <1>6, <1>7, <1>8, <1>9, <1>10, <1>11, <1>12, <1>13,
     <1>14, <1>15 DEF LedgerNext


-----------------------------------------------------------------------------
(* The ledger: what FactsCountOnce rests on. *)

\* Dispute d of e is not settled; a review in flight is of a dispute of e.
Pending(d, e)   == dispute[d] \in {"asking", "open"} /\ about[d] = e
Reviewing(v, e) == review[v] # NoOne /\ review[v].entry = e

\* About an entry whose disputes no two requests handled at once: one dispute is
\* pending at most, of an entry that counts, a review in flight is the only one and of
\* that dispute, and an entry that was corrected has no dispute and does not count.
Settled(e) ==
    /\ \A c, d \in Disputes : Pending(c, e) /\ Pending(d, e) => c = d
    /\ \A u, v \in Reviews : Reviewing(u, e) /\ Reviewing(v, e) => u = v
    /\ \A v \in Reviews : Reviewing(v, e) => dispute[review[v].dispute] = "open"
    /\ \A d \in Disputes : Pending(d, e) => entry[e] = "active"
    /\ \A f, g \in Entries : corrects[f] = e /\ corrects[g] = e => f = g
    /\ \A f \in Entries : corrects[f] = e => entry[e] # "active"

OneAtATime == \A e \in Entries \ muddled : Stored(e) => Settled(e)

FactsInv == ConsentInv /\ OneAtATime

\* Nothing speaks of an entry whose row has not been there yet.
LEMMA UnknownEntry ==
    ASSUME ConsentInv, NEW x \in Entries, entry[x] \in {"none", "checked"}
    PROVE  /\ \A d \in Disputes : ~Pending(d, x)
           /\ \A v \in Reviews : ~Reviewing(v, x)
           /\ \A f \in Entries : corrects[f] # x
BY LedgerAssumption DEF ConsentInv, LedgerTypeOK, DisputesRefer, Disputable, EntriesHangTogether,
   Pending, Reviewing, Stored

\* An entry that is told apart from before by no dispute, review or correction that it
\* had not, stays settled.
LEMMA SettledStays ==
    ASSUME NEW x \in Entries, Settled(x), entry'[x] = entry[x],
           \A d \in Disputes : Pending(d, x)' => Pending(d, x),
           \A v \in Reviews : Reviewing(v, x)' =>
             /\ Reviewing(v, x)
             /\ dispute[review[v].dispute] = "open" => dispute'[review'[v].dispute] = "open",
           \A f \in Entries : corrects'[f] = x => corrects[f] = x
    PROVE  Settled(x)'
BY DEF Settled

\* A review in flight of an entry handled once is the one of its one dispute.
LEMMA OneReview ==
    ASSUME FactsInv, NEW v \in Reviews, review[v] # NoOne, NEW e \in Entries \ muddled,
           Stored(e), e = review[v].entry
    PROVE  LET b == review[v].dispute IN
           /\ b \in Disputes /\ Pending(b, e)
           /\ \A d \in Disputes : Pending(d, e) => d = b
           /\ \A u \in Reviews : Reviewing(u, e) => u = v
           /\ entry[e] = "active" /\ \A f \in Entries : corrects[f] # e
<1>1. Settled(e) /\ Reviewing(v, e)
  BY DEF FactsInv, OneAtATime, Reviewing
<1>2. review[v].dispute \in Disputes /\ Concerns(review[v].dispute, e)
  BY DEF FactsInv, ConsentInv, LedgerTypeOK, Loads, DisputesRefer
<1>3. Pending(review[v].dispute, e)
  BY <1>1, <1>2 DEF Settled, Concerns, Pending
<1> QED
  BY <1>1, <1>2, <1>3 DEF Settled

\* Resolving dispute b of e by review v disturbs no other entry, nor b any other review.
LEMMA OthersSettled ==
    ASSUME FactsInv, NEW v \in Reviews, NEW e \in Entries, NEW b \in Disputes,
           review[v] # NoOne, e = review[v].entry, b = review[v].dispute,
           \A c \in Disputes : /\ dispute'[c] = IF c = b THEN "closed" ELSE dispute[c]
                               /\ about'[c] = IF c = b THEN NoOne ELSE about[c],
           \A u \in Reviews : review'[u] = IF u = v THEN NoOne ELSE review[u],
           NEW x \in Entries \ muddled, Settled(x)
    PROVE  /\ \A d \in Disputes : Pending(d, x)' => Pending(d, x) /\ d # b
           /\ \A u \in Reviews : Reviewing(u, x)' =>
                /\ Reviewing(u, x) /\ u # v
                /\ dispute[review[u].dispute] = "open" => dispute'[review'[u].dispute] = "open"
<1>1. \A d \in Disputes : Pending(d, x)' => Pending(d, x) /\ d # b
  BY DEF Pending
<1>2. ASSUME NEW u \in Reviews, Reviewing(u, x)'
      PROVE  Reviewing(u, x) /\ u # v /\ review'[u] = review[u]
  BY <1>2 DEF Reviewing
<1>3. ASSUME NEW u \in Reviews, Reviewing(u, x), u # v, review[u].dispute = b,
             dispute[review[u].dispute] = "open"
      PROVE  FALSE
  <2>1. Concerns(b, e) /\ Concerns(b, x)
    BY <1>3 DEF FactsInv, ConsentInv, DisputesRefer, Reviewing
  <2>2. e = x
    BY <1>3, <2>1 DEF Concerns
  <2>3. Reviewing(v, x)
    BY <2>2 DEF Reviewing
  <2>4. \A p, q \in Reviews : Reviewing(p, x) /\ Reviewing(q, x) => p = q
    BY DEF Settled
  <2> QED
    BY <1>3, <2>3, <2>4
<1>4. \A u \in Reviews : review[u] # NoOne => review[u].dispute \in Disputes
  BY DEF FactsInv, ConsentInv, LedgerTypeOK, Loads
<1> QED
  BY <1>1, <1>2, <1>3, <1>4 DEF Reviewing

LEMMA OneAtATimeKept ==
    FactsInv /\ LedgerTypeOK' /\ [LedgerNext]_ledgerVars => OneAtATime'
<1> SUFFICES ASSUME FactsInv, LedgerTypeOK', [LedgerNext]_ledgerVars PROVE OneAtATime'
  OBVIOUS
<1>a. LedgerTypeOK /\ ConsentInv /\ OneAtATime
  BY DEF FactsInv, ConsentInv
<1> DEFINE Quiet == UNCHANGED <<entry, corrects, dispute, about, review, muddled>>
<1>b. Quiet => OneAtATime'
  BY <1>a DEF OneAtATime, Settled, Pending, Reviewing, Stored
<1>1. ASSUME NEW e \in Entries, entry[e] \in {"none", "checked"},
             \A x \in Entries \ {e} : entry'[x] = entry[x],
             UNCHANGED <<corrects, dispute, about, review, muddled>>
      PROVE  OneAtATime'
  <2> SUFFICES ASSUME NEW x \in Entries \ muddled, Stored(x)' PROVE Settled(x)'
    BY <1>1 DEF OneAtATime
  <2>1. CASE x = e
    BY <1>a, <1>1, <2>1, UnknownEntry DEF Settled, Pending, Reviewing
  <2>2. CASE x # e
    BY <1>a, <1>1, <2>2 DEF OneAtATime, Settled, Pending, Reviewing, Stored
  <2> QED
    BY <2>1, <2>2
<1>2. ASSUME NEW e \in Entries, NEW by \in Attesters \cup {Self},
             AddEntry(e, by) \/ CheckCareEntry(e, by)
      PROVE  OneAtATime'
  BY <1>1, <1>2, <1>a DEF AddEntry, CheckCareEntry, Fresh, LedgerTypeOK
<1>3. ASSUME NEW e \in Entries, InsertCareEntry(e) PROVE OneAtATime'
  BY <1>1, <1>3, <1>a DEF InsertCareEntry, LedgerTypeOK
<1>4. ASSUME NEW es \in SUBSET Entries, Erase(es), UNCHANGED review,
             \A d \in Disputes :
               \/ dispute'[d] = dispute[d] /\ about'[d] = about[d]
               \/ dispute'[d] = "closed" /\ dispute[d] = "open" /\ about[d] \in es
      PROVE  OneAtATime'
  <2> SUFFICES ASSUME NEW x \in Entries \ muddled', Stored(x)' PROVE Settled(x)'
    BY DEF OneAtATime
  <2>1. x \notin es /\ x \notin muddled /\ entry'[x] = entry[x] /\ Stored(x)
    BY <1>4 DEF Erase, Stored
  <2>2. Settled(x)
    BY <1>a, <2>1 DEF OneAtATime
  <2>3. \A f \in Entries : corrects'[f] = x => corrects[f] = x
    BY <1>4, LedgerAssumption DEF Erase
  <2>4. \A d \in Disputes : Pending(d, x)' => Pending(d, x)
    BY <1>4 DEF Pending
  <2>5. ASSUME NEW v \in Reviews, Reviewing(v, x), dispute[review[v].dispute] = "open"
        PROVE  dispute'[review[v].dispute] = "open"
    <3>1. review[v].dispute \in Disputes /\ Concerns(review[v].dispute, x)
      BY <1>a, <2>5 DEF ConsentInv, LedgerTypeOK, Loads, DisputesRefer, Reviewing
    <3> QED
      BY <1>4, <2>1, <2>5, <3>1 DEF Concerns
  <2> QED
    BY <1>4, <2>1, <2>2, <2>3, <2>4, <2>5, SettledStays DEF Reviewing
<1>5. ASSUME NEW e \in Entries, DeleteSelfReported(e) PROVE OneAtATime'
  BY <1>4, <1>5 DEF DeleteSelfReported
<1>6. CASE Grant \/ ReadFactorEntries \/ FailToRevoke
  BY <1>6, <1>b DEF Grant, ReadFactorEntries, FailToRevoke, ledgerRows
<1>7. CASE Revoke
  <2>1. erasing \in SUBSET Entries /\ Erase(erasing) /\ UNCHANGED review
    BY <1>7, <1>a DEF Revoke, LedgerTypeOK
  <2>2. \A d \in Disputes :
          \/ dispute'[d] = dispute[d] /\ about'[d] = about[d]
          \/ dispute'[d] = "closed" /\ dispute[d] = "open" /\ about[d] \in erasing
    BY <1>7, <1>a DEF Revoke, LedgerTypeOK
  <2> QED
    BY <1>4, <2>1, <2>2
<1>8. ASSUME NEW d \in Disputes, OpenDispute(d) PROVE OneAtATime'
  <2> SUFFICES ASSUME NEW x \in Entries \ muddled, Stored(x) PROVE Settled(x)'
    BY <1>8 DEF OneAtATime, OpenDispute, Stored
  <2>1. \A c \in Disputes : Pending(c, x)' => Pending(c, x)
    BY <1>8, <1>a DEF OpenDispute, Close, LedgerTypeOK, Pending
  <2>2. \A c \in Disputes : dispute[c] = "open" => dispute'[c] = "open"
    BY <1>8, <1>a DEF OpenDispute, Close, LedgerTypeOK
  <2>3. \A v \in Reviews : review[v] # NoOne => review[v].dispute \in Disputes
    BY <1>a DEF LedgerTypeOK, Loads
  <2> QED
    BY <1>8, <1>a, <2>1, <2>2, <2>3, SettledStays DEF OneAtATime, OpenDispute, Reviewing
<1>9. ASSUME NEW d \in Disputes, NEW e \in Entries, CheckDispute(d, e) PROVE OneAtATime'
  BY <1>9, LedgerAssumption
  DEF CheckDispute, Noted, Handling, FactsInv, ConsentInv, LedgerTypeOK, OneAtATime, Settled,
      Pending, Reviewing, DisputesRefer, Disputable, Concerns, EntriesHangTogether, Stored
<1>10. ASSUME NEW v \in Reviews, NEW d \in Disputes, NEW by \in Attesters,
              LoadDispute(v, d, by)
       PROVE  OneAtATime'
  BY <1>10, LedgerAssumption
  DEF LoadDispute, Noted, Handling, ledgerRows, FactsInv, ConsentInv, LedgerTypeOK, OneAtATime,
      Settled, Pending, Reviewing, DisputesRefer, Disputable, Concerns, Stored
<1>11. ASSUME NEW v \in Reviews, NEW o \in {"removed", "rejected"}, Resolve(v, o)
       PROVE  OneAtATime'
  <2>1. PICK e \in Entries, b \in Disputes : Resolved(v, o, e, b)
    BY <1>11, <1>a, ResolveEffect
  <2> SUFFICES ASSUME NEW x \in Entries \ muddled, Stored(x)' PROVE Settled(x)'
    BY <2>1 DEF OneAtATime, Resolved
  <2>2. Stored(x) /\ Settled(x)
    BY <1>a, <2>1 DEF Resolved, Stored, OneAtATime
  <2>3. /\ \A d \in Disputes : Pending(d, x)' => Pending(d, x) /\ d # b
        /\ \A u \in Reviews : Reviewing(u, x)' =>
             /\ Reviewing(u, x) /\ u # v
             /\ dispute[review[u].dispute] = "open" => dispute'[review'[u].dispute] = "open"
    BY <2>1, <2>2, OthersSettled DEF Resolved
  <2>4. CASE x # e
    BY <2>1, <2>2, <2>3, <2>4, SettledStays DEF Resolved
  <2>5. CASE x = e
    <3>1. /\ \A d \in Disputes : ~Pending(d, x)' /\ \A u \in Reviews : ~Reviewing(u, x)'
          /\ \A f \in Entries : corrects[f] # x
      BY <2>1, <2>2, <2>3, <2>5, OneReview DEF Resolved
    <3> QED
      BY <2>1, <3>1 DEF Settled, Resolved
  <2> QED
    BY <2>4, <2>5
<1>12. ASSUME NEW v \in Reviews, NEW f \in Entries, Correct(v, f) PROVE OneAtATime'
  <2>1. PICK e \in Entries, b \in Disputes : Corrected(v, f, e, b)
    BY <1>12, <1>a, CorrectEffect
  <2> SUFFICES ASSUME NEW x \in Entries \ muddled, Stored(x)' PROVE Settled(x)'
    BY <2>1 DEF OneAtATime, Corrected
  <2>2. CASE x = f
    <3>1. /\ \A d \in Disputes : ~Pending(d, x)' /\ \A u \in Reviews : ~Reviewing(u, x)'
          /\ \A g \in Entries : corrects'[g] # x
      BY <1>a, <2>1, <2>2, UnknownEntry, LedgerAssumption DEF Corrected, Pending, Reviewing
    <3> QED
      BY <3>1 DEF Settled
  <2>3. CASE x # f
    <3>1. Stored(x) /\ Settled(x)
      BY <1>a, <2>1, <2>3 DEF Corrected, Stored, OneAtATime
    <3>2. /\ \A d \in Disputes : Pending(d, x)' => Pending(d, x) /\ d # b
          /\ \A u \in Reviews : Reviewing(u, x)' =>
               /\ Reviewing(u, x) /\ u # v
               /\ dispute[review[u].dispute] = "open" => dispute'[review'[u].dispute] = "open"
      BY <2>1, <3>1, OthersSettled DEF Corrected
    <3>3. CASE x # e
      BY <2>1, <2>3, <3>1, <3>2, <3>3, SettledStays DEF Corrected
    <3>4. CASE x = e
      <4>1. /\ \A d \in Disputes : ~Pending(d, x)' /\ \A u \in Reviews : ~Reviewing(u, x)'
            /\ \A g \in Entries : corrects[g] # x
        BY <2>1, <3>1, <3>2, <3>4, OneReview DEF Corrected
      <4>2. \A g \in Entries : corrects'[g] = x => g = f
        BY <2>1, <4>1 DEF Corrected
      <4>3. entry'[x] # "active"
        BY <2>1, <3>4 DEF Corrected
      <4> QED
        BY <4>1, <4>2, <4>3 DEF Settled
    <3> QED
      BY <3>3, <3>4
  <2> QED
    BY <2>2, <2>3
<1>13. ASSUME NEW v \in Reviews, AbandonReview(v) PROVE OneAtATime'
  BY <1>13, <1>a DEF AbandonReview, ledgerRows, LedgerTypeOK, OneAtATime, Settled, Pending,
     Reviewing, Stored
<1>14. CASE UNCHANGED ledgerVars
  BY <1>14, <1>b DEF ledgerVars, ledgerRows
<1> QED
  BY <1>2, <1>3, <1>5, <1>6, <1>7, <1>8, <1>9, <1>10, <1>11, <1>12, <1>13, <1>14
  DEF LedgerNext

-----------------------------------------------------------------------------
LEMMA FactsInvKept == FactsInv /\ [LedgerNext]_ledgerVars => FactsInv'
BY LedgerNextType, HangTogetherKept, SeesAllKept, DisputesReferKept, ConsentHoldsKept,
   OneAtATimeKept DEF FactsInv, ConsentInv

LEMMA FactsInvInit == LedgerInit => FactsInv
<1> SUFFICES ASSUME LedgerInit PROVE FactsInv
  OBVIOUS
<1>1. LedgerTypeOK
  BY LedgerInitType
<1>2. EntriesHangTogether /\ RevocationSeesAll /\ DisputesRefer /\ ConsentHolds
  BY DEF LedgerInit, EntriesHangTogether, RevocationSeesAll, DisputesRefer, ConsentHolds, Stored
<1>3. OneAtATime
  BY DEF LedgerInit, OneAtATime, Stored
<1> QED
  BY <1>1, <1>2, <1>3 DEF FactsInv, ConsentInv

\* Whatever overlaps with a revocation, afterwards there is no care entry but one that
\* was inserted behind it, or corrects such a one.
THEOREM ConsentHoldsAlways == LedgerSpec => []ConsentHolds
<1>1. FactsInv => ConsentHolds
  BY DEF FactsInv, ConsentInv
<1> QED
  BY <1>1, FactsInvInit, FactsInvKept, PTL DEF LedgerSpec

\* An entry has one correction at most and does not count beside it, as long as no two
\* requests about its disputes overlap, whatever happens to other entries.
THEOREM FactsCountOnceAlways == LedgerSpec => []FactsCountOnce
<1>1. ASSUME FactsInv, NEW e \in Entries \ muddled PROVE
        LET corrections == {f \in Entries : Stored(f) /\ corrects[f] = e}
        IN  Cardinality(corrections) <= 1 /\ (corrections # {} => e \notin Counted)
  <2> DEFINE corrections == {f \in Entries : Stored(f) /\ corrects[f] = e}
  <2>1. CASE corrections = {}
    BY <2>1, FS_EmptySet
  <2>2. CASE corrections # {}
    <3>1. PICK f \in Entries : corrects[f] = e
      BY <2>2
    <3>2. Stored(e)
      BY <1>1, <3>1, LedgerAssumption DEF FactsInv, ConsentInv, EntriesHangTogether
    <3>3. Settled(e)
      BY <1>1, <3>2 DEF FactsInv, OneAtATime
    <3>4. corrections = {f}
      BY <2>2, <3>1, <3>3 DEF Settled
    <3>5. Cardinality(corrections) = 1
      BY <3>4, FS_Singleton
    <3>6. e \notin Counted
      BY <3>1, <3>3 DEF Settled, Counted
    <3> QED
      BY <3>5, <3>6
  <2> QED
    BY <2>1, <2>2
<1>2. FactsInv => FactsCountOnce
  BY <1>1 DEF FactsCountOnce
<1> QED
  BY <1>2, FactsInvInit, FactsInvKept, PTL DEF LedgerSpec

-----------------------------------------------------------------------------
(* The allocation request: types. *)

\* Every variable keeps its type in every behaviour of an allocation request.
THEOREM AllocationTypeCorrect == AllocationSpec => []AllocationTypeOK
<1>1. AllocationInit => AllocationTypeOK
  <2>1. AllocationInit => crossed \in BOOLEAN /\ heard \in BOOLEAN
    BY Zenon DEF AllocationInit
  <2> QED
    BY <2>1 DEF AllocationInit, AllocationTypeOK
<1>2. AllocationTypeOK /\ [AllocationNext]_allocationVars => AllocationTypeOK'
  <2> SUFFICES ASSUME AllocationTypeOK, [AllocationNext]_allocationVars
               PROVE  AllocationTypeOK'
    OBVIOUS
  <2> USE DEF AllocationTypeOK, Decisions
  <2>1. CASE StoreSnapshot
    BY <2>1 DEF StoreSnapshot
  <2>2. CASE InsertRequest
    BY <2>2 DEF InsertRequest
  <2>3. ASSUME NEW a \in Appeals, CheckAppeal(a) PROVE AllocationTypeOK'
    BY <2>3 DEF CheckAppeal
  <2>4. ASSUME NEW a \in Appeals, LodgeAppeal(a) PROVE AllocationTypeOK'
    BY <2>4 DEF LodgeAppeal
  <2>5. ASSUME NEW h \in Handlers, NEW by \in Reviewers, NEW op \in {"decide", "resolve"},
               NEW a \in Appeals \cup {Nobody}, Start(h, by, op, a)
        PROVE  AllocationTypeOK'
    <3>1. [op |-> op, by |-> by, appeal |-> a, request |-> request,
           decidedBy |-> decidedBy] \in Held
      BY <2>5 DEF Start, Held
    <3> QED
      BY <2>5, <3>1 DEF Start, allocationRows
  <2>6. ASSUME NEW h \in Handlers, NEW d \in Decisions, Decide(h, d)
        PROVE  AllocationTypeOK'
    <3>1. handler[h] \in Held
      BY <2>6 DEF Decide
    <3> QED
      BY <2>6, <3>1 DEF Decide, Changed, Held
  <2>7. ASSUME NEW h \in Handlers, NEW o \in {"upheld", "rejected"}, ResolveAppeal(h, o)
        PROVE  AllocationTypeOK'
    <3>1. handler[h] \in Held
      BY <2>7 DEF ResolveAppeal
    <3> QED
      BY <2>7, <3>1 DEF ResolveAppeal, Resolution, Changed, Held
  <2>8. CASE UNCHANGED allocationVars
    BY <2>8 DEF allocationVars, allocationRows
  <2> QED
    BY <2>1, <2>2, <2>3, <2>4, <2>5, <2>6, <2>7, <2>8
    DEF AllocationNext, LoadRequest, LoadAppeal
<1> QED
  BY <1>1, <1>2, PTL DEF AllocationSpec

-----------------------------------------------------------------------------
(* The allocation request: the invariant behind AppealStands. *)

Resolving(h, a) == handler[h] # Nobody /\ handler[h].op = "resolve" /\ handler[h].appeal = a

\* Until somebody decides again, decided_by is whom the appeal is against, and who
\* is about to resolve it is somebody else.
IndependenceKept ==
    \A a \in Appeals \ redecided :
      appeal[a] # "none" /\ against[a] # Nobody =>
        /\ decidedBy = against[a]
        /\ \A h \in Handlers : Resolving(h, a) => handler[h].by # against[a]

\* A resolution speaks of an appeal that has been lodged.
ResolutionsRefer ==
    \A h \in Handlers : handler[h] # Nobody /\ handler[h].op = "resolve" =>
      handler[h].appeal \in Appeals /\ appeal[handler[h].appeal] # "none"

\* Unless they have crossed, decisions and resolutions are not in flight together, so
\* that a resolution that loaded a reopened request finds it so.
ApartUntilCrossed ==
    ~crossed =>
      /\ \A g, h \in Handlers : handler[g] # Nobody /\ handler[h] # Nobody =>
           handler[g].op = handler[h].op
      /\ \A h \in Handlers :
           /\ handler[h] # Nobody /\ handler[h].op = "resolve"
           /\ handler[h].request = "reopened"
           => request = "reopened"

AllocationInv ==
    /\ AllocationTypeOK
    /\ IndependenceKept /\ ResolutionsRefer /\ ApartUntilCrossed
    /\ AppealIsIndependent /\ UpheldIsHeard

LEMMA AllocationInit_Inv == AllocationInit /\ AllocationTypeOK => AllocationInv
<1> SUFFICES ASSUME AllocationInit, AllocationTypeOK PROVE AllocationInv
  OBVIOUS
<1>1. UpheldIsHeard
  BY Zenon DEF AllocationInit, UpheldIsHeard
<1>2. IndependenceKept /\ ResolutionsRefer /\ ApartUntilCrossed /\ AppealIsIndependent
  BY DEF AllocationInit, IndependenceKept, ResolutionsRefer, ApartUntilCrossed,
         AppealIsIndependent, Resolving
<1> QED
  BY <1>1, <1>2 DEF AllocationInv

LEMMA StartKeepsInv ==
    ASSUME AllocationInv, AllocationTypeOK', NEW h \in Handlers, NEW by \in Reviewers,
           NEW op \in {"decide", "resolve"}, NEW a \in Appeals \cup {Nobody},
           Start(h, by, op, a),
           op = "resolve" => a \in Appeals /\ appeal[a] = "open" /\ decidedBy # by
    PROVE  AllocationInv'
<1> DEFINE held == [op |-> op, by |-> by, appeal |-> a, request |-> request,
                    decidedBy |-> decidedBy]
<1> USE DEF AllocationInv
<1>1. /\ handler' = [handler EXCEPT ![h] = held]
      /\ handler[h] = Nobody /\ request # "none"
      /\ crossed' = (crossed \/ \E g \in Handlers : handler[g] # Nobody /\ handler[g].op # op)
      /\ UNCHANGED <<snapshots, request, decidedBy, appeal, resolvedBy, against, redecided, heard>>
  BY DEF Start, allocationRows
<1>2. /\ \A g \in Handlers : handler'[g] = IF g = h THEN held ELSE handler[g]
      /\ held.op = op /\ held.by = by /\ held.appeal = a /\ held.request = request
  BY <1>1 DEF AllocationTypeOK
<1> HIDE DEF held
<1>3. IndependenceKept'
  BY <1>1, <1>2 DEF IndependenceKept, Resolving
<1>4. ResolutionsRefer'
  BY <1>1, <1>2 DEF ResolutionsRefer
<1>5. ApartUntilCrossed'
  <2> SUFFICES ASSUME ~crossed' PROVE ApartUntilCrossed'
    BY Zenon DEF ApartUntilCrossed
  <2>1. ~crossed /\ \A g \in Handlers : handler[g] # Nobody => handler[g].op = op
    BY <1>1, Zenon
  <2>2. /\ \A f, g \in Handlers : handler[f] # Nobody /\ handler[g] # Nobody =>
             handler[f].op = handler[g].op
        /\ \A g \in Handlers :
             handler[g] # Nobody /\ handler[g].op = "resolve" /\ handler[g].request = "reopened"
             => request = "reopened"
    BY <2>1, Zenon DEF ApartUntilCrossed
  <2> QED
    BY <1>1, <1>2, <2>1, <2>2 DEF ApartUntilCrossed
<1>6. AppealIsIndependent' /\ UpheldIsHeard'
  BY <1>1 DEF AppealIsIndependent, UpheldIsHeard
<1> QED
  BY <1>3, <1>4, <1>5, <1>6

LEMMA DecideKeepsInv ==
    ASSUME AllocationInv, AllocationTypeOK', NEW h \in Handlers, NEW d \in Decisions,
           Decide(h, d)
    PROVE  AllocationInv'
<1> USE DEF AllocationInv
<1>1. /\ handler[h] # Nobody /\ handler[h].op = "decide"
      /\ handler' = [handler EXCEPT ![h] = Nobody]
      /\ heard' = TRUE
      /\ redecided' = redecided \cup {a \in Appeals : appeal[a] # "none"}
      /\ UNCHANGED <<snapshots, appeal, resolvedBy, against, crossed>>
  BY DEF Decide
<1>2. \A g \in Handlers : handler'[g] = IF g = h THEN Nobody ELSE handler[g]
  BY <1>1 DEF AllocationTypeOK
<1>3. IndependenceKept' /\ AppealIsIndependent'
  BY <1>1 DEF IndependenceKept, AppealIsIndependent, AllocationTypeOK
<1>4. ResolutionsRefer'
  BY <1>1, <1>2 DEF ResolutionsRefer
<1>5. ApartUntilCrossed'
  BY <1>1, <1>2 DEF ApartUntilCrossed
<1>6. UpheldIsHeard'
  BY <1>1 DEF UpheldIsHeard
<1> QED
  BY <1>3, <1>4, <1>5, <1>6

LEMMA ResolveKeepsInv ==
    ASSUME AllocationInv, AllocationTypeOK', NEW h \in Handlers,
           NEW o \in {"upheld", "rejected"}, ResolveAppeal(h, o)
    PROVE  AllocationInv'
<1> USE DEF AllocationInv
<1> DEFINE b == handler[h].appeal
<1>1. /\ handler[h] # Nobody /\ handler[h].op = "resolve"
      /\ b \in Appeals /\ appeal[b] # "none"
      /\ appeal' = [appeal EXCEPT ![b] = o]
      /\ resolvedBy' = [resolvedBy EXCEPT ![b] = handler[h].by]
      /\ request' = IF o = "upheld" /\ handler[h].request # "reopened" THEN "reopened"
                                                                       ELSE request
      /\ handler' = [handler EXCEPT ![h] = Nobody]
      /\ heard' = (heard /\ o # "upheld")
      /\ UNCHANGED <<snapshots, decidedBy, against, redecided, crossed>>
  BY DEF ResolveAppeal, Resolution, Changed, ResolutionsRefer
<1>2. /\ \A g \in Handlers : handler'[g] = IF g = h THEN Nobody ELSE handler[g]
      /\ \A a \in Appeals : /\ appeal'[a] = IF a = b THEN o ELSE appeal[a]
                            /\ resolvedBy'[a] = IF a = b THEN handler[h].by ELSE resolvedBy[a]
  BY <1>1 DEF AllocationTypeOK
<1>3. Resolving(h, b)
  BY <1>1 DEF Resolving
<1> HIDE DEF b
<1>4. IndependenceKept'
  BY <1>1, <1>2 DEF IndependenceKept, Resolving
<1>5. ResolutionsRefer'
  BY <1>1, <1>2 DEF ResolutionsRefer
<1>6. ApartUntilCrossed'
  BY <1>1, <1>2 DEF ApartUntilCrossed
<1>7. AppealIsIndependent'
  BY <1>1, <1>2, <1>3 DEF AppealIsIndependent, IndependenceKept
<1>8. UpheldIsHeard'
  BY <1>1 DEF UpheldIsHeard, ApartUntilCrossed
<1> QED
  BY <1>4, <1>5, <1>6, <1>7, <1>8

LEMMA AllocationNext_Inv ==
    AllocationInv /\ AllocationTypeOK' /\ [AllocationNext]_allocationVars => AllocationInv'
<1> SUFFICES ASSUME AllocationInv, AllocationTypeOK', [AllocationNext]_allocationVars
             PROVE  AllocationInv'
  OBVIOUS
<1> USE DEF AllocationInv
<1>1. CASE StoreSnapshot \/ InsertRequest
  BY <1>1 DEF StoreSnapshot, InsertRequest, IndependenceKept, ResolutionsRefer,
     ApartUntilCrossed, AppealIsIndependent, UpheldIsHeard, Resolving
<1>2. ASSUME NEW a \in Appeals, CheckAppeal(a) PROVE AllocationInv'
  <2>1. \A h \in Handlers : ~Resolving(h, a)
    BY <1>2 DEF CheckAppeal, ResolutionsRefer, Resolving
  <2> QED
    BY <1>2, <2>1 DEF CheckAppeal, IndependenceKept, ResolutionsRefer, ApartUntilCrossed,
       AppealIsIndependent, UpheldIsHeard, AllocationTypeOK, Resolving
<1>3. ASSUME NEW a \in Appeals, LodgeAppeal(a) PROVE AllocationInv'
  BY <1>3 DEF LodgeAppeal, IndependenceKept, ResolutionsRefer, ApartUntilCrossed,
     AppealIsIndependent, UpheldIsHeard, AllocationTypeOK, Resolving
<1>4. ASSUME NEW h \in Handlers, NEW by \in Reviewers, LoadRequest(h, by)
      PROVE  AllocationInv'
  BY <1>4, StartKeepsInv DEF LoadRequest
<1>5. ASSUME NEW h \in Handlers, NEW by \in Reviewers, NEW a \in Appeals, LoadAppeal(h, by, a)
      PROVE  AllocationInv'
  BY <1>5, StartKeepsInv DEF LoadAppeal
<1>6. ASSUME NEW h \in Handlers, NEW d \in Decisions, Decide(h, d) PROVE AllocationInv'
  BY <1>6, DecideKeepsInv
<1>7. ASSUME NEW h \in Handlers, NEW o \in {"upheld", "rejected"}, ResolveAppeal(h, o)
      PROVE  AllocationInv'
  BY <1>7, ResolveKeepsInv
<1>8. CASE UNCHANGED allocationVars
  BY <1>8 DEF allocationVars, allocationRows, IndependenceKept, ResolutionsRefer,
     ApartUntilCrossed, AppealIsIndependent, UpheldIsHeard, Resolving
<1> QED
  BY <1>1, <1>2, <1>3, <1>4, <1>5, <1>6, <1>7, <1>8 DEF AllocationNext

\* Whatever overlaps, an appeal is resolved by someone other than whom it was lodged
\* against, unless the request is decided again meanwhile; and an upheld one sends the
\* request back, unless a decision and a resolution were in flight at once.
THEOREM AppealStandsHolds == AllocationSpec => []AppealStands
<1>1. AllocationInv => AppealStands
  BY DEF AllocationInv, AppealStands
<1> QED
  BY <1>1, AllocationTypeCorrect, AllocationInit_Inv, AllocationNext_Inv, PTL
  DEF AllocationSpec

-----------------------------------------------------------------------------
(* The deletion of an account: what points at what, and in which order. *)

LEMMA KindsListed == Kinds = {
    "entry", "dispute", "consent", "snapshot", "request", "appeal", "asset", "evidence",
    "share", "run", "shareReceived", "proposal", "mapItem", "agreement", "wallet",
    "holding", "pledge", "transfer", "loan", "project", "projectOnAsset", "stake",
    "contribution", "offer", "supplier", "work", "invoice", "mandate", "agentMandate",
    "payment", "agent", "derived", "recomputation" }
BY DEF Kinds, PeopleRefers, ValueRefers, MapRefers, BridgeRefers, MandateRefers, AgentRefers

LEMMA RefersListed ==
    /\ Refers["entry"] = {"user"}  /\ Refers["dispute"] = {"user", "entry"}
    /\ Refers["consent"] = {"user"}  /\ Refers["snapshot"] = {"user"}
    /\ Refers["request"] = {"user", "snapshot"}  /\ Refers["appeal"] = {"user", "request"}
    /\ Refers["asset"] = {"user"}  /\ Refers["evidence"] = {"asset"}
    /\ Refers["share"] = {"asset"}  /\ Refers["run"] = {"asset"}
    /\ Refers["shareReceived"] = {"user"}  /\ Refers["proposal"] = {"asset"}
    /\ Refers["mapItem"] = {"user"}  /\ Refers["agreement"] = {"project"}
    /\ Refers["wallet"] = {"user"}  /\ Refers["holding"] = {"wallet"}
    /\ Refers["pledge"] = {"holding"}  /\ Refers["transfer"] = {"wallet"}
    /\ Refers["loan"] = {"user"}  /\ Refers["project"] = {"user"}
    /\ Refers["projectOnAsset"] = {"user", "asset"}  /\ Refers["stake"] = {"project"}
    /\ Refers["contribution"] = {"project"}  /\ Refers["offer"] = {"user"}
    /\ Refers["supplier"] = {"project"}  /\ Refers["work"] = {"user"}
    /\ Refers["invoice"] = {"work"}  /\ Refers["mandate"] = {"user"}
    /\ Refers["agentMandate"] = {"agent"}  /\ Refers["payment"] = {"user"}
    /\ Refers["agent"] = {"user"}  /\ Refers["derived"] = {"agent"}
    /\ Refers["recomputation"] = {"derived"}
BY DEF Refers, Kinds, PeopleRefers, ValueRefers, MapRefers, BridgeRefers, MandateRefers, AgentRefers

\* The statement that deletes the rows of a kind.
At == [
    appeal |-> 1, request |-> 2, snapshot |-> 3, dispute |-> 4, entry |-> 5, consent |-> 6,
    run |-> 7, share |-> 8, evidence |-> 9, asset |-> 10, shareReceived |-> 11,
    invoice |-> 12, supplier |-> 13, work |-> 13, contribution |-> 14, offer |-> 14,
    pledge |-> 15, transfer |-> 16, holding |-> 17, wallet |-> 18, loan |-> 19,
    stake |-> 20, project |-> 21, projectOnAsset |-> 21, recomputation |-> 22,
    derived |-> 23, agent |-> 24]

LEMMA StatementsListed ==
    /\ Len(Statements) = 24 /\ Replacing = 25 /\ Last = 26
    /\ \A i \in 1..24, k \in Kinds : k \in Statements[i] <=> k \in DOMAIN At /\ At[k] = i
<1>1. Len(Statements) = 24
  BY DEF Statements
<1>2. Replacing = 25 /\ Last = 26
  BY <1>1 DEF Replacing, Last
<1>3. \A k \in Kinds : k \in Statements[1] <=> k \in DOMAIN At /\ At[k] = 1
  BY KindsListed DEF Statements, At
<1>4. \A k \in Kinds : k \in Statements[2] <=> k \in DOMAIN At /\ At[k] = 2
  BY KindsListed DEF Statements, At
<1>5. \A k \in Kinds : k \in Statements[3] <=> k \in DOMAIN At /\ At[k] = 3
  BY KindsListed DEF Statements, At
<1>6. \A k \in Kinds : k \in Statements[4] <=> k \in DOMAIN At /\ At[k] = 4
  BY KindsListed DEF Statements, At
<1>7. \A k \in Kinds : k \in Statements[5] <=> k \in DOMAIN At /\ At[k] = 5
  BY KindsListed DEF Statements, At
<1>8. \A k \in Kinds : k \in Statements[6] <=> k \in DOMAIN At /\ At[k] = 6
  BY KindsListed DEF Statements, At
<1>9. \A k \in Kinds : k \in Statements[7] <=> k \in DOMAIN At /\ At[k] = 7
  BY KindsListed DEF Statements, At
<1>10. \A k \in Kinds : k \in Statements[8] <=> k \in DOMAIN At /\ At[k] = 8
  BY KindsListed DEF Statements, At
<1>11. \A k \in Kinds : k \in Statements[9] <=> k \in DOMAIN At /\ At[k] = 9
  BY KindsListed DEF Statements, At
<1>12. \A k \in Kinds : k \in Statements[10] <=> k \in DOMAIN At /\ At[k] = 10
  BY KindsListed DEF Statements, At
<1>13. \A k \in Kinds : k \in Statements[11] <=> k \in DOMAIN At /\ At[k] = 11
  BY KindsListed DEF Statements, At
<1>14. \A k \in Kinds : k \in Statements[12] <=> k \in DOMAIN At /\ At[k] = 12
  BY KindsListed DEF Statements, At
<1>15. \A k \in Kinds : k \in Statements[13] <=> k \in DOMAIN At /\ At[k] = 13
  BY KindsListed DEF Statements, At
<1>16. \A k \in Kinds : k \in Statements[14] <=> k \in DOMAIN At /\ At[k] = 14
  BY KindsListed DEF Statements, At
<1>17. \A k \in Kinds : k \in Statements[15] <=> k \in DOMAIN At /\ At[k] = 15
  BY KindsListed DEF Statements, At
<1>18. \A k \in Kinds : k \in Statements[16] <=> k \in DOMAIN At /\ At[k] = 16
  BY KindsListed DEF Statements, At
<1>19. \A k \in Kinds : k \in Statements[17] <=> k \in DOMAIN At /\ At[k] = 17
  BY KindsListed DEF Statements, At
<1>20. \A k \in Kinds : k \in Statements[18] <=> k \in DOMAIN At /\ At[k] = 18
  BY KindsListed DEF Statements, At
<1>21. \A k \in Kinds : k \in Statements[19] <=> k \in DOMAIN At /\ At[k] = 19
  BY KindsListed DEF Statements, At
<1>22. \A k \in Kinds : k \in Statements[20] <=> k \in DOMAIN At /\ At[k] = 20
  BY KindsListed DEF Statements, At
<1>23. \A k \in Kinds : k \in Statements[21] <=> k \in DOMAIN At /\ At[k] = 21
  BY KindsListed DEF Statements, At
<1>24. \A k \in Kinds : k \in Statements[22] <=> k \in DOMAIN At /\ At[k] = 22
  BY KindsListed DEF Statements, At
<1>25. \A k \in Kinds : k \in Statements[23] <=> k \in DOMAIN At /\ At[k] = 23
  BY KindsListed DEF Statements, At
<1>26. \A k \in Kinds : k \in Statements[24] <=> k \in DOMAIN At /\ At[k] = 24
  BY KindsListed DEF Statements, At
<1> QED
  BY <1>1, <1>2, <1>3, <1>4, <1>5, <1>6, <1>7, <1>8, <1>9, <1>10, <1>11, <1>12, <1>13, <1>14, <1>15,
     <1>16, <1>17, <1>18, <1>19, <1>20, <1>21, <1>22, <1>23, <1>24, <1>25, <1>26

\* Every statement comes before the ones that delete what its rows point at.
LEMMA OrderRespectsKeys ==
    ASSUME NEW k \in Kinds \ Unforeseen, NEW r \in Refers[k], r # "user"
    PROVE  k \in DOMAIN At /\ r \in DOMAIN At /\ At[k] <= At[r]
BY KindsListed, RefersListed DEF Unforeseen, At

LEMMA ForeseenIsDeleted ==
    ASSUME NEW k \in Kinds \ Unforeseen
    PROVE  k \in DOMAIN At /\ At[k] \in 1..24
BY KindsListed DEF Unforeseen, At

LEMMA NamesApart ==
    /\ "user" \notin Kinds /\ Kinds \cap Marks = {} /\ Pseudonymised \subseteq Marks
    /\ \A k \in Kinds : Refers[k] \subseteq Kinds \cup {"user"} /\ Refers[k] # {}
<1>1. "user" \notin Kinds
  BY KindsListed
<1>2. Kinds \cap Marks = {}
  BY KindsListed DEF Marks
<1>3. Pseudonymised \subseteq Marks
  BY DEF Pseudonymised, Marks
<1>4. \A k \in Kinds : Refers[k] \subseteq Kinds \cup {"user"} /\ Refers[k] # {}
  BY KindsListed, RefersListed
<1> QED
  BY <1>1, <1>2, <1>3, <1>4

\* What a deletion leaves when no row of it dangles: nothing, for every row leads to
\* the user over at most two others.
LEMMA NothingIsLeft ==
    ASSUME NEW R, NEW D, R \subseteq Kinds \cup {"user"}, "user" \in D,
           \A k \in R \cap Kinds : Refers[k] \subseteq R,
           \A k \in (R \cap Kinds) \ D : Refers[k] \cap D = {}
    PROVE  R \subseteq D
<1>1. ASSUME NEW k \in Kinds, NEW r \in Refers[k], r \in R => r \in D
      PROVE  k \in R => k \in D
  BY <1>1
<1>2. \A k \in {"entry", "dispute", "consent", "snapshot", "request", "appeal", "asset",
            "shareReceived", "mapItem", "wallet", "loan", "project", "projectOnAsset",
            "offer", "work", "mandate", "payment", "agent"} : k \in R => k \in D
  <2> SUFFICES ASSUME NEW k \in
            {"entry", "dispute", "consent", "snapshot", "request", "appeal", "asset",
            "shareReceived", "mapItem", "wallet", "loan", "project", "projectOnAsset",
            "offer", "work", "mandate", "payment", "agent"}
               PROVE  k \in R => k \in D
    OBVIOUS
  <2>1. k \in Kinds
    BY KindsListed
  <2>2. "user" \in Refers[k]
    BY RefersListed
  <2> QED
    BY <1>1, <2>1, <2>2
<1>3. "evidence" \in R => "evidence" \in D
  BY <1>1, <1>2, KindsListed, RefersListed
<1>4. "share" \in R => "share" \in D
  BY <1>1, <1>2, KindsListed, RefersListed
<1>5. "run" \in R => "run" \in D
  BY <1>1, <1>2, KindsListed, RefersListed
<1>6. "proposal" \in R => "proposal" \in D
  BY <1>1, <1>2, KindsListed, RefersListed
<1>7. "agreement" \in R => "agreement" \in D
  BY <1>1, <1>2, KindsListed, RefersListed
<1>8. "holding" \in R => "holding" \in D
  BY <1>1, <1>2, KindsListed, RefersListed
<1>9. "transfer" \in R => "transfer" \in D
  BY <1>1, <1>2, KindsListed, RefersListed
<1>10. "stake" \in R => "stake" \in D
  BY <1>1, <1>2, KindsListed, RefersListed
<1>11. "contribution" \in R => "contribution" \in D
  BY <1>1, <1>2, KindsListed, RefersListed
<1>12. "supplier" \in R => "supplier" \in D
  BY <1>1, <1>2, KindsListed, RefersListed
<1>13. "invoice" \in R => "invoice" \in D
  BY <1>1, <1>2, KindsListed, RefersListed
<1>14. "agentMandate" \in R => "agentMandate" \in D
  BY <1>1, <1>2, KindsListed, RefersListed
<1>15. "derived" \in R => "derived" \in D
  BY <1>1, <1>2, KindsListed, RefersListed
<1>16. "pledge" \in R => "pledge" \in D
  BY <1>1, <1>8, KindsListed, RefersListed
<1>17. "recomputation" \in R => "recomputation" \in D
  BY <1>1, <1>15, KindsListed, RefersListed
<1>18. \A k \in Kinds : k \in R => k \in D
  BY <1>2, <1>3, <1>4, <1>5, <1>6, <1>7, <1>8, <1>9, <1>10, <1>11, <1>12, <1>13, <1>14,
     <1>15, <1>16, <1>17, KindsListed
<1> QED
  BY <1>18

-----------------------------------------------------------------------------
(* The deletion of an account: its invariant. *)

\* What the first i statements delete.
DeletedBy(i) == {k \in Kinds : k \in DOMAIN At /\ At[k] <= i}

AccountInv ==
    /\ AccountTypeOK
    /\ \A k \in rows \cap Kinds : Refers[k] \subseteq rows
    /\ step = 0 => gone = {}
    /\ step # 0 => outcome = "none"
    /\ ~joined /\ step \in 1..Replacing => gone = rows \cap DeletedBy(step - 1)
    /\ ~joined /\ step = Last => gone = (rows \cap DeletedBy(24)) \cup (marks \cap Pseudonymised)
    /\ DeletionIsWhole

LEMMA DeletedByOne ==
    ASSUME NEW i \in 1..24, rows \subseteq Kinds \cup {"user"}
    PROVE  /\ (rows \cap DeletedBy(i - 1)) \cup (Statements[i] \cap rows) = rows \cap DeletedBy(i)
           /\ Statements[i] \cap rows \subseteq Kinds
<1>1. "user" \notin Statements[i]
  BY DEF Statements
<1>2. \A k \in Kinds : k \in DOMAIN At => At[k] \in Nat
  BY KindsListed DEF At
<1>3. \A k \in Kinds : k \in Statements[i] <=> k \in DOMAIN At /\ At[k] = i
  BY StatementsListed
<1>4. \A k \in Kinds : k \in DeletedBy(i) <=> k \in DeletedBy(i - 1) \/ k \in Statements[i]
  BY <1>2, <1>3 DEF DeletedBy
<1>5. DeletedBy(i) \subseteq Kinds /\ DeletedBy(i - 1) \subseteq Kinds
  BY DEF DeletedBy
<1> QED
  BY <1>1, <1>4, <1>5

\* As long as nothing joins, no statement leaves a row dangling but one of a kind
\* that is not deleted in time.
LEMMA NoneDangles ==
    ASSUME NEW i \in 1..24, rows \cap Unforeseen = {}
    PROVE  Dangling(rows \cap DeletedBy(i)) = {}
<1> SUFFICES ASSUME NEW k \in (rows \cap Kinds) \ DeletedBy(i),
                    NEW r \in Refers[k], r \in DeletedBy(i)
             PROVE  FALSE
  BY DEF Dangling
<1>1. k \in Kinds \ Unforeseen
  OBVIOUS
<1>2. r # "user"
  BY NamesApart DEF DeletedBy
<1>3. k \in DOMAIN At /\ At[k] \in 1..24 /\ At[k] <= At[r]
  BY <1>1, <1>2, OrderRespectsKeys, ForeseenIsDeleted
<1>4. r \in DOMAIN At /\ At[r] <= i /\ At[r] \in Nat
  BY <1>1, <1>2, KindsListed DEF DeletedBy, At
<1> QED
  BY <1>3, <1>4 DEF DeletedBy

LEMMA LastDangles ==
    ASSUME rows \cap Unforeseen = {}
    PROVE  Dangling((rows \cap DeletedBy(24)) \cup (marks \cap Pseudonymised) \cup {"user"}) = {}
<1> SUFFICES ASSUME NEW k \in rows \cap Kinds, k \notin DeletedBy(24) PROVE FALSE
  BY DEF Dangling
<1> QED
  BY ForeseenIsDeleted DEF DeletedBy

LEMMA AccountInitInv == AccountInit => AccountInv
<1> SUFFICES ASSUME AccountInit PROVE AccountInv
  OBVIOUS
<1>1. rows \cap Kinds = {} /\ joined \in BOOLEAN
  BY NamesApart DEF AccountInit
<1>2. AccountTypeOK
  BY <1>1, StatementsListed DEF AccountInit, AccountTypeOK
<1> QED
  BY <1>1, <1>2, StatementsListed DEF AccountInit, AccountInv, DeletionIsWhole

LEMMA AccountNextInv == AccountInv /\ [AccountNext]_accountVars => AccountInv'
<1> SUFFICES ASSUME AccountInv, [AccountNext]_accountVars PROVE AccountInv'
  OBVIOUS
<1>0. /\ AccountTypeOK /\ DeletionIsWhole /\ joined \in BOOLEAN /\ step \in 0..26
      /\ Len(Statements) = 24 /\ Replacing = 25 /\ Last = 26
      /\ rows \subseteq Kinds \cup {"user"} /\ marks \subseteq Marks
  BY StatementsListed DEF AccountInv, AccountTypeOK
<1>1. ASSUME NEW k \in Kinds, AddRow(k) PROVE AccountInv'
  <2>1. joined' \in BOOLEAN /\ (~joined' => ~joined /\ step = 0) /\ (joined => joined')
    BY <1>0, <1>1, Zenon DEF AddRow
  <2>2. /\ rows' = rows \cup {k} /\ Refers[k] \subseteq rows
        /\ marks' = marks /\ step' = step /\ gone' = gone /\ outcome' = outcome
    BY <1>1 DEF AddRow
  <2>3. AccountTypeOK'
    BY <1>0, <2>1, <2>2 DEF AccountTypeOK, Last, Replacing
  <2>4. \A j \in rows' \cap Kinds : Refers[j] \subseteq rows'
    BY <2>2 DEF AccountInv
  <2>5. DeletionIsWhole'
    <3>1. Refers[k] # {}
      BY NamesApart
    <3> QED
      BY <1>0, <2>1, <2>2, <3>1 DEF DeletionIsWhole
  <2> QED
    BY <1>0, <2>1, <2>2, <2>3, <2>4, <2>5 DEF AccountInv, Last, Replacing
<1>2. ASSUME NEW m \in Marks, AddMark(m) PROVE AccountInv'
  <2>1. joined' \in BOOLEAN /\ (~joined' => ~joined /\ step = 0) /\ (joined => joined')
    BY <1>0, <1>2, Zenon DEF AddMark
  <2>2. /\ marks' = marks \cup {m} /\ "user" \in rows
        /\ rows' = rows /\ step' = step /\ gone' = gone /\ outcome' = outcome
    BY <1>2 DEF AddMark
  <2>3. AccountTypeOK'
    BY <1>0, <2>1, <2>2 DEF AccountTypeOK, Last, Replacing
  <2>4. DeletionIsWhole'
    BY <1>0, <2>1, <2>2 DEF DeletionIsWhole
  <2> QED
    BY <1>0, <2>1, <2>2, <2>3, <2>4 DEF AccountInv, Last, Replacing
<1>3. ASSUME BeginDeletion PROVE AccountInv'
  <2>1. /\ step = 0 /\ step' = 1 /\ joined' = FALSE /\ outcome' = "none"
        /\ rows' = rows /\ marks' = marks /\ gone' = {}
    BY <1>3 DEF BeginDeletion, AccountInv
  <2>2. DeletedBy(0) = {}
    BY KindsListed DEF DeletedBy, At
  <2>3. AccountTypeOK'
    <3>1. joined' \in BOOLEAN
      BY <2>1, Zenon
    <3>2. step' \in 0..Last' /\ Last' = 26
      BY <1>0, <2>1 DEF Last, Replacing
    <3> QED
      BY <1>0, <2>1, <3>1, <3>2 DEF AccountTypeOK
  <2> QED
    BY <1>0, <2>1, <2>2, <2>3 DEF AccountInv, DeletionIsWhole, Last, Replacing
<1>4. ASSUME Delete PROVE AccountInv'
  <2>1. /\ step \in 1..24 /\ step' = step + 1 /\ gone' = gone \cup (Statements[step] \cap rows)
        /\ rows' = rows /\ marks' = marks /\ outcome' = outcome /\ joined' = joined
    BY <1>0, <1>4 DEF Delete
  <2>2. ~joined => gone' = rows \cap DeletedBy(step)
    <3>1. ~joined => gone = rows \cap DeletedBy(step - 1)
      BY <1>0, <2>1 DEF AccountInv
    <3> QED
      BY <1>0, <2>1, <3>1, DeletedByOne
  <2>3. AccountTypeOK'
    BY <1>0, <2>1, DeletedByOne DEF AccountTypeOK, Last, Replacing
  <2>4. step' - 1 = step /\ step' # Last
    BY <1>0, <2>1
  <2> QED
    BY <1>0, <2>1, <2>2, <2>3, <2>4 DEF AccountInv, DeletionIsWhole, Last, Replacing
<1>5. ASSUME ReplaceSubject PROVE AccountInv'
  <2>1. /\ step = 25 /\ step' = 26 /\ gone' = gone \cup (marks \cap Pseudonymised)
        /\ rows' = rows /\ marks' = marks /\ outcome' = outcome /\ joined' = joined
    BY <1>0, <1>5 DEF ReplaceSubject
  <2>2. ~joined => gone = rows \cap DeletedBy(24)
    BY <1>0, <2>1 DEF AccountInv
  <2>3. AccountTypeOK'
    BY <1>0, <2>1 DEF AccountTypeOK, Last, Replacing
  <2> QED
    BY <1>0, <2>1, <2>2, <2>3 DEF AccountInv, DeletionIsWhole, Last, Replacing
<1>6. ASSUME Commit PROVE AccountInv'
  <2>1. /\ step = 26 /\ Dangling(gone \cup {"user"}) = {} /\ rows' = (rows \ gone) \ {"user"}
        /\ marks' = marks \ gone /\ step' = 0 /\ gone' = {} /\ outcome' = "deleted"
        /\ joined' = joined
    BY <1>0, <1>6 DEF Commit
  <2>2. rows' = {}
    <3>1. \A k \in (rows \cap Kinds) \ (gone \cup {"user"}) :
            Refers[k] \cap (gone \cup {"user"}) = {}
      BY <2>1 DEF Dangling
    <3>2. \A k \in rows \cap Kinds : Refers[k] \subseteq rows
      BY DEF AccountInv
    <3>3. rows \subseteq gone \cup {"user"}
      BY <1>0, <3>1, <3>2, NothingIsLeft
    <3> QED
      BY <2>1, <3>3
  <2>3. ~joined => marks' \cap Pseudonymised = {}
    BY <1>0, <2>1 DEF AccountInv
  <2>4. AccountTypeOK'
    BY <1>0, <2>1, <2>2 DEF AccountTypeOK, Last, Replacing
  <2> QED
    BY <1>0, <2>1, <2>2, <2>3, <2>4 DEF AccountInv, DeletionIsWhole, Last, Replacing
<1>7. ASSUME Refuse PROVE AccountInv'
  <2>1. /\ step \in 1..26 /\ step' = 0 /\ gone' = {} /\ outcome' = "refused"
        /\ rows' = rows /\ marks' = marks /\ joined' = joined
    BY <1>0, <1>7 DEF Refuse
  <2>2. ASSUME ~joined, rows \cap Unforeseen = {} PROVE FALSE
    <3>1. CASE step \in 1..24 /\ Dangling(gone \cup (Statements[step] \cap rows)) # {}
      <4>1. gone = rows \cap DeletedBy(step - 1)
        BY <1>0, <2>2, <3>1 DEF AccountInv
      <4>2. gone \cup (Statements[step] \cap rows) = rows \cap DeletedBy(step)
        BY <1>0, <3>1, <4>1, DeletedByOne
      <4> QED
        BY <2>2, <3>1, <4>2, NoneDangles
    <3>2. CASE step = 26 /\ Dangling(gone \cup {"user"}) # {}
      <4>1. gone = (rows \cap DeletedBy(24)) \cup (marks \cap Pseudonymised)
        BY <1>0, <2>2, <3>2 DEF AccountInv
      <4> QED
        BY <2>2, <3>2, <4>1, LastDangles
    <3> QED
      BY <1>0, <1>7, <3>1, <3>2 DEF Refuse
  <2>3. AccountTypeOK'
    BY <1>0, <2>1 DEF AccountTypeOK, Last, Replacing
  <2> QED
    BY <1>0, <2>1, <2>2, <2>3 DEF AccountInv, DeletionIsWhole, Last, Replacing
<1>8. ASSUME UNCHANGED accountVars PROVE AccountInv'
  BY <1>8 DEF accountVars, AccountInv, AccountTypeOK, DeletionIsWhole, Last, Replacing
<1> QED
  BY <1>1, <1>2, <1>3, <1>4, <1>5, <1>6, <1>7, <1>8 DEF AccountNext

\* Every variable keeps its type in every behaviour of an account.
THEOREM AccountTypeCorrect == AccountSpec => []AccountTypeOK
<1>1. AccountInv => AccountTypeOK
  BY DEF AccountInv
<1> QED
  BY <1>1, AccountInitInv, AccountNextInv, PTL DEF AccountSpec

\* A deletion that succeeds leaves nothing that points at the person, whatever is
\* inserted while it runs; and one that nothing joins fails over no other rows than
\* those of the kinds that delete_account does not name in time.
THEOREM DeletionIsWholeHolds == AccountSpec => []DeletionIsWhole
<1>1. AccountInv => DeletionIsWhole
  BY DEF AccountInv
<1> QED
  BY <1>1, AccountInitInv, AccountNextInv, PTL DEF AccountSpec

-----------------------------------------------------------------------------
(* The parts side by side. *)

\* The parts share no state: a behaviour of the service is a behaviour of each.
LEMMA ServicesAreTheirParts ==
    ServicesSpec => /\ RegistrySpec /\ RecordsSpec /\ LedgerSpec /\ AllocationSpec
                    /\ AccountSpec /\ AssuranceSpec /\ SearchSpec /\ ExchangeSpec
<1>1. ServicesInit => /\ RegistryInit /\ RecordsInit /\ LedgerInit /\ AllocationInit
                      /\ AccountInit /\ AssuranceInit /\ SearchInit /\ ExchangeInit
  BY DEF ServicesInit
<1>2. ASSUME [ServicesNext]_allVars
      PROVE  /\ [RegistryNext]_registryVars /\ [RecordsNext]_recordsVars
             /\ [LedgerNext]_ledgerVars /\ [AllocationNext]_allocationVars
             /\ [AccountNext]_accountVars /\ [AssuranceNext]_assuranceVars
             /\ [SearchNext]_searchVars /\ [ExchangeNext]_exchangeVars
  <2>1. CASE UNCHANGED allVars
    BY <2>1 DEF allVars
  <2>2. CASE ServicesNext
    BY <2>2 DEF ServicesNext, ExchangeNext
  <2> QED
    BY <1>2, <2>1, <2>2
<1>3. [ServicesNext]_allVars => [RegistryNext]_registryVars
  BY <1>2
<1>4. [ServicesNext]_allVars => [RecordsNext]_recordsVars
  BY <1>2
<1>5. [ServicesNext]_allVars => [LedgerNext]_ledgerVars
  BY <1>2
<1>6. [ServicesNext]_allVars => [AllocationNext]_allocationVars
  BY <1>2
<1>7. [ServicesNext]_allVars => [AccountNext]_accountVars
  BY <1>2
<1>8. [ServicesNext]_allVars => [AssuranceNext]_assuranceVars
  BY <1>2
<1>9. [ServicesNext]_allVars => [SearchNext]_searchVars
  BY <1>2
<1>10. [ServicesNext]_allVars => [ExchangeNext]_exchangeVars
  BY <1>2
<1> QED
  BY <1>1, <1>3, <1>4, <1>5, <1>6, <1>7, <1>8, <1>9, <1>10, PTL
  DEF ServicesSpec, RegistrySpec, RecordsSpec, LedgerSpec, AllocationSpec, AccountSpec,
      AssuranceSpec, SearchSpec, ExchangeSpec

\* Every variable of every part keeps its type in every behaviour of the service: the
\* parts' theorems hold of the parts side by side.
THEOREM ServicesTypeCorrect == ServicesSpec => []TypeOK
<1>1. ServicesSpec => /\ []RegistryTypeOK /\ []RecordsTypeOK /\ []LedgerTypeOK
                      /\ []AllocationTypeOK /\ []AccountTypeOK /\ []AssuranceTypeOK
                      /\ []SearchTypeOK /\ []ExchangeTypeOK
  BY ServicesAreTheirParts, RegistryTypeCorrect, RecordsTypeCorrect, LedgerTypeCorrect,
     AllocationTypeCorrect, AccountTypeCorrect, AssuranceTypeCorrect, SearchTypeCorrect,
     ExchangeTypeCorrect
<1>2. TypeOK <=> /\ RegistryTypeOK /\ RecordsTypeOK /\ LedgerTypeOK /\ AllocationTypeOK
                 /\ AccountTypeOK /\ AssuranceTypeOK /\ SearchTypeOK /\ ExchangeTypeOK
  BY DEF TypeOK
<1> QED
  BY <1>1, <1>2, PTL

\* And what is promised of each part holds of all of them together.
THEOREM ServicesKeepTheirWord ==
    ServicesSpec => /\ [](/\ AccessIsAnsweredFor /\ RecordsAreReviewed /\ ConsentHolds
                          /\ FactsCountOnce /\ AppealStands /\ DeletionIsWhole
                          /\ EvidenceIsSettled /\ ProvenIsSigned /\ WordIsKept)
                    /\ ActsAsMandated /\ FindsEveryPath
  BY ServicesAreTheirParts, AccessIsAnsweredForHolds, RecordsAreReviewedHolds,
     ConsentHoldsAlways, FactsCountOnceAlways, AppealStandsHolds, DeletionIsWholeHolds,
     EvidenceIsSettledHolds, ActsAsMandatedHolds, ProvenIsSignedHolds, WordIsKeptHolds,
     FindsEveryPathHolds, PTL
==============================================================================
