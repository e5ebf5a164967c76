---------------------------- MODULE AgentRegistry ----------------------------
(***************************************************************************)
(* The register of agents and who may sign in (backend/app/agents/routes.py: *)
(* register, update_agent, agent_verify; agents/service.py:                 *)
(* check_can_register; api/routes/did_auth.py; core/auth.py).              *)
(*                                                                         *)
(* A person registers an agent and is its steward.  Whoever holds a DID's  *)
(* key signs a challenge and gets a session: at /agents/auth/verify as the *)
(* agent, at /auth/did/verify as a person, which no one compares with the  *)
(* register.  Name, contact and scopes of an agent decide nothing here and *)
(* are left out; so is the subject link that a person's sign-in inserts.   *)
(***************************************************************************)
EXTENDS Integers, FiniteSets

CONSTANTS
    Agents,             \* DIDs a steward may register
    Stewards,
    StewardOf,          \* StewardOf[a]: who asks to register a
    MaxAgents,          \* max_agents_per_steward
    Challenges,         \* challenges that can be handed out
    SignIns,            \* requests to sign in, and the sessions they insert
    NoClaim

ASSUME RegistryAssumption ==
    /\ StewardOf \in [Agents -> Stewards]
    /\ MaxAgents \in Nat
    /\ IsFiniteSet(Agents)

VARIABLES
    agent,        \* agent[a]: status of a's row, or none
    registering,  \* agents whose request has passed check_can_register
    offered,      \* challenges handed out so far
    challenges,   \* rows of did_challenges
    signin,       \* signin[x]: how far x is; live and ended are its session's
    claim,        \* claim[x]: what x presents, or NoClaim before
    \* --- history, read by properties only ---
    rivals,       \* agents registered while another of the steward's was being
    revived,      \* agents taken back from revoked
    outrun,       \* sign-ins that had passed the status check when it changed
    shared        \* sign-ins that met another one with the same challenge

registryHistory == <<rivals, revived, outrun, shared>>
registryVars == <<agent, registering, offered, challenges, signin, claim, registryHistory>>

-----------------------------------------------------------------------------
Claims == [did : Agents, challenge : Challenges, as : {"agent", "person"}]

RegistryTypeOK ==
    /\ agent \in [Agents -> {"none", "active", "suspended", "revoked"}]
    /\ registering \subseteq Agents
    /\ challenges \subseteq offered /\ offered \subseteq Challenges
    /\ signin \in [SignIns -> {"idle", "found", "spent", "checked", "refused",
                               "live", "ended"}]
    /\ claim \in [SignIns -> Claims \cup {NoClaim}]
    /\ rivals \subseteq Agents /\ revived \subseteq Agents
    /\ outrun \subseteq SignIns /\ shared \subseteq SignIns

RegistryInit ==
    /\ agent = [a \in Agents |-> "none"]
    /\ registering = {}
    /\ offered = {} /\ challenges = {}
    /\ signin = [x \in SignIns |-> "idle"]
    /\ claim = [x \in SignIns |-> NoClaim]
    /\ rivals = {} /\ revived = {} /\ outrun = {} /\ shared = {}

-----------------------------------------------------------------------------
(* The register. *)

Fellows(a)    == {b \in Agents : StewardOf[b] = StewardOf[a]}
Answerable(s) == {a \in Agents : StewardOf[a] = s /\ agent[a] \notin {"none", "revoked"}}

\* The DID is new and the steward has room ...
CheckCanRegister(a) ==
    /\ agent[a] = "none" /\ a \notin registering
    /\ Cardinality(Answerable(StewardOf[a])) < MaxAgents
    /\ registering' = registering \cup {a}
    /\ rivals' = IF registering \cap Fellows(a) = {} THEN rivals
                 ELSE rivals \cup {a} \cup (registering \cap Fellows(a))
    /\ UNCHANGED <<agent, offered, challenges, signin, claim, revived, outrun, shared>>

\* ... and the row is inserted, whatever was inserted since.
Register(a) ==
    /\ a \in registering
    /\ agent' = [agent EXCEPT ![a] = "active"]
    /\ registering' = registering \ {a}
    /\ UNCHANGED <<offered, challenges, signin, claim, registryHistory>>

\* Mutant of Update: the agent's sessions live on.
UpdateOnly(a, s) ==
    /\ agent[a] # "none"
    /\ agent' = [agent EXCEPT ![a] = s]
    /\ revived' = IF agent[a] = "revoked" /\ s # "revoked" THEN revived \cup {a} ELSE revived
    /\ outrun' = outrun \cup {x \in SignIns : signin[x] = "checked" /\ claim[x].did = a}
    /\ UNCHANGED <<registering, offered, challenges, signin, claim, rivals, shared>>

\* The steward or an admin sets any status; revoking and suspending end every
\* session of the DID, an agent's and a person's alike, in the same transaction.
Update(a, s) ==
    /\ agent[a] # "none"
    /\ agent' = [agent EXCEPT ![a] = s]
    /\ signin' = [x \in SignIns |->
         IF s # "active" /\ signin[x] = "live" /\ claim[x].did = a THEN "ended" ELSE signin[x]]
    /\ revived' = IF agent[a] = "revoked" /\ s # "revoked" THEN revived \cup {a} ELSE revived
    /\ outrun' = outrun \cup {x \in SignIns : signin[x] = "checked" /\ claim[x].did = a}
    /\ UNCHANGED <<registering, offered, challenges, claim, rivals, shared>>

-----------------------------------------------------------------------------
(* Signing in. *)

GetChallenge(c) ==
    /\ c \notin offered
    /\ offered' = offered \cup {c} /\ challenges' = challenges \cup {c}
    /\ UNCHANGED <<agent, registering, signin, claim, registryHistory>>

\* Sign-ins that have found challenge c and not yet deleted it.
Meeting(c) == {y \in SignIns : signin[y] = "found" /\ claim[y].challenge = c}

FindChallenge(x, c) ==
    /\ signin[x] = "idle" /\ c.challenge \in challenges
    /\ signin' = [signin EXCEPT ![x] = "found"]
    /\ claim' = [claim EXCEPT ![x] = c]
    /\ LET others == Meeting(c.challenge)
       IN  shared' = IF others = {} THEN shared ELSE shared \cup {x} \cup others
    /\ UNCHANGED <<agent, registering, offered, challenges, rivals, revived, outrun>>

\* A challenge is deleted whatever the outcome; deleting it twice is no error.
\* An expired one, or a wrong signature, is refused.
SpendChallenge(x) ==
    /\ signin[x] = "found"
    /\ challenges' = challenges \ {claim[x].challenge}
    /\ \E r \in {"spent", "refused"} : signin' = [signin EXCEPT ![x] = r]
    /\ UNCHANGED <<agent, registering, offered, claim, registryHistory>>

\* Only the agent's way in asks for the register's status.
CheckStatus(x) ==
    /\ signin[x] = "spent"
    /\ signin' = [signin EXCEPT ![x] =
         IF claim[x].as = "person" \/ agent[claim[x].did] = "active" THEN "checked"
                                                                     ELSE "refused"]
    /\ UNCHANGED <<agent, registering, offered, challenges, claim, registryHistory>>

OpenSession(x) ==
    /\ signin[x] = "checked"
    /\ signin' = [signin EXCEPT ![x] = "live"]
    /\ UNCHANGED <<agent, registering, offered, challenges, claim, registryHistory>>

\* Logging out, or the session's time is over.
EndSession(x) ==
    /\ signin[x] = "live"
    /\ signin' = [signin EXCEPT ![x] = "ended"]
    /\ UNCHANGED <<agent, registering, offered, challenges, claim, registryHistory>>

-----------------------------------------------------------------------------
RegistryNext ==
    \/ \E a \in Agents :
         \/ CheckCanRegister(a) \/ Register(a)
         \/ \E s \in {"active", "suspended", "revoked"} : Update(a, s)
    \/ \E c \in Challenges : GetChallenge(c)
    \/ \E x \in SignIns :
         \/ \E c \in Claims : FindChallenge(x, c)
         \/ SpendChallenge(x) \/ CheckStatus(x) \/ OpenSession(x) \/ EndSession(x)

RegistrySpec == RegistryInit /\ [][RegistryNext]_registryVars

-----------------------------------------------------------------------------
\* Registering alone never takes a steward past the limit: above it are only
\* agents whose registrations overlapped, or that were set back from revoked,
\* which asks check_can_register nothing (service.py: "the limit per steward").
AgentsWithinLimit ==
    \A s \in Stewards : Cardinality(Answerable(s) \ (rivals \cup revived)) <= MaxAgents

\* Revoking is immediate (update_agent) for every session there is: an agent that
\* is not active has a live session only from a sign-in that had passed the check
\* of its status when that changed.
RevokedHasNoSession ==
    \A x \in SignIns :
      signin[x] = "live" /\ claim[x].as = "agent" /\ agent[claim[x].did] # "active" => x \in outrun

\* A challenge opens one session (did_auth.py: "Challenges are single-use"),
\* unless two requests had found it before either deleted it.
ChallengeOpensOneSession ==
    \A x, y \in SignIns :
      /\ x # y /\ {signin[x], signin[y]} \subseteq {"live", "ended"}
      /\ claim[x].challenge = claim[y].challenge
      => {x, y} \subseteq shared

\* All three.
AccessIsAnsweredFor == AgentsWithinLimit /\ RevokedHasNoSession /\ ChallengeOpensOneSession
==============================================================================
