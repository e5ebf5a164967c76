------------------------------ MODULE PathSearch ------------------------------
(***************************************************************************)
(* Peers, and a search through them (backend/app/value/map_routes.py,      *)
(* forwarding.py, proofs.py, commitments.py, peer_models.py).              *)
(*                                                                         *)
(* A node is asked whether K of its items match, and asks its peers in     *)
(* turn while the time to live allows.  The calls of one search are nested *)
(* and take one step here: any of them may be lost (a timeout, a rate      *)
(* limit, a node that is down), the answer with it.  The asker checks the  *)
(* proofs afterwards, against the peers it has by then.                    *)
(*                                                                         *)
(* A signature names its signer and cannot be made by another; a hash is   *)
(* the value it is taken of.  Hop decay is part of a peer's weight, which  *)
(* does not change.                                                        *)
(***************************************************************************)
EXTENDS Integers, FiniteSets, Sequences

CONSTANTS
    Nodes, Origin,      \* the nodes, and the one that asks
    Links,              \* pairs <<n, m>>: m may become a peer of n
    Weight,             \* Weight[<<n, m>>]: trust_weight, times hop_decay
    K,                  \* k_anonymity
    MaxTtl,             \* max_degree_limit
    MaxChanges,         \* bound on the changes to peers, items and keys
    NoSigner, NoAnswer

ASSUME SearchAssumption ==
    /\ Links \subseteq Nodes \X Nodes /\ Origin \in Nodes
    /\ K \in Nat \ {0} /\ MaxTtl \in Nat /\ MaxChanges \in Nat

VARIABLES
    peer,         \* peer[<<n, m>>]: what n has on file about m
    key,          \* key[n]: n's signing key, or 0
    items,        \* items[n]: open, discoverable items of n that match
    answer,       \* the results of the question, or NoAnswer before it is asked
    checked,      \* their proofs have been checked
    changes,
    \* --- history, read by properties only ---
    asked,        \* the question: its time to live, the links on which its calls are
                  \* lost, and key as it was
    since         \* links changed since then

searchVars == <<peer, key, items, answer, checked, changes, asked, since>>

Status == {"none", "active", "suspended", "inbound"}
SomeKey == 0..(MaxChanges + 1)      \* 1 is the first, 0 is none

SearchTypeOK ==
    /\ peer \in [Links -> [status : Status, key : SomeKey]]
    /\ key \in [Nodes -> SomeKey]
    /\ items \in [Nodes -> 0..K]
    /\ answer = NoAnswer \/ \A r \in answer : r.proven \in BOOLEAN /\ r.path \in Seq(Nodes)
    /\ checked \in BOOLEAN
    /\ changes \in 0..MaxChanges
    /\ \/ asked = NoAnswer
       \/ asked \in [ttl : 0..MaxTtl, lost : SUBSET Links, key : [Nodes -> SomeKey]]
    /\ since \subseteq Links

SearchInit ==
    /\ peer = [l \in Links |-> [status |-> "active", key |-> 1]]
    /\ key = [n \in Nodes |-> 1]
    /\ \E n \in Nodes : items = [m \in Nodes |-> IF m = n THEN K ELSE K - 1]
    /\ answer = NoAnswer /\ checked = FALSE
    /\ changes = 0
    /\ asked = NoAnswer /\ since = {}

-----------------------------------------------------------------------------
(* The operators of the nodes. *)

Change(ls) ==
    /\ ~checked /\ changes < MaxChanges
    /\ changes' = changes + 1
    /\ since' = IF answer = NoAnswer THEN {} ELSE since \cup ls
    /\ UNCHANGED <<answer, checked, asked>>

\* Deliberately, with the key that the peer has now; with a URL or, inbound, without.
AddPeer(l, s) ==
    /\ peer[l].status = "none" /\ key[l[2]] # 0
    /\ peer' = [peer EXCEPT ![l] = [status |-> s, key |-> key[l[2]]]]
    /\ Change({l}) /\ UNCHANGED <<key, items>>

\* A peer that is active after this has a URL by then.
UpdatePeer(l, s) ==
    /\ peer[l].status \notin {"none", s}
    /\ peer' = [peer EXCEPT ![l].status = s]
    /\ Change({l}) /\ UNCHANGED <<key, items>>

RemovePeer(l) ==
    /\ peer[l].status # "none"
    /\ peer' = [peer EXCEPT ![l] = [status |-> "none", key |-> 0]]
    /\ Change({l}) /\ UNCHANGED <<key, items>>

\* NODE_SIGNING_KEY is another one, which no peer has on file yet, or none.
SetKey(n, k) ==
    /\ k \in {0, changes + 2} /\ k # key[n]
    /\ key' = [key EXCEPT ![n] = k]
    /\ Change({}) /\ UNCHANGED <<peer, items>>

\* create_item, update_item, delete_item: one more item can be found, or one less.
ChangeItems(n, count) ==
    /\ count \in {items[n] - 1, items[n] + 1}
    /\ items' = [items EXCEPT ![n] = count]
    /\ Change({}) /\ UNCHANGED <<peer, key>>

-----------------------------------------------------------------------------
(* Proofs. *)

Signature(n) == [by |-> n, key |-> key[n]]
NoProof      == [match |-> NoSigner, hops |-> <<>>, wrapped |-> FALSE]

NewProof(n) ==
    IF key[n] = 0 THEN NoProof ELSE [match |-> Signature(n), hops |-> <<>>, wrapped |-> FALSE]

\* wrap_hop signs a hash of the whole proof it received, whatever fields that has:
\* one that was wrapped before carries its inner_hash as well.
WrapHop(n, proof) ==
    IF key[n] = 0 THEN NoProof
    ELSE [match |-> proof.match, wrapped |-> TRUE,
          hops |-> Append(proof.hops, [sig |-> Signature(n), inner |-> proof])]

\* The last signature put on it.
Outer(proof) == IF proof.hops = <<>> THEN proof.match ELSE proof.hops[Len(proof.hops)].sig

\* Mutant of Proven: the key is not compared with the one on file.
ProvenAnyKey(proof, path, onFile) ==
    proof.match # NoSigner /\ (Len(path) > 1 => Outer(proof).by = path[2])

\* verify_proof: the match is signed by the end of the path; every hop has signed a
\* hash of the match and the hops before it; the outermost signature is that of the
\* peer asked, with the key on file if there is one; and there is one hop for each
\* node between the asker and the match.
Proven(proof, path, onFile) ==
    LET hops   == proof.hops
        before(i) == [match |-> proof.match, hops |-> SubSeq(hops, 1, i - 1), wrapped |-> FALSE]
    IN  /\ proof.match # NoSigner /\ proof.match.by = path[Len(path)]
        /\ \A i \in 1..Len(hops) : hops[i].inner = before(i)
        /\ Len(path) > 1 => Outer(proof).by = path[2] /\ (onFile # 0 => Outer(proof).key = onFile)
        /\ Len(hops) = IF Len(path) > 2 THEN Len(path) - 2 ELSE 0

-----------------------------------------------------------------------------
(* The search. *)

In(n, path) == \E i \in 1..Len(path) : path[i] = n

\* answer_query: fewer than K items are no match.
Matches(n) == items[n] >= K

Callable(n) == {l \in Links : l[1] = n /\ peer[l].status = "active"}

\* verify_request at the called node: the caller is an active peer of its own, and
\* signed with the key it has on file.
Accepts(l) ==
    LET back == <<l[2], l[1]>> IN
    /\ back \in Links /\ peer[back].status \in {"active", "inbound"}
       /\ peer[back].key = key[l[1]]

\* Mutant of Onward: suspended peers are asked too.
OnwardSuspended(n, path) ==
    {l \in Links : l[1] = n /\ peer[l].status \in {"active", "suspended"}
                   /\ ~In(l[2], Append(path, n))}

\* No loops, and nobody without a URL.
Onward(n, path) == {l \in Callable(n) : ~In(l[2], Append(path, n))}

\* A call: the node it reaches, the path it came by, and the links on which calls of
\* this search get lost.
Calls == [to : Nodes, path : Seq(Nodes), lost : SUBSET Links]

\* What a call with t hops left is answered: the node's own match, and what its peers
\* answer to its calls, weighed and signed; below is what calls with one hop less are
\* answered.  A node that has whom to ask and no key to sign the request with fails,
\* and answers nothing at all.
Answer(c, t, below) ==
    LET here   == Append(c.path, c.to)
        onward == IF t > 0 THEN Onward(c.to, c.path) ELSE {}
        own    == IF Matches(c.to)
                  THEN {[path |-> here, weight |-> 1, degree |-> Len(c.path),
                         proof |-> NewProof(c.to), proven |-> FALSE]}
                  ELSE {}
        Relayed(l) ==
            {[r EXCEPT !.weight = Weight[l] * r.weight,
                       !.degree = Len(r.path) - Len(c.path) - 1,
                       !.proof  = IF c.path = <<>> THEN r.proof ELSE WrapHop(c.to, r.proof)] :
               r \in IF l \in c.lost \/ ~Accepts(l) \/ In(l[2], here) THEN {}
                     ELSE below[[to |-> l[2], path |-> here, lost |-> c.lost]]}
    IN  IF onward # {} /\ key[c.to] = 0 THEN {} ELSE own \cup UNION {Relayed(l) : l \in onward}

Search[t \in Nat] == [c \in Calls |-> Answer(c, t, Search[t - 1])]

FederatedQuery(t, failing) ==
    /\ answer = NoAnswer
    /\ answer' = Search[t][[to |-> Origin, path |-> <<>>, lost |-> failing]]
    /\ asked' = [ttl |-> t, lost |-> failing, key |-> key]
    /\ UNCHANGED <<peer, key, items, checked, changes, since>>

\* The key on file for the peer that was asked, if it still is one.
OnFile(path) == IF Len(path) > 1 THEN peer[<<Origin, path[2]>>].key ELSE 0

CheckProofs ==
    /\ answer # NoAnswer /\ ~checked
    /\ answer' = {[r EXCEPT !.proven = Proven(r.proof, r.path, OnFile(r.path))] : r \in answer}
    /\ checked' = TRUE
    /\ UNCHANGED <<peer, key, items, changes, asked, since>>

-----------------------------------------------------------------------------
SearchNext ==
    \/ \E l \in Links :
         \/ \E s \in {"active", "inbound"} : AddPeer(l, s)
         \/ \E s \in {"active", "suspended"} : UpdatePeer(l, s)
         \/ RemovePeer(l)
    \/ \E n \in Nodes :
         \/ \E k \in SomeKey : SetKey(n, k)
         \/ \E c \in 0..K : ChangeItems(n, c)
    \/ \E t \in 0..MaxTtl, failing \in {{}} \cup {{l} : l \in Links} : FederatedQuery(t, failing)
    \/ CheckProofs

SearchSpec == SearchInit /\ [][SearchNext]_searchVars

-----------------------------------------------------------------------------
Paths == {p \in UNION {[1..n -> Nodes] : n \in 1..(MaxTtl + 1)} :
            p[1] = Origin /\ \A i, j \in 1..Len(p) : p[i] = p[j] => i = j}

\* Every node of p is asked and gets its own answer out: the calls are accepted and
\* not lost, and who has somebody left to ask has a key to ask with.
Travels(p, t, failing) ==
    /\ Len(p) <= t + 1
    /\ \A i \in 1..(Len(p) - 1) :
         LET l == <<p[i], p[i + 1]>> IN l \in Callable(p[i]) \ failing /\ Accepts(l)
    /\ \A i \in 1..Len(p) :
         key[p[i]] = 0 /\ i <= t =>
           \A l \in Callable(p[i]) : \E j \in 1..i : p[j] = l[2]

\* The product of the weights along p.
PathWeight(p) ==
    LET from[i \in 1..Len(p)] ==
          IF i = Len(p) THEN 1 ELSE Weight[<<p[i], p[i + 1]>>] * from[i + 1]
    IN  from[1]

\* What is found is every simple path within the time to live to a node with enough
\* items, with the product of the weights along it, its true length, and nothing
\* else ("Paths come back, never contents"; "no loops"; "hops are bounded").
FindsEveryPath ==
    [][asked = NoAnswer /\ asked' # NoAnswer =>
         {[path |-> r.path, degree |-> r.degree, weight |-> r.weight] : r \in answer'}
           = {[path |-> p, degree |-> Len(p) - 1, weight |-> PathWeight(p)] :
                p \in {q \in Paths : /\ Matches(q[Len(q)])
                                     /\ Travels(q, asked'.ttl, asked'.lost)}}]_searchVars

Vouchers(path) == IF Len(path) = 1 THEN {Origin} ELSE {path[i] : i \in 2..Len(path)}

\* A proven result carries the signature of every node on its path, and the first
\* one's key is the one on file, unless the operator has changed that peer since.
ProvenIsSigned ==
    checked => \A r \in answer : r.proven =>
      /\ \A n \in Vouchers(r.path) : asked.key[n] # 0
      /\ Len(r.path) > 1 => \/ <<Origin, r.path[2]>> \in since
                            \/ asked.key[r.path[2]] = OnFile(r.path)

\* Only "a node with no signing key cannot prove anything", and a result needs "one
\* signature per node beyond the origin" (proofs.py): if these have all signed, and the
\* key on file is the first one's, the result is proven.
SignedIsProven ==
    checked => \A r \in answer :
      (/\ \A n \in Vouchers(r.path) : asked.key[n] # 0
       /\ Len(r.path) > 1 => asked.key[r.path[2]] = OnFile(r.path)) => r.proven
===============================================================================
