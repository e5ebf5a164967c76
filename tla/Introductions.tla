---------------------------- MODULE Introductions ----------------------------
(***************************************************************************)
(* One offer on its way to the far end and back                            *)
(* (backend/app/value/introductions.py, map_routes.py, forwarding.py).     *)
(*                                                                         *)
(* The asker's node sends the offer along several routes, one after the    *)
(* other; each relay sends it on while its predecessor waits; the far end  *)
(* decides, the answer travels back along the route by which the offer     *)
(* first came, and the asker commits.  Every call is an HTTP request that  *)
(* the callee serves in a thread of its own: it may be lost, and the       *)
(* caller may give up (peer_timeout_seconds) while the callee goes on.     *)
(*                                                                         *)
(* Nodes keep one row per offer, but the test for it and the insertion are *)
(* apart, so rows are kept per seat: a place on a route.  The signature of *)
(* a request is taken as valid and its sender as an active peer; notes,    *)
(* slices, timestamps and the counts of carried and missed offers, which   *)
(* no code here reads, are left out.                                       *)
(***************************************************************************)
EXTENDS Naturals, Sequences, FiniteSets

CONSTANTS
    Origin,         \* the asker's node
    Asks,           \* route lists an asker may give; a route is a sequence of nodes
    Review,         \* nodes whose relay_policy is "review"
    MaxDecisions,   \* bound on decisions that people take
    MaxEvents,      \* bound on decisions, lost calls, callers that give up and deaths
    None            \* no seat

Routes == UNION {{ask[i] : i \in DOMAIN ask} : ask \in Asks}
Nodes  == UNION {{p[h] : h \in DOMAIN p} : p \in Routes}
Seats  == UNION {{<<p, h>> : h \in 2..Len(p)} : p \in Routes}

Decisions == 1..MaxDecisions

Node(s)     == s[1][s[2]]
Before(s)   == s[1][s[2] - 1]           \* previous_hop
Onward(s)   == <<s[1], s[2] + 1>>       \* next_hop
IsFarEnd(s) == s[2] = Len(s[1])         \* role_for: destination
LeadsTo(s, n) == ~IsFarEnd(s) /\ Node(Onward(s)) = n

\* validate_path, and start's test that no route is given twice.
ASSUME IntroductionsAssumption ==
    /\ \A p \in Routes : /\ p \in Seq(Nodes) /\ Len(p) >= 2 /\ p[1] = Origin
                         /\ \A h, k \in DOMAIN p : p[h] = p[k] => h = k
    /\ \A ask \in Asks : /\ ask \in Seq(Routes) /\ Len(ask) >= 1
                         /\ \A i, k \in DOMAIN ask : ask[i] = ask[k] => i = k
    /\ None \notin Seats
    /\ MaxDecisions \in Nat /\ MaxEvents \in Nat

VARIABLES
    paths,      \* the routes the asker gave
    \* --- rows of the databases ---
    offer,      \* the asker's row; routes is NULL as long as every route is "none"
    row,        \* row[s]: the row that the offer's arrival at seat s inserted
    connected,  \* <<n, m>>: n has raised m's trust weight
    \* --- handlers and calls ---
    asker,      \* start: its step, and the answers it has heard
    recv,       \* recv[s]: the call that brings the offer to s, and its handler
    reply,      \* reply[<<s, status>>]: the call by which s answers, and its handler
    dec,        \* dec[d]: a person's decision
    commit,     \* commit_offer
    comm,       \* comm[s]: the call that brings the commitment to s
    faults,
    \* --- history, read by properties only ---
    accepts,    \* seats at which a person accepted
    odd         \* what came out of turn: early, crowd, contest, hasty

rows     == <<offer, row, connected>>
handlers == <<asker, recv, reply, dec, commit, comm>>
history  == <<accepts, odd>>
vars == <<paths, rows, handlers, faults, history>>

-----------------------------------------------------------------------------
Answers  == {"forwarded", "accepted", "declined", "expired"}
Results  == {"none", "forwarded", "declined"}
Messages == Seats \X Answers

\* A call that is not under way.
Quiet     == {"none", "ok", "failed"}
Over(how) == [step |-> how, was |-> "none", to |-> None, blocked |-> {}, contact |-> FALSE]
Idle(how) == [step |-> how, seat |-> None, answer |-> "late"]

Decided == {"done", "dead"}

TypeOK ==
    /\ paths \in Asks
    /\ offer \in [status : Answers \cup {"none", "pending"}, routes : [Routes -> Results],
                  path : Routes, blocked : SUBSET Nodes, contact : BOOLEAN,
                  committed : BOOLEAN]
    /\ row \in [Seats -> [status : Answers \cup {"none", "pending"},
                          blocked : SUBSET Nodes, contact : BOOLEAN, known : BOOLEAN]]
    /\ connected \subseteq Nodes \X Nodes
    /\ asker.step \in {"idle", "sending", "closing", "done", "dead"}
    /\ asker.heard \in Seq(Results) /\ Len(asker.heard) <= Len(paths)
    /\ recv \in [Seats -> Quiet \cup {"sent", "insert", "forward", "answer", "waiting"}]
    /\ reply \in [Messages -> [step : Quiet \cup {"sent", "heard", "noted", "relayed",
                                                  "passing", "waiting"},
                               was : Answers \cup {"none", "pending"},
                               to : Seats \cup {None}, blocked : SUBSET Nodes,
                               contact : BOOLEAN]]
    /\ dec \in [Decisions -> [step : Decided \cup {"idle", "loaded", "carry", "answer"},
                              seat : Seats \cup {None},
                              answer : {"accept", "decline", "late"}]]
    /\ commit \in Decided \cup {"idle", "loaded", "call"}
    /\ comm \in [Seats -> Quiet \cup {"sent"}]
    /\ faults \in 0..MaxEvents
    /\ accepts \subseteq Seats
    /\ odd \subseteq {"early", "crowd", "contest", "hasty"}

Init ==
    /\ paths \in Asks
    /\ offer = [status |-> "none", routes |-> [p \in Routes |-> "none"], path |-> paths[1],
                blocked |-> {}, contact |-> FALSE, committed |-> FALSE]
    /\ row = [s \in Seats |-> [status |-> "none", blocked |-> {}, contact |-> FALSE,
                               known |-> FALSE]]
    /\ connected = {}
    /\ asker = [step |-> "idle", heard |-> <<>>]
    /\ recv = [s \in Seats |-> "none"]
    /\ reply = [m \in Messages |-> Over("none")]
    /\ dec = [d \in Decisions |-> Idle("idle")]
    /\ commit = "idle"
    /\ comm = [s \in Seats |-> "none"]
    /\ faults = 0
    /\ accepts = {}
    /\ odd = {}

-----------------------------------------------------------------------------
(* Calls. *)

\* The bound on what may happen.
MayHappen == faults + Cardinality({d \in Decisions : dec[d].step # "idle"}) < MaxEvents

\* The caller hears no: the call was not served, or the caller waits no longer
\* for a callee that may still be at it (http_peer_client).
HearsNo(s) ==
    \/ recv[s] = "failed" /\ UNCHANGED faults
    \/ recv[s] # "failed" /\ MayHappen /\ faults' = faults + 1

\* The answers of seat s have been served, or s waits for them no longer.
HearsBack(s) ==
    LET served == \A a \in Answers : reply[<<s, a>>].step \in Quiet IN
    \/ served /\ UNCHANGED faults
    \/ ~served /\ MayHappen /\ faults' = faults + 1

\* _reply_back: seat s answers with its row as it is now.  (An equal answer of
\* the same seat that is still on its way is waited for.)
Answer(rp, s) ==
    [rp EXCEPT ![<<s, row[s].status>>] =
        [Over("sent") EXCEPT !.blocked = row[s].blocked, !.contact = row[s].contact]]
MayAnswer(s) == row[s].status \in Answers /\ reply[<<s, row[s].status>>].step \in Quiet

\* Rows that a query for the offer's correlation_id finds at node n.
Rows(n) == {t \in Seats : Node(t) = n /\ row[t].status # "none"}

-----------------------------------------------------------------------------
(* start: the asker's node. *)

\* _route_status
RouteStatus(status) ==
    IF \E i \in DOMAIN paths : status[paths[i]] = "accepted" THEN "accepted"
    ELSE IF \E i \in DOMAIN paths : status[paths[i]] = "forwarded" THEN "forwarded"
    ELSE "declined"

\* The row is committed before the first call, without routes.
Ask ==
    /\ asker.step = "idle"
    /\ offer' = [offer EXCEPT !.status = "pending"]
    /\ asker' = [asker EXCEPT !.step = "sending"]
    /\ recv' = [recv EXCEPT ![<<paths[1], 2>>] = "sent"]
    /\ UNCHANGED <<paths, row, connected, reply, dec, commit, comm, faults, history>>

Trying == <<paths[Len(asker.heard) + 1], 2>>

\* A bug: each answer is noted twice.
HeardTwice(result) ==
    /\ asker' = [step |-> "closing", heard |-> asker.heard \o <<result, result>>]
    /\ UNCHANGED recv

\* One route after the other.
Heard(result) ==
    LET heard == Append(asker.heard, result)
        more  == Len(heard) < Len(paths)
    IN  /\ asker' = [step |-> IF more THEN "sending" ELSE "closing", heard |-> heard]
        /\ recv' = IF more THEN [recv EXCEPT ![<<paths[Len(heard) + 1], 2>>] = "sent"]
                   ELSE recv

RouteCarries ==
    /\ asker.step = "sending" /\ recv[Trying] = "ok"
    /\ Heard("forwarded")
    /\ UNCHANGED <<paths, rows, reply, dec, commit, comm, faults, history>>

\* record_missed commits, when it knows the peer, and with the count the route
\* that was tried.
RouteFails ==
    /\ asker.step = "sending" /\ HearsNo(Trying)
    /\ Heard("declined")
    /\ \E p \in {offer.path, Trying[1]} : offer' = [offer EXCEPT !.path = p]
    /\ UNCHANGED <<paths, row, connected, reply, dec, commit, comm, history>>

\* The routes and the status they give are committed last, over whatever the
\* row says by then.
CloseStart ==
    LET heard == [p \in Routes |->
                    IF \E i \in DOMAIN paths : paths[i] = p
                    THEN asker.heard[CHOOSE i \in DOMAIN paths : paths[i] = p] ELSE "none"]
        status == RouteStatus(heard)
    IN  /\ asker.step = "closing"
        /\ offer' = [offer EXCEPT
              !.routes = heard, !.status = status, !.path = paths[1],
              !.blocked = IF status = "declined" THEN {paths[i][2] : i \in DOMAIN paths} ELSE @]
        /\ asker' = [asker EXCEPT !.step = "done"]
        /\ UNCHANGED <<paths, row, connected, recv, reply, dec, commit, comm, faults, history>>

-----------------------------------------------------------------------------
(* receive: a relay or the far end. *)

\* The offer came by another route: it is recognised.
RecogniseOffer(s) ==
    /\ recv[s] = "sent" /\ Rows(Node(s)) # {}
    /\ recv' = [recv EXCEPT ![s] = "ok"]
    /\ UNCHANGED <<paths, rows, asker, reply, dec, commit, comm, faults, history>>

\* A bug: every arrival is new.
TakeOfferAgain(s) ==
    /\ recv[s] = "sent" /\ row[s].status = "none"
    /\ recv' = [recv EXCEPT ![s] = "insert"]
    /\ UNCHANGED <<paths, rows, asker, reply, dec, commit, comm, faults, history>>

TakeOffer(s) ==
    /\ recv[s] = "sent" /\ Rows(Node(s)) = {}
    /\ recv' = [recv EXCEPT ![s] = "insert"]
    /\ odd' = IF \E t \in Seats : recv[t] = "insert" /\ Node(t) = Node(s)
              THEN odd \cup {"crowd"} ELSE odd
    /\ UNCHANGED <<paths, rows, asker, reply, dec, commit, comm, faults, accepts>>

\* The row is committed; a relay that does not review sends the offer on.
InsertOffer(s) ==
    LET carry == ~IsFarEnd(s) /\ Node(s) \notin Review IN
    /\ recv[s] = "insert"
    /\ row' = [row EXCEPT ![s].status = "pending"]
    /\ recv' = [t \in Seats |-> IF t = s THEN IF carry THEN "forward" ELSE "ok"
                                ELSE IF carry /\ t = Onward(s) THEN "sent" ELSE recv[t]]
    /\ UNCHANGED <<paths, offer, connected, asker, reply, dec, commit, comm, faults, history>>

\* Over whatever an answer wrote meanwhile.
CarryOn(s) ==
    /\ recv[s] = "forward" /\ recv[Onward(s)] = "ok"
    /\ row' = [row EXCEPT ![s].status = "forwarded"]
    /\ recv' = [recv EXCEPT ![s] = "ok"]
    /\ UNCHANGED <<paths, offer, connected, asker, reply, dec, commit, comm, faults, history>>

FailToCarry(s) ==
    /\ recv[s] = "forward" /\ HearsNo(Onward(s))
    /\ row' = [row EXCEPT ![s].status = "declined", ![s].blocked = {Node(Onward(s))}]
    /\ recv' = [recv EXCEPT ![s] = "answer"]
    /\ UNCHANGED <<paths, offer, connected, asker, reply, dec, commit, comm, history>>

\* The predecessor is called back while it waits for this very handler.
AnswerUnreachable(s) ==
    /\ recv[s] = "answer" /\ MayAnswer(s)
    /\ reply' = Answer(reply, s)
    /\ recv' = [recv EXCEPT ![s] = "waiting"]
    /\ UNCHANGED <<paths, rows, asker, dec, commit, comm, faults, history>>

FinishReceive(s) ==
    /\ recv[s] = "waiting" /\ HearsBack(s)
    /\ recv' = [recv EXCEPT ![s] = "ok"]
    /\ UNCHANGED <<paths, rows, asker, reply, dec, commit, comm, history>>

-----------------------------------------------------------------------------
(* decide: a holder at the far end, or the operator of a relay. *)

\* The row is found pending and not expired, or expired.  A relay's operator
\* carries an offer once.  (Decisions are numbered in the order they come.)
LoadDecision(d, s, answer) ==
    /\ MayHappen
    /\ dec[d].step = "idle" /\ \A e \in 1..(d - 1) : dec[e].step # "idle"
    /\ row[s].status = "pending"
    /\ answer = "accept" /\ ~IsFarEnd(s) => recv[Onward(s)] = "none"
    /\ dec' = [dec EXCEPT ![d] = [step |-> "loaded", seat |-> s, answer |-> answer]]
    /\ odd' = IF \/ recv[s] = "forward"
                 \/ \E e \in Decisions : dec[e].step \in {"loaded", "carry"} /\ dec[e].seat = s
              THEN odd \cup {"contest"} ELSE odd
    /\ UNCHANGED <<paths, rows, asker, recv, reply, commit, comm, faults, accepts>>

\* Nobody is told.
ExpireRow(d) ==
    /\ dec[d].step = "loaded" /\ dec[d].answer = "late"
    /\ row' = [row EXCEPT ![dec[d].seat].status = "expired"]
    /\ dec' = [dec EXCEPT ![d] = Idle("done")]
    /\ UNCHANGED <<paths, offer, connected, asker, recv, reply, commit, comm, faults, history>>

\* A bug: a refusal gives the contact, too.
DeclineWithContact(d) ==
    /\ dec[d].step = "loaded" /\ dec[d].answer = "decline"
    /\ row' = [row EXCEPT ![dec[d].seat].status = "declined", ![dec[d].seat].contact = TRUE]
    /\ dec' = [dec EXCEPT ![d].step = "answer"]
    /\ UNCHANGED <<paths, offer, connected, asker, recv, reply, commit, comm, faults, history>>

\* A bug: a refusal stays where it was made.
DeclineSilently(d) ==
    /\ dec[d].step = "loaded" /\ dec[d].answer = "decline"
    /\ row' = [row EXCEPT ![dec[d].seat].status = "declined"]
    /\ dec' = [dec EXCEPT ![d] = Idle("done")]
    /\ UNCHANGED <<paths, offer, connected, asker, recv, reply, commit, comm, faults, history>>

\* A relay that refuses says so in its own name.
Decline(d) ==
    LET s == dec[d].seat IN
    /\ dec[d].step = "loaded" /\ dec[d].answer = "decline"
    /\ row' = [row EXCEPT ![s].status = "declined",
                          ![s].blocked = IF IsFarEnd(s) THEN @ ELSE {Node(s)}]
    /\ dec' = [dec EXCEPT ![d].step = "answer"]
    /\ UNCHANGED <<paths, offer, connected, asker, recv, reply, commit, comm, faults, history>>

Accept(d) ==
    LET s == dec[d].seat IN
    /\ dec[d].step = "loaded" /\ dec[d].answer = "accept" /\ IsFarEnd(s)
    /\ row' = [row EXCEPT ![s].status = "accepted", ![s].contact = TRUE]
    /\ accepts' = accepts \cup {s}
    /\ dec' = [dec EXCEPT ![d].step = "answer"]
    /\ UNCHANGED <<paths, offer, connected, asker, recv, reply, commit, comm, faults, odd>>

PassOn(d) ==
    LET s == dec[d].seat IN
    /\ dec[d].step = "loaded" /\ dec[d].answer = "accept" /\ ~IsFarEnd(s)
    /\ recv[Onward(s)] = "none"
    /\ recv' = [recv EXCEPT ![Onward(s)] = "sent"]
    /\ dec' = [dec EXCEPT ![d].step = "carry"]
    /\ UNCHANGED <<paths, rows, asker, reply, commit, comm, faults, history>>

PassedOn(d) ==
    LET s == dec[d].seat IN
    /\ dec[d].step = "carry" /\ recv[Onward(s)] = "ok"
    /\ row' = [row EXCEPT ![s].status = "forwarded"]
    /\ dec' = [dec EXCEPT ![d] = Idle("done")]
    /\ UNCHANGED <<paths, offer, connected, asker, recv, reply, commit, comm, faults, history>>

FailToPassOn(d) ==
    LET s == dec[d].seat IN
    /\ dec[d].step = "carry" /\ HearsNo(Onward(s))
    /\ row' = [row EXCEPT ![s].status = "declined"]
    /\ dec' = [dec EXCEPT ![d].step = "answer"]
    /\ UNCHANGED <<paths, offer, connected, asker, recv, reply, commit, comm, history>>

\* What the row says by now is sent.
AnswerDecision(d) ==
    LET s == dec[d].seat IN
    /\ dec[d].step = "answer" /\ MayAnswer(s)
    /\ reply' = Answer(reply, s)
    /\ dec' = [dec EXCEPT ![d] = Idle("done")]
    /\ UNCHANGED <<paths, rows, asker, recv, commit, comm, faults, history>>

-----------------------------------------------------------------------------
(* receive_reply.  An answer m = <<s, status>> goes to the node before s. *)

\* credit_connection
Credited(m) ==
    IF m[2] = "accepted" THEN connected \cup {<<Before(m[1]), Node(m[1])>>} ELSE connected

\* The handler that sent the offer on from seat s, or from the origin, still
\* waits to hear that it arrived.
Sending(s) == recv[s] = "forward" \/ \E d \in Decisions : dec[d].step = "carry" /\ dec[d].seat = s

\* The asker's row has its routes: one of them leads to the sender.
HearAnswer(m) ==
    /\ reply[m].step = "sent" /\ m[1][2] = 2 /\ asker.step = "done"
    /\ reply' = [reply EXCEPT ![m].step = "heard", ![m].was = offer.status]
    /\ UNCHANGED <<paths, rows, asker, recv, dec, commit, comm, faults, history>>

\* The first of the routes that goes through the node which answers.
Via(m) ==
    paths[CHOOSE i \in DOMAIN paths :
            /\ paths[i][2] = Node(m[1])
            /\ \A j \in DOMAIN paths : paths[j][2] = Node(m[1]) => i <= j]

\* The route's status is set inside the list that the row holds, and a copy of
\* the list, equal to it, is assigned: the ORM sees no change and the column
\* keeps what start wrote.  The status computed from the list is committed with
\* the credit, if it differs from the one read.
NoteAnswer(m) ==
    LET status == RouteStatus([offer.routes EXCEPT ![Via(m)] = m[2]]) IN
    /\ reply[m].step = "heard"
    /\ offer' = [offer EXCEPT !.status = IF status # reply[m].was THEN status ELSE @]
    /\ connected' = Credited(m)
    /\ reply' = [reply EXCEPT ![m].step = "noted"]
    /\ UNCHANGED <<paths, row, asker, recv, dec, commit, comm, faults, history>>

\* The rest, from the row read again, is committed with record_missed.
CloseAnswer(m) ==
    /\ reply[m].step = "noted"
    /\ offer' = IF m[2] = "accepted"
                THEN [offer EXCEPT !.contact = reply[m].contact, !.path = Via(m)]
                ELSE IF offer.status = "declined"
                THEN [offer EXCEPT !.blocked =
                        {p[2] : p \in {q \in Routes : offer.routes[q] = "declined"}}]
                ELSE offer
    /\ reply' = [reply EXCEPT ![m] = Over("ok")]
    /\ UNCHANGED <<paths, row, connected, asker, recv, dec, commit, comm, faults, history>>

\* start has not committed the routes: the asker's row is treated like a
\* relay's, with the route it names at the moment.
HearEarlyAnswer(m) ==
    /\ reply[m].step = "sent" /\ m[1][2] = 2 /\ asker.step # "done"
    /\ IF offer.path[2] = Node(m[1])
       THEN connected' = Credited(m) /\ reply' = [reply EXCEPT ![m].step = "relayed"]
       ELSE UNCHANGED connected /\ reply' = [reply EXCEPT ![m] = Over("failed")]
    /\ odd' = odd \cup {"early"}
    /\ UNCHANGED <<paths, offer, row, asker, recv, dec, commit, comm, faults, accepts>>

\* A relay hears from the node it sent the offer to.
RelayHears(m, t) ==
    /\ reply[m].step = "sent" /\ m[1][2] > 2 /\ t \in Rows(Before(m[1]))
    /\ LeadsTo(t, Node(m[1]))
    /\ connected' = Credited(m)
    /\ reply' = [reply EXCEPT ![m].step = "relayed", ![m].to = t]
    /\ odd' = IF Sending(t) THEN odd \cup {"early"} ELSE odd
    /\ UNCHANGED <<paths, offer, row, asker, recv, dec, commit, comm, faults, accepts>>

RelayRefuses(m, t) ==
    /\ reply[m].step = "sent" /\ m[1][2] > 2 /\ t \in Rows(Before(m[1]))
    /\ ~LeadsTo(t, Node(m[1]))
    /\ reply' = [reply EXCEPT ![m] = Over("failed")]
    /\ UNCHANGED <<paths, rows, asker, recv, dec, commit, comm, faults, history>>

\* The answer is copied into the row, whatever the row says by then.
CopyAnswer(m) ==
    LET t == reply[m].to IN
    /\ reply[m].step = "relayed"
    /\ IF t = None
       THEN /\ offer' = [offer EXCEPT !.status = m[2], !.blocked = reply[m].blocked,
                                      !.contact = reply[m].contact]
            /\ UNCHANGED row
       ELSE /\ row' = [row EXCEPT ![t].status = m[2], ![t].blocked = reply[m].blocked,
                                  ![t].contact = reply[m].contact]
            /\ UNCHANGED offer
    /\ reply' = [reply EXCEPT ![m] = IF t = None THEN Over("ok")
                                     ELSE [Over("passing") EXCEPT !.to = t]]
    /\ UNCHANGED <<paths, connected, asker, recv, dec, commit, comm, faults, history>>

\* A bug: a relay keeps the answer.
PassAnswerNot(m) ==
    /\ reply[m].step = "passing"
    /\ reply' = [reply EXCEPT ![m] = Over("ok")]
    /\ UNCHANGED <<paths, rows, asker, recv, dec, commit, comm, faults, history>>

\* The commit expired the row: what it says by now goes on.
PassAnswer(m) ==
    LET t == reply[m].to IN
    /\ reply[m].step = "passing" /\ MayAnswer(t)
    /\ reply' = [Answer(reply, t) EXCEPT ![m].step = "waiting"]
    /\ UNCHANGED <<paths, rows, asker, recv, dec, commit, comm, faults, history>>

FinishReply(m) ==
    /\ reply[m].step = "waiting" /\ HearsBack(reply[m].to)
    /\ reply' = [reply EXCEPT ![m] = Over("ok")]
    /\ UNCHANGED <<paths, rows, asker, recv, dec, commit, comm, history>>

-----------------------------------------------------------------------------
(* commit_offer and receive_commit. *)

\* A bug: the asker may commit before anybody accepted.
LoadCommitEarly ==
    /\ commit = "idle" /\ offer.status # "none" /\ ~offer.committed
    /\ commit' = "loaded"
    /\ UNCHANGED <<paths, rows, asker, recv, reply, dec, comm, faults, history>>

LoadCommit ==
    /\ commit = "idle" /\ offer.status = "accepted" /\ ~offer.committed
    /\ commit' = "loaded"
    /\ odd' = IF offer.contact THEN odd ELSE odd \cup {"hasty"}
    /\ UNCHANGED <<paths, rows, asker, recv, reply, dec, comm, faults, accepts>>

CommitOffer ==
    /\ commit = "loaded"
    /\ offer' = [offer EXCEPT !.committed = TRUE]
    /\ commit' = "call"
    /\ UNCHANGED <<paths, row, connected, asker, recv, reply, dec, comm, faults, history>>

\* The row is read again for the way to go; whether the call arrives is not
\* asked.
CallCommit ==
    /\ commit = "call"
    /\ comm' = [comm EXCEPT ![<<offer.path, 2>>] = "sent"]
    /\ commit' = "done"
    /\ UNCHANGED <<paths, rows, asker, recv, reply, dec, faults, history>>

\* A bug: a relay keeps the commitment.
ReceiveCommitOnly(s, t) ==
    /\ comm[s] = "sent" /\ t \in Rows(Node(s)) /\ Before(t) = Before(s)
    /\ row' = [row EXCEPT ![t].known = TRUE]
    /\ comm' = [comm EXCEPT ![s] = "ok"]
    /\ UNCHANGED <<paths, offer, connected, asker, recv, reply, dec, commit, faults, history>>

\* Whatever the row's status, the asker's contact is stored and sent on along
\* the row's own path.
ReceiveCommit(s, t) ==
    /\ comm[s] = "sent" /\ t \in Rows(Node(s)) /\ Before(t) = Before(s)
    /\ row' = [row EXCEPT ![t].known = TRUE]
    /\ comm' = [u \in Seats |-> IF u = s THEN "ok"
                                ELSE IF ~IsFarEnd(t) /\ u = Onward(t) THEN "sent" ELSE comm[u]]
    /\ UNCHANGED <<paths, offer, connected, asker, recv, reply, dec, commit, faults, history>>

RefuseCommit(s) ==
    /\ comm[s] = "sent"
    /\ Rows(Node(s)) = {} \/ \E t \in Rows(Node(s)) : Before(t) # Before(s)
    /\ comm' = [comm EXCEPT ![s] = "failed"]
    /\ UNCHANGED <<paths, rows, asker, recv, reply, dec, commit, faults, history>>

-----------------------------------------------------------------------------
(* Faults. *)

LoseCall ==
    /\ \/ /\ \E s \in Seats : recv[s] = "sent" /\ recv' = [recv EXCEPT ![s] = "failed"]
          /\ UNCHANGED <<reply, comm>>
       \/ /\ \E m \in Messages : reply[m].step = "sent"
                                 /\ reply' = [reply EXCEPT ![m] = Over("failed")]
          /\ UNCHANGED <<recv, comm>>
       \/ /\ \E s \in Seats : comm[s] = "sent" /\ comm' = [comm EXCEPT ![s] = "failed"]
          /\ UNCHANGED <<recv, reply>>
    /\ UNCHANGED <<asker, dec, commit>>

\* What a handler had not committed or sent is lost.
Die ==
    \/ /\ asker.step \in {"sending", "closing"}
       /\ asker' = [asker EXCEPT !.step = "dead"]
       /\ UNCHANGED <<recv, reply, dec, commit, comm>>
    \/ /\ \E s \in Seats : /\ recv[s] \in {"insert", "forward", "answer", "waiting"}
                           /\ recv' = [recv EXCEPT ![s] = "failed"]
       /\ UNCHANGED <<asker, reply, dec, commit, comm>>
    \/ /\ \E m \in Messages :
            /\ reply[m].step \in {"heard", "noted", "relayed", "passing", "waiting"}
            /\ reply' = [reply EXCEPT ![m] = Over("failed")]
       /\ UNCHANGED <<asker, recv, dec, commit, comm>>
    \/ /\ \E d \in Decisions : /\ dec[d].step \in {"loaded", "carry", "answer"}
                               /\ dec' = [dec EXCEPT ![d] = Idle("dead")]
       /\ UNCHANGED <<asker, recv, reply, commit, comm>>
    \/ /\ commit \in {"loaded", "call"} /\ commit' = "dead"
       /\ UNCHANGED <<asker, recv, reply, dec, comm>>

Fault ==
    /\ MayHappen /\ faults' = faults + 1
    /\ LoseCall \/ Die
    /\ UNCHANGED <<paths, rows, history>>

-----------------------------------------------------------------------------
StartStep == RouteCarries \/ RouteFails \/ CloseStart

ReceiveStep(s) ==
    \/ RecogniseOffer(s) \/ TakeOffer(s) \/ InsertOffer(s) \/ CarryOn(s) \/ FailToCarry(s)
    \/ AnswerUnreachable(s) \/ FinishReceive(s)

DecideStep(d) ==
    \/ ExpireRow(d) \/ Decline(d) \/ Accept(d) \/ PassOn(d) \/ PassedOn(d) \/ FailToPassOn(d)
    \/ AnswerDecision(d)

ReplyStep(m) ==
    \/ HearAnswer(m) \/ NoteAnswer(m) \/ CloseAnswer(m) \/ HearEarlyAnswer(m)
    \/ \E t \in Seats : RelayHears(m, t) \/ RelayRefuses(m, t)
    \/ CopyAnswer(m) \/ PassAnswer(m) \/ FinishReply(m)

CommitStep ==
    \/ CommitOffer \/ CallCommit
    \/ \E s \in Seats : RefuseCommit(s) \/ \E t \in Seats : ReceiveCommit(s, t)

\* Answers that are being served.
Underway == {m \in Messages : reply[m].step \notin Quiet}

\* What nodes do by themselves.
Serve ==
    \/ StartStep \/ CommitStep
    \/ \E s \in Seats : ReceiveStep(s)
    \/ \E d \in Decisions : DecideStep(d)
    \/ \E m \in Underway : ReplyStep(m)

\* What people do, or do not do.
Act ==
    \/ Ask \/ LoadCommit
    \/ \E d \in Decisions, s \in Seats, answer \in {"accept", "decline", "late"} :
          LoadDecision(d, s, answer)

Next == Serve \/ Act \/ Fault

Spec == Init /\ [][Next]_vars

\* Threads run and calls return, with an answer or without.
LiveSpec == Spec /\ WF_vars(Serve)

-----------------------------------------------------------------------------
\* The same offer arriving at a node twice is recognised (receive: "The same
\* offer arriving by another route. One decision, not two.") and makes no second
\* row, unless the second arrival passes the test while the first has not been
\* inserted: then the node has two, each to be decided.
OneRowPerNode ==
    "crowd" \notin odd => \A s, t \in Seats :
      row[s].status # "none" /\ row[t].status # "none" /\ Node(s) = Node(t) => s = t

\* Seat t is on the way by which the offer came to somebody who accepted it.
OnTheWay(t) == \E a \in accepts : t[1] = a[1] /\ t[2] <= a[2]

\* The accepting person's contact (reply_contact) is at the asker's node, or at
\* any other, only if somebody accepted; and it is held only at the seats of the
\* way by which the offer had come there, whatever answers overlap, come out of
\* order or are lost.  Where two arrivals crowded into a node, the answer may
\* find the row of either (receive_reply takes the first that the query gives)
\* and goes back, with the contact, along a way by which the offer did not come.
ContactByConsent ==
    /\ offer.contact => accepts # {}
    /\ \A t \in Seats : row[t].contact =>
         accepts # {} /\ ("crowd" \notin odd => OnTheWay(t))

\* The asker's contact (requester_contact) leaves the asker's node only after
\* the asker committed; and as long as nothing went out of turn it reaches a far
\* end only if somebody accepted there, although receive_commit never looks at
\* the status of its own row.
AskerByCommitment ==
    \A s \in Seats : row[s].known =>
      /\ offer.committed
      /\ IsFarEnd(s) /\ odd = {} => s \in accepts

\* A call was lost, a handler died or gave up, or something came out of turn:
\* an answer before its sender's predecessor had finished sending, two arrivals
\* or two decisions at once, a commitment before the answer was noted in full.
Disturbed == faults > 0 \/ odd # {}

\* Where nothing is disturbed, an acceptance brings the far end's contact to the
\* asker, through every relay (_reply_back and receive_reply, node by node).
AnswerArrives ==
    (\E s \in Seats : IsFarEnd(s) /\ row[s].status = "accepted")
      ~> (offer.contact \/ Disturbed)

\* Where nothing is disturbed, the refusal of an offer sent along one route, by
\* the far end or by a relay, travels back to the asker, whose row says so.  (Of
\* two refusals along two routes the asker's row remembers only the last.)
RefusalArrives ==
    (Len(paths) = 1 /\ \E s \in Seats : row[s].status = "declined")
      ~> (offer.status = "declined" \/ Disturbed)

\* Where nothing is disturbed, a commitment brings the asker's contact to a far
\* end that accepted, along the route that worked (commit_offer, receive_commit).
CommitmentArrives ==
    (offer.committed) ~> (Disturbed \/ \E s \in accepts : row[s].known)

\* "One offer, several routes: it is alive while any route is." (_route_status)
\* Once start is done, an offer accepted along one route stays accepted whatever
\* the others answer.
\* The code does not keep this: the answer of a route never reaches the stored
\* list of routes, so that the next answer counts the first as still open.
AcceptanceStands ==
    [][asker.step = "done" /\ offer.status = "accepted" => offer'.status = "accepted"]_vars
=============================================================================
