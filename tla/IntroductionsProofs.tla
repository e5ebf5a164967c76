------------------------- MODULE IntroductionsProofs --------------------------
(***************************************************************************)
(* Theorems about Introductions, for every network, every set of routes,   *)
(* any number of decisions and of faults.                                  *)
(***************************************************************************)
EXTENDS Introductions, FiniteSetTheorems, WellFoundedInduction, TLAPS

-----------------------------------------------------------------------------
(* The inductive invariant. *)

Given       == {paths[i] : i \in DOMAIN paths}
Seat(p, h)  == <<p, h>>
Arrived(s)  == row[s].status # "none"
Holds(s)    == Arrived(s) \/ recv[s] = "insert"
Uncrowded   == "crowd" \notin odd

\* start tries the routes it was given, one after the other.
AskerInOrder ==
    /\ asker \in [step : {"idle", "sending", "closing", "done", "dead"}, heard : Seq(Results)]
    /\ Len(asker.heard) <= Len(paths)
    /\ asker.step = "idle" => asker.heard = <<>>
    /\ asker.step = "sending" => Len(asker.heard) < Len(paths)
    /\ asker.step = "closing" => Len(asker.heard) = Len(paths)

\* An arrival is served once: the call to a seat is made by the seat before it,
\* when the row there exists; a row exists once its arrival has been inserted.
ArrivedOnce(s) ==
    /\ recv[s] # "none" => s[1] \in Given /\ \A h \in 2..(s[2] - 1) : Arrived(Seat(s[1], h))
    /\ recv[s] # "none" /\ s[2] = 2 =>
         asker.step # "idle" /\ \E i \in DOMAIN paths : i <= Len(asker.heard) + 1 /\ paths[i] = s[1]
    /\ Arrived(s) => recv[s] \notin {"none", "sent", "insert"}
    /\ recv[s] \in {"forward", "answer", "waiting"} => Arrived(s)
    /\ recv[s] = "forward" => ~IsFarEnd(s)

\* Who decides or answers has a row, and so has the seat at which an answer was heard.
DecidesOnRow(d) ==
    dec[d].step \in {"loaded", "carry", "answer"} =>
      /\ dec[d].seat \in Seats /\ Arrived(dec[d].seat)
      /\ dec[d].step = "carry" => ~IsFarEnd(dec[d].seat)

AnswersFromRow(m) ==
    /\ reply[m].step # "none" => Arrived(m[1])
    /\ reply[m].to # None => m[1][2] > 2 /\ Arrived(reply[m].to)
    /\ reply[m].step \in {"sent", "heard", "noted"} => reply[m].to = None
    /\ reply[m].step \in {"passing", "waiting"} => reply[m].to # None
    /\ reply[m].step \in {"heard", "noted"} => m[1][2] = 2 /\ asker.step = "done"
    /\ reply[m].step = "relayed" /\ reply[m].to = None => "early" \in odd

\* Two rows of one node are due to a crowd, or there are none.
Alone == Uncrowded =>
    \A s, t \in Seats : Holds(s) /\ Holds(t) /\ Node(s) = Node(t) => s = t

\* Who accepted is a far end with a row.
AcceptedAtFarEnd == \A a \in accepts : IsFarEnd(a) /\ Arrived(a)

\* What only an acceptance further on, or here, can have brought to a seat.
Consented(t) == accepts # {} /\ (Uncrowded => OnTheWay(t))

ContactOnTheWay ==
    /\ offer.contact => accepts # {}
    /\ \A t \in Seats : row[t].contact \/ row[t].status = "accepted" => Consented(t)

AnswerOnTheWay(m) ==
    reply[m].contact \/ ( /\ m[2] = "accepted"
                          /\ reply[m].step \in {"sent", "heard", "noted", "relayed"}) =>
      Consented(m[1]) /\ (reply[m].to # None => Consented(reply[m].to))

\* A call to s, made by the seat before it, comes to a seat of such a way.
ToTheWay(s) == \E v \in Seats : OnTheWay(v) /\ Node(v) = Node(s) /\ Before(v) = Before(s)

\* The asker commits along the route that worked, and the commitment goes along
\* the way of the acceptance.
Orderly == odd = {}

CommitsToTheWay ==
    /\ commit \in {"call", "done"} => offer.committed
    /\ Orderly /\ (offer.contact \/ commit \in {"loaded", "call"}) =>
         asker.step = "done" /\ ToTheWay(Seat(offer.path, 2))

CommitmentOnTheWay(s) ==
    /\ comm[s] # "none" \/ row[s].known => offer.committed
    /\ Orderly /\ comm[s] = "sent" => ToTheWay(s)
    /\ Orderly /\ row[s].known => OnTheWay(s)

IntroductionsInv ==
    /\ TypeOK /\ AskerInOrder
    /\ \A s \in Seats : ArrivedOnce(s)
    /\ \A d \in Decisions : DecidesOnRow(d)
    /\ \A m \in Messages : AnswersFromRow(m)
    /\ Alone /\ AcceptedAtFarEnd
    /\ ContactOnTheWay /\ \A m \in Messages : AnswerOnTheWay(m)
    /\ CommitsToTheWay /\ \A s \in Seats : CommitmentOnTheWay(s)

-----------------------------------------------------------------------------
(* Seats and routes. *)

LEMMA RouteFacts ==
    ASSUME NEW p \in Routes
    PROVE  /\ p \in Seq(Nodes) /\ Len(p) >= 2 /\ p[1] = Origin
           /\ \A h \in 2..Len(p) : Seat(p, h) \in Seats
<1>1. p \in Seq(Nodes) /\ Len(p) >= 2 /\ p[1] = Origin
  BY IntroductionsAssumption
<1>2. ASSUME NEW h \in 2..Len(p) PROVE Seat(p, h) \in Seats
  BY <1>2 DEF Seat, Seats
<1> QED
  BY <1>1, <1>2

LEMMA SeatFacts ==
    ASSUME NEW s \in Seats
    PROVE  /\ s[1] \in Routes /\ s[2] \in 2..Len(s[1]) /\ Len(s[1]) \in Nat
           /\ s = Seat(s[1], s[2])
           /\ Node(s) \in Nodes /\ Before(s) \in Nodes
           /\ s # None
<1>1. PICK p \in Routes : s \in {<<p, h>> : h \in 2..Len(p)}
  BY DEF Seats
<1>2. PICK h \in 2..Len(p) : s = <<p, h>>
  BY <1>1
<1>3. p \in Seq(Nodes) /\ Len(p) >= 2
  BY RouteFacts
<1>4. s[1] = p /\ s[2] = h /\ Len(p) \in Nat
  BY <1>2, <1>3
<1>5. Node(s) \in Nodes /\ Before(s) \in Nodes
  BY <1>3, <1>4 DEF Node, Before
<1> QED
  BY <1>2, <1>4, <1>5, IntroductionsAssumption DEF Seat

\* The seat after s is one of the same route, and its predecessor is s's node.
LEMMA OnwardFacts ==
    ASSUME NEW s \in Seats, ~IsFarEnd(s)
    PROVE  /\ Onward(s) \in Seats /\ Onward(s) = Seat(s[1], s[2] + 1)
           /\ Before(Onward(s)) = Node(s)
           /\ Onward(s)[1] = s[1] /\ Onward(s)[2] = s[2] + 1 /\ Onward(s)[2] > 2
           /\ Onward(s) # s
<1>1. s[1] \in Routes /\ s[2] \in 2..Len(s[1]) /\ Len(s[1]) \in Nat
  BY SeatFacts
<1>2. s[2] + 1 \in 2..Len(s[1])
  BY <1>1 DEF IsFarEnd
<1>3. Seat(s[1], s[2] + 1) \in Seats
  BY <1>1, <1>2, RouteFacts
<1>4. Onward(s) = Seat(s[1], s[2] + 1) /\ Onward(s)[1] = s[1] /\ Onward(s)[2] = s[2] + 1
  BY DEF Onward, Seat
<1>5. (s[2] + 1) - 1 = s[2]
  BY <1>1
<1>6. Before(Onward(s)) = Node(s)
  BY <1>4, <1>5 DEF Before, Node
<1>7. s[2] + 1 > 2 /\ s[2] + 1 # s[2]
  BY <1>1
<1> QED
  BY <1>3, <1>4, <1>6, <1>7

\* A seat at the far end of the way to an acceptance is the one that accepted.
LEMMA FarEndAccepted ==
    ASSUME NEW s \in Seats, IsFarEnd(s), OnTheWay(s), accepts \subseteq Seats, AcceptedAtFarEnd
    PROVE  s \in accepts
<1>1. PICK a \in accepts : s[1] = a[1] /\ s[2] <= a[2]
  BY DEF OnTheWay
<1>2. s = Seat(s[1], s[2]) /\ a = Seat(a[1], a[2])
  BY SeatFacts
<1>3. s[2] = a[2]
  BY <1>1 DEF IsFarEnd, AcceptedAtFarEnd
<1> QED
  BY <1>1, <1>2, <1>3

-----------------------------------------------------------------------------
(* What one step may do to a row, to a call, to an answer and to the asker. *)

RowMoves(t) ==
    \/ row'[t] = row[t]
    \/ /\ recv[t] = "insert" /\ recv'[t] \in {"forward", "ok"}
       /\ row'[t] = [row[t] EXCEPT !.status = "pending"]
    \/ /\ Arrived(t) /\ row'[t].status \in {"forwarded", "declined", "expired"}
       /\ row'[t].contact = row[t].contact /\ row'[t].known = row[t].known
    \/ /\ Arrived(t) /\ t \in accepts' /\ row'[t].status = "accepted"
       /\ row'[t].known = row[t].known
    \/ \E m \in Messages :
         /\ reply[m].step = "relayed" /\ reply[m].to = t
         /\ row'[t].status = m[2] /\ row'[t].contact = reply[m].contact
         /\ row'[t].known = row[t].known
    \/ \E s \in Seats : /\ comm[s] = "sent" /\ t \in Rows(Node(s)) /\ Before(t) = Before(s)
                        /\ row'[t] = [row[t] EXCEPT !.known = TRUE]

\* The seat before s has a row and sends the offer on.
SentFrom(r, s) ==
    /\ r \in Seats /\ ~IsFarEnd(r) /\ s = Onward(r)
    /\ recv[r] = "insert" \/ (Arrived(r) /\ recv[s] = "none")
    /\ row'[r].status # "none"

RecvMoves(s) ==
    \/ recv'[s] = recv[s]
    \/ /\ recv'[s] = "sent" /\ s[2] = 2 /\ asker'.step = "sending"
       /\ Len(asker'.heard) < Len(paths) /\ s[1] = paths[Len(asker'.heard) + 1]
       /\ asker.step = "idle" \/ Len(asker'.heard) = Len(asker.heard) + 1
    \/ recv'[s] = "sent" /\ \E r \in Seats : SentFrom(r, s)
    \/ /\ recv[s] = "sent" /\ recv' = [recv EXCEPT ![s] = "insert"] /\ UNCHANGED row
       /\ Rows(Node(s)) = {}
       /\ Uncrowded' => \A t \in Seats : recv[t] = "insert" => Node(t) # Node(s)
    \/ /\ recv[s] = "insert" /\ recv'[s] \in {"forward", "ok"} /\ row'[s].status # "none"
       /\ recv'[s] = "forward" => ~IsFarEnd(s)
    \/ recv[s] # "none" /\ recv'[s] \in {"ok", "failed"}
    \/ recv[s] \in {"forward", "answer"} /\ recv'[s] \in {"answer", "waiting"}

DecMoves(d) ==
    \/ dec'[d] = dec[d]
    \/ dec'[d].step = "loaded" /\ dec'[d].seat \in Seats /\ Arrived(dec'[d].seat)
    \/ /\ dec[d].step = "loaded" /\ dec'[d].step = "carry" /\ dec'[d].seat = dec[d].seat
       /\ ~IsFarEnd(dec[d].seat)
    \/ /\ dec[d].step \in {"loaded", "carry"} /\ dec'[d].step = "answer"
       /\ dec'[d].seat = dec[d].seat
    \/ dec'[d].step \in Decided

ReplyMoves(m) ==
    \/ reply'[m] = reply[m]
    \/ reply[m].step # "none" /\ \E how \in {"ok", "failed"} : reply'[m] = Over(how)
    \/ /\ Arrived(m[1]) /\ m[2] = row[m[1]].status
       /\ reply'[m].step = "sent" /\ reply'[m].to = None
       /\ reply'[m].contact = row[m[1]].contact
    \/ /\ reply[m].step \in {"sent", "heard"} /\ reply'[m].step \in {"heard", "noted"}
       /\ reply'[m].to = reply[m].to /\ reply'[m].contact = reply[m].contact
       /\ reply[m].step = "sent" => m[1][2] = 2 /\ asker.step = "done"
    \/ /\ reply[m].step = "sent" /\ reply'[m].step = "relayed" /\ "early" \in odd'
       /\ m[1][2] = 2 /\ reply'[m].to = reply[m].to /\ reply'[m].contact = reply[m].contact
    \/ /\ reply[m].step = "sent" /\ reply'[m].step = "relayed" /\ m[1][2] > 2
       /\ reply'[m].to \in Rows(Before(m[1])) /\ reply'[m].contact = reply[m].contact
    \/ /\ reply[m].step = "relayed" /\ reply'[m].step = "passing" /\ reply[m].to # None
       /\ reply'[m].to = reply[m].to /\ ~reply'[m].contact
    \/ /\ reply[m].step = "passing" /\ reply'[m].step = "waiting"
       /\ reply'[m].to = reply[m].to /\ reply'[m].contact = reply[m].contact

OfferMoves ==
    /\ offer.committed => offer'.committed
    /\ \/ offer'.path = offer.path /\ offer'.contact = offer.contact
       \/ asker.step \in {"sending", "closing"} /\ offer'.contact = offer.contact
       \/ \E m \in Messages : /\ reply[m].step = "relayed" /\ reply[m].to = None
                              /\ offer'.contact = reply[m].contact
       \/ \E m \in Messages : /\ reply[m].step = "noted" /\ m[2] = "accepted"
                              /\ offer'.contact = reply[m].contact /\ offer'.path = Via(m)

CommitMoves ==
    \/ commit' = commit
    \/ commit' = "loaded" /\ (Orderly' => offer.contact) /\ UNCHANGED offer
    \/ commit = "loaded" /\ commit' = "call" /\ offer'.committed
    \/ commit = "call" /\ commit' = "done" /\ UNCHANGED offer
    \/ commit' = "dead"

CommMoves(s) ==
    \/ comm'[s] = comm[s]
    \/ comm[s] = "sent" /\ comm'[s] \in {"ok", "failed"}
    \/ comm'[s] = "sent" /\ commit = "call" /\ s = Seat(offer.path, 2)
    \/ /\ comm'[s] = "sent"
       /\ \E r, t \in Seats :
            /\ comm[r] = "sent" /\ t \in Rows(Node(r)) /\ Before(t) = Before(r)
            /\ ~IsFarEnd(t) /\ s = Onward(t)

HistoryMoves ==
    /\ UNCHANGED paths
    /\ odd \subseteq odd'
    /\ accepts \subseteq accepts'
    /\ \A a \in accepts' \ accepts : a \in Seats /\ IsFarEnd(a) /\ Arrived(a)
    /\ asker.step = "done" => asker'.step = "done"
    /\ asker.step # "idle" => asker'.step # "idle"

AskerMoves ==
    \/ UNCHANGED asker
    \/ asker.step = "idle" /\ asker' = [asker EXCEPT !.step = "sending"]
    \/ /\ asker.step = "sending"
       /\ \E result \in Results :
            asker' = [step |-> IF Len(asker.heard) + 1 < Len(paths) THEN "sending" ELSE "closing",
                      heard |-> Append(asker.heard, result)]
    \/ asker.step = "closing" /\ asker' = [asker EXCEPT !.step = "done"]
    \/ asker' = [asker EXCEPT !.step = "dead"]

Framed ==
    /\ \A t \in Seats : RowMoves(t)
    /\ \A s \in Seats : RecvMoves(s)
    /\ \A d \in Decisions : DecMoves(d)
    /\ \A m \in Messages : ReplyMoves(m)
    /\ OfferMoves /\ CommitMoves
    /\ \A s \in Seats : CommMoves(s)
    /\ HistoryMoves /\ AskerMoves

LEMMA Kept ==
    /\ row' = row => \A t \in Seats : RowMoves(t)
    /\ recv' = recv => \A s \in Seats : RecvMoves(s)
    /\ dec' = dec => \A d \in Decisions : DecMoves(d)
    /\ reply' = reply => \A m \in Messages : ReplyMoves(m)
    /\ offer' = offer => OfferMoves
    /\ commit' = commit => CommitMoves
    /\ comm' = comm => \A s \in Seats : CommMoves(s)
    /\ asker' = asker => AskerMoves
    /\ paths' = paths /\ odd \subseteq odd' /\ accepts' = accepts /\ asker' = asker => HistoryMoves
BY Zenon DEF RowMoves, RecvMoves, DecMoves, ReplyMoves, OfferMoves, CommitMoves, CommMoves,
             AskerMoves, HistoryMoves

LEMMA AskerFramed ==
    ASSUME IntroductionsInv, Ask \/ StartStep
    PROVE  Framed
<1> USE DEF rows, handlers, history
<1>0. /\ paths \in Seq(Routes) /\ Len(paths) \in Nat /\ Len(paths) >= 1
      /\ asker \in [step : {"idle", "sending", "closing", "done", "dead"}, heard : Seq(Results)]
      /\ asker.step = "idle" => asker.heard = <<>>
      /\ recv \in [Seats -> Quiet \cup {"sent", "insert", "forward", "answer", "waiting"}]
      /\ offer \in [status : Answers \cup {"none", "pending"}, routes : [Routes -> Results],
                    path : Routes, blocked : SUBSET Nodes, contact : BOOLEAN,
                    committed : BOOLEAN]
  BY IntroductionsAssumption DEF IntroductionsInv, AskerInOrder, TypeOK
<1>1. ASSUME Ask PROVE Framed
  <2>1. \A s \in Seats : RecvMoves(s)
    <3> SUFFICES ASSUME NEW s \in Seats PROVE RecvMoves(s)
      OBVIOUS
    <3>1. CASE s = <<paths[1], 2>>
      <4>1. recv'[s] = "sent" /\ asker'.step = "sending" /\ asker'.heard = <<>>
        BY <1>0, <1>1, <3>1 DEF Ask
      <4>2. s[1] = paths[1] /\ s[2] = 2 /\ Len(<<>>) = 0
        BY <3>1
      <4> QED
        BY <4>1, <4>2, <1>0, <1>1 DEF RecvMoves, Ask
    <3>2. CASE s # <<paths[1], 2>>
      BY <1>0, <1>1, <3>2 DEF RecvMoves, Ask
    <3> QED
      BY <3>1, <3>2
  <2>2. OfferMoves
    BY <1>0, <1>1 DEF Ask, OfferMoves
  <2>3. AskerMoves /\ HistoryMoves
    BY <1>0, <1>1 DEF Ask, AskerMoves, HistoryMoves
  <2> QED
    BY <2>1, <2>2, <2>3, <1>1, Kept DEF Ask, Framed
<1>2. ASSUME NEW result \in Results, asker.step = "sending", Heard(result),
             UNCHANGED <<paths, history>>
      PROVE  (\A s \in Seats : RecvMoves(s)) /\ AskerMoves /\ HistoryMoves
  <2> DEFINE h == Append(asker.heard, result)
  <2>1. Len(h) = Len(asker.heard) + 1 /\ Len(asker.heard) \in Nat
    BY <1>0
  <2>2. asker'.step = (IF Len(h) < Len(paths) THEN "sending" ELSE "closing") /\ asker'.heard = h
    BY <1>2 DEF Heard
  <2>3. AskerMoves /\ HistoryMoves
    <3>1. asker' = [step |-> IF Len(asker.heard) + 1 < Len(paths) THEN "sending" ELSE "closing",
                    heard |-> h]
      BY <1>2, <2>1 DEF Heard
    <3>2. AskerMoves
      BY <3>1, <1>2 DEF AskerMoves
    <3> QED
      BY <3>2, <1>2, <2>2 DEF HistoryMoves
  <2>4. ASSUME NEW s \in Seats PROVE RecvMoves(s)
    <3>1. CASE Len(h) < Len(paths) /\ s = <<paths[Len(h) + 1], 2>>
      <4>1. recv'[s] = "sent" /\ asker'.step = "sending"
        BY <1>0, <1>2, <2>2, <3>1 DEF Heard
      <4>2. s[1] = paths[Len(h) + 1] /\ s[2] = 2
        BY <3>1
      <4> QED
        BY <4>1, <4>2, <2>1, <2>2, <3>1 DEF RecvMoves
    <3>2. CASE ~(Len(h) < Len(paths) /\ s = <<paths[Len(h) + 1], 2>>)
      <4>1. recv'[s] = recv[s]
        BY <1>0, <1>2, <3>2 DEF Heard
      <4> QED
        BY <4>1 DEF RecvMoves
    <3> QED
      BY <3>1, <3>2
  <2> QED
    BY <2>3, <2>4
<1>3. ASSUME RouteCarries PROVE Framed
  <2>1. (\A s \in Seats : RecvMoves(s)) /\ AskerMoves /\ HistoryMoves
    BY <1>2, <1>3 DEF RouteCarries, Results
  <2> QED
    BY <2>1, <1>3, Kept DEF RouteCarries, Framed
<1>4. ASSUME RouteFails PROVE Framed
  <2>1. (\A s \in Seats : RecvMoves(s)) /\ AskerMoves /\ HistoryMoves
    BY <1>2, <1>4 DEF RouteFails, Results
  <2>2. OfferMoves
    BY <1>0, <1>4 DEF RouteFails, OfferMoves
  <2> QED
    BY <2>1, <2>2, <1>4, Kept DEF RouteFails, Framed
<1>5. ASSUME CloseStart PROVE Framed
  <2>1. OfferMoves
    BY <1>0, <1>5 DEF CloseStart, OfferMoves
  <2>2. AskerMoves /\ HistoryMoves
    BY <1>0, <1>5 DEF CloseStart, AskerMoves, HistoryMoves
  <2> QED
    BY <2>1, <2>2, <1>5, Kept DEF CloseStart, Framed
<1> QED
  BY <1>1, <1>3, <1>4, <1>5 DEF StartStep

\* _reply_back changes one answer, which says what the row says.
LEMMA SentAnswer ==
    ASSUME IntroductionsInv, NEW s \in Seats, MayAnswer(s), reply' = Answer(reply, s)
    PROVE  \A m \in Messages : ReplyMoves(m)
<1>1. /\ reply \in [Messages -> [step : Quiet \cup {"sent", "heard", "noted", "relayed",
                                                    "passing", "waiting"},
                                 was : Answers \cup {"none", "pending"},
                                 to : Seats \cup {None}, blocked : SUBSET Nodes,
                                 contact : BOOLEAN]]
      /\ row[s].status \in Answers /\ Arrived(s)
  BY DEF IntroductionsInv, TypeOK, MayAnswer, Arrived, Answers
<1>2. <<s, row[s].status>> \in Messages
  BY <1>1 DEF Messages
<1>3. ASSUME NEW m \in Messages, m = <<s, row[s].status>> PROVE ReplyMoves(m)
  <2>1. m[1] = s /\ m[2] = row[s].status
    BY <1>3
  <2>2. reply'[m] = [Over("sent") EXCEPT !.blocked = row[s].blocked, !.contact = row[s].contact]
    BY <1>1, <1>2, <1>3 DEF Answer
  <2>3. reply'[m].step = "sent" /\ reply'[m].to = None /\ reply'[m].contact = row[s].contact
    BY <2>2 DEF Over
  <2> QED
    BY <1>1, <2>1, <2>3 DEF ReplyMoves
<1>4. ASSUME NEW m \in Messages, m # <<s, row[s].status>> PROVE ReplyMoves(m)
  <2>1. reply'[m] = reply[m]
    BY <1>1, <1>4 DEF Answer
  <2> QED
    BY <2>1 DEF ReplyMoves
<1> QED
  BY <1>3, <1>4

LEMMA ReceiveFramed ==
    ASSUME IntroductionsInv, NEW s \in Seats, ReceiveStep(s)
    PROVE  Framed
<1> USE DEF rows, handlers, history
<1>0. /\ recv \in [Seats -> Quiet \cup {"sent", "insert", "forward", "answer", "waiting"}]
      /\ row \in [Seats -> [status : Answers \cup {"none", "pending"},
                            blocked : SUBSET Nodes, contact : BOOLEAN, known : BOOLEAN]]
      /\ recv[s] \in {"forward", "answer", "waiting"} => Arrived(s)
      /\ None \notin Seats
  BY IntroductionsAssumption DEF IntroductionsInv, ArrivedOnce, TypeOK
<1>1. ASSUME RecogniseOffer(s) PROVE Framed
  <2>1. \A t \in Seats : RecvMoves(t)
    BY <1>0, <1>1 DEF RecogniseOffer, RecvMoves
  <2> QED
    BY <2>1, <1>1, Kept DEF RecogniseOffer, Framed
<1>2. ASSUME TakeOffer(s) PROVE Framed
  <2>1. odd \subseteq odd' /\ accepts' = accepts
    BY <1>2 DEF TakeOffer
  <2>2. Uncrowded' => \A t \in Seats : recv[t] = "insert" => Node(t) # Node(s)
    BY <1>2 DEF TakeOffer, Uncrowded
  <2>3. \A t \in Seats : RecvMoves(t)
    BY <1>0, <1>2, <2>2 DEF TakeOffer, RecvMoves
  <2> QED
    BY <2>1, <2>3, <1>2, Kept DEF TakeOffer, Framed
<1>3. ASSUME InsertOffer(s) PROVE Framed
  <2>1. \A t \in Seats : RowMoves(t)
    BY <1>0, <1>3 DEF InsertOffer, RowMoves
  <2>2. row'[s].status # "none" /\ recv[s] = "insert"
    BY <1>0, <1>3 DEF InsertOffer
  <2>3. ASSUME NEW t \in Seats PROVE RecvMoves(t)
    <3>1. CASE t = s
      <4>1. recv'[s] \in {"forward", "ok"} /\ (recv'[s] = "forward" => ~IsFarEnd(s))
        BY <1>3 DEF InsertOffer
      <4> QED
        BY <4>1, <2>2, <3>1 DEF RecvMoves
    <3>2. CASE t # s /\ ~IsFarEnd(s) /\ t = Onward(s)
      <4>1. SentFrom(s, t)
        BY <2>2, <3>2 DEF SentFrom
      <4>2. recv'[t] = "sent" \/ recv'[t] = recv[t]
        BY <1>3, <3>2 DEF InsertOffer
      <4> QED
        BY <4>1, <4>2 DEF RecvMoves
    <3>3. CASE t # s /\ ~(~IsFarEnd(s) /\ t = Onward(s))
      <4>1. recv'[t] = recv[t]
        BY <1>3, <3>3 DEF InsertOffer
      <4> QED
        BY <4>1 DEF RecvMoves
    <3> QED
      BY <3>1, <3>2, <3>3
  <2> QED
    BY <2>1, <2>3, <1>3, Kept DEF InsertOffer, Framed
<1>4. ASSUME CarryOn(s) PROVE Framed
  <2>1. \A t \in Seats : RowMoves(t)
    BY <1>0, <1>4 DEF CarryOn, RowMoves
  <2>2. \A t \in Seats : RecvMoves(t)
    BY <1>0, <1>4 DEF CarryOn, RecvMoves
  <2> QED
    BY <2>1, <2>2, <1>4, Kept DEF CarryOn, Framed
<1>5. ASSUME FailToCarry(s) PROVE Framed
  <2>1. \A t \in Seats : RowMoves(t)
    BY <1>0, <1>5 DEF FailToCarry, RowMoves
  <2>2. \A t \in Seats : RecvMoves(t)
    BY <1>0, <1>5 DEF FailToCarry, RecvMoves
  <2> QED
    BY <2>1, <2>2, <1>5, Kept DEF FailToCarry, Framed
<1>6. ASSUME AnswerUnreachable(s) PROVE Framed
  <2>1. \A t \in Seats : RecvMoves(t)
    BY <1>0, <1>6 DEF AnswerUnreachable, RecvMoves
  <2>2. \A m \in Messages : ReplyMoves(m)
    BY <1>6, SentAnswer DEF AnswerUnreachable
  <2> QED
    BY <2>1, <2>2, <1>6, Kept DEF AnswerUnreachable, Framed
<1>7. ASSUME FinishReceive(s) PROVE Framed
  <2>1. \A t \in Seats : RecvMoves(t)
    BY <1>0, <1>7 DEF FinishReceive, RecvMoves
  <2> QED
    BY <2>1, <1>7, Kept DEF FinishReceive, Framed
<1> QED
  BY <1>1, <1>2, <1>3, <1>4, <1>5, <1>6, <1>7 DEF ReceiveStep

LEMMA DecideFramed ==
    ASSUME IntroductionsInv, NEW d \in Decisions, DecideStep(d)
    PROVE  Framed
<1> USE DEF rows, handlers, history
<1> DEFINE s == dec[d].seat
<1>0. /\ dec \in [Decisions -> [step : Decided \cup {"idle", "loaded", "carry", "answer"},
                                seat : Seats \cup {None},
                                answer : {"accept", "decline", "late"}]]
      /\ row \in [Seats -> [status : Answers \cup {"none", "pending"},
                            blocked : SUBSET Nodes, contact : BOOLEAN, known : BOOLEAN]]
      /\ recv \in [Seats -> Quiet \cup {"sent", "insert", "forward", "answer", "waiting"}]
      /\ dec[d].step \in {"loaded", "carry", "answer"} => s \in Seats /\ Arrived(s)
      /\ dec[d].step = "carry" => ~IsFarEnd(s)
      /\ accepts \subseteq Seats
  BY DEF IntroductionsInv, DecidesOnRow, TypeOK
<1>1. ASSUME ExpireRow(d) PROVE Framed
  <2>1. \A t \in Seats : RowMoves(t)
    BY <1>0, <1>1 DEF ExpireRow, RowMoves
  <2>2. \A e \in Decisions : DecMoves(e)
    BY <1>0, <1>1 DEF ExpireRow, DecMoves, Idle, Decided
  <2> QED
    BY <2>1, <2>2, <1>1, Kept DEF ExpireRow, Framed
<1>2. ASSUME Decline(d) PROVE Framed
  <2>1. \A t \in Seats : RowMoves(t)
    BY <1>0, <1>2 DEF Decline, RowMoves
  <2>2. \A e \in Decisions : DecMoves(e)
    BY <1>0, <1>2 DEF Decline, DecMoves
  <2> QED
    BY <2>1, <2>2, <1>2, Kept DEF Decline, Framed
<1>3. ASSUME Accept(d) PROVE Framed
  <2>1. ASSUME NEW t \in Seats PROVE RowMoves(t)
    <3>1. CASE t = s
      <4>1. row'[s].status = "accepted" /\ row'[s].known = row[s].known /\ s \in accepts'
        BY <1>0, <1>3 DEF Accept
      <4> QED
        BY <4>1, <3>1, <1>0, <1>3 DEF RowMoves, Accept
    <3>2. CASE t # s
      <4>1. row'[t] = row[t]
        BY <1>0, <1>3, <3>2 DEF Accept
      <4> QED
        BY <4>1 DEF RowMoves
    <3> QED
      BY <3>1, <3>2
  <2>2. \A e \in Decisions : DecMoves(e)
    BY <1>0, <1>3 DEF Accept, DecMoves
  <2>3. HistoryMoves
    BY <1>0, <1>3 DEF Accept, HistoryMoves
  <2> QED
    BY <2>1, <2>2, <2>3, <1>3, Kept DEF Accept, Framed
<1>4. ASSUME PassOn(d) PROVE Framed
  <2>1. \A e \in Decisions : DecMoves(e)
    BY <1>0, <1>4 DEF PassOn, DecMoves
  <2>2. SentFrom(s, Onward(s))
    BY <1>0, <1>4 DEF PassOn, SentFrom, Arrived
  <2>3. \A t \in Seats : RecvMoves(t)
    BY <1>0, <1>4, <2>2 DEF PassOn, RecvMoves
  <2> QED
    BY <2>1, <2>3, <1>4, Kept DEF PassOn, Framed
<1>5. ASSUME PassedOn(d) PROVE Framed
  <2>1. \A t \in Seats : RowMoves(t)
    BY <1>0, <1>5 DEF PassedOn, RowMoves
  <2>2. \A e \in Decisions : DecMoves(e)
    BY <1>0, <1>5 DEF PassedOn, DecMoves, Idle, Decided
  <2> QED
    BY <2>1, <2>2, <1>5, Kept DEF PassedOn, Framed
<1>6. ASSUME FailToPassOn(d) PROVE Framed
  <2>1. \A t \in Seats : RowMoves(t)
    BY <1>0, <1>6 DEF FailToPassOn, RowMoves
  <2>2. \A e \in Decisions : DecMoves(e)
    BY <1>0, <1>6 DEF FailToPassOn, DecMoves
  <2> QED
    BY <2>1, <2>2, <1>6, Kept DEF FailToPassOn, Framed
<1>7. ASSUME AnswerDecision(d) PROVE Framed
  <2>1. \A e \in Decisions : DecMoves(e)
    BY <1>0, <1>7 DEF AnswerDecision, DecMoves, Idle, Decided
  <2>2. \A m \in Messages : ReplyMoves(m)
    BY <1>0, <1>7, SentAnswer DEF AnswerDecision
  <2> QED
    BY <2>1, <2>2, <1>7, Kept DEF AnswerDecision, Framed
<1> QED
  BY <1>1, <1>2, <1>3, <1>4, <1>5, <1>6, <1>7 DEF DecideStep

LEMMA ReplyFramed ==
    ASSUME IntroductionsInv, NEW m \in Messages, ReplyStep(m)
    PROVE  Framed
<1> USE DEF rows, handlers, history
<1>0. /\ reply \in [Messages -> [step : Quiet \cup {"sent", "heard", "noted", "relayed",
                                                    "passing", "waiting"},
                                 was : Answers \cup {"none", "pending"},
                                 to : Seats \cup {None}, blocked : SUBSET Nodes,
                                 contact : BOOLEAN]]
      /\ offer \in [status : Answers \cup {"none", "pending"}, routes : [Routes -> Results],
                    path : Routes, blocked : SUBSET Nodes, contact : BOOLEAN,
                    committed : BOOLEAN]
      /\ row \in [Seats -> [status : Answers \cup {"none", "pending"},
                            blocked : SUBSET Nodes, contact : BOOLEAN, known : BOOLEAN]]
      /\ m[1] \in Seats /\ m[2] \in Answers
  BY DEF IntroductionsInv, TypeOK, Messages
<1>1. ASSUME HearAnswer(m) PROVE Framed
  <2>1. \A n \in Messages : ReplyMoves(n)
    BY <1>0, <1>1 DEF HearAnswer, ReplyMoves
  <2> QED
    BY <2>1, <1>1, Kept DEF HearAnswer, Framed
<1>2. ASSUME NoteAnswer(m) PROVE Framed
  <2>1. \A n \in Messages : ReplyMoves(n)
    BY <1>0, <1>2 DEF NoteAnswer, ReplyMoves
  <2>2. OfferMoves
    <3>1. \E x : offer' = [offer EXCEPT !.status = x]
      BY <1>2 DEF NoteAnswer
    <3> QED
      BY <1>0, <3>1 DEF OfferMoves
  <2> QED
    BY <2>1, <2>2, <1>2, Kept DEF NoteAnswer, Framed
<1>3. ASSUME CloseAnswer(m) PROVE Framed
  <2>1. \A n \in Messages : ReplyMoves(n)
    BY <1>0, <1>3 DEF CloseAnswer, ReplyMoves
  <2>2. OfferMoves
    <3>1. CASE m[2] = "accepted"
      <4>1. offer' = [offer EXCEPT !.contact = reply[m].contact, !.path = Via(m)]
        BY <1>3, <3>1 DEF CloseAnswer
      <4>2. offer'.contact = reply[m].contact /\ offer'.path = Via(m)
            /\ offer'.committed = offer.committed
        BY <4>1, <1>0
      <4> QED
        BY <4>2, <3>1, <1>3 DEF OfferMoves, CloseAnswer
    <3>2. CASE m[2] # "accepted"
      <4>1. offer' = offer \/ \E x : offer' = [offer EXCEPT !.blocked = x]
        BY <1>3, <3>2 DEF CloseAnswer
      <4> QED
        BY <4>1, <1>0 DEF OfferMoves
    <3> QED
      BY <3>1, <3>2
  <2> QED
    BY <2>1, <2>2, <1>3, Kept DEF CloseAnswer, Framed
<1>4. ASSUME HearEarlyAnswer(m) PROVE Framed
  <2>0. odd \subseteq odd' /\ "early" \in odd'
    BY <1>4 DEF HearEarlyAnswer
  <2>1. \A n \in Messages : ReplyMoves(n)
    BY <1>0, <1>4, <2>0 DEF HearEarlyAnswer, ReplyMoves
  <2> QED
    BY <2>0, <2>1, <1>4, Kept DEF HearEarlyAnswer, Framed
<1>5. ASSUME NEW t \in Seats, RelayHears(m, t) PROVE Framed
  <2>0. odd \subseteq odd'
    BY <1>5 DEF RelayHears
  <2>1. \A n \in Messages : ReplyMoves(n)
    BY <1>0, <1>5 DEF RelayHears, ReplyMoves
  <2> QED
    BY <2>0, <2>1, <1>5, Kept DEF RelayHears, Framed
<1>6. ASSUME NEW t \in Seats, RelayRefuses(m, t) PROVE Framed
  <2>1. \A n \in Messages : ReplyMoves(n)
    BY <1>0, <1>6 DEF RelayRefuses, ReplyMoves
  <2> QED
    BY <2>1, <1>6, Kept DEF RelayRefuses, Framed
<1>7. ASSUME CopyAnswer(m) PROVE Framed
  <2>1. \A n \in Messages : ReplyMoves(n)
    BY <1>0, <1>7 DEF CopyAnswer, ReplyMoves, Over
  <2>2. \A t \in Seats : RowMoves(t)
    <3> SUFFICES ASSUME NEW t \in Seats PROVE RowMoves(t)
      OBVIOUS
    <3>1. CASE reply[m].to = t /\ t # None
      <4>1. row'[t].status = m[2] /\ row'[t].contact = reply[m].contact
            /\ row'[t].known = row[t].known /\ reply[m].step = "relayed"
        BY <1>0, <1>7, <3>1 DEF CopyAnswer
      <4> QED
        BY <4>1, <3>1 DEF RowMoves
    <3>2. CASE ~(reply[m].to = t /\ t # None)
      <4>1. row'[t] = row[t]
        BY <1>0, <1>7, <3>2 DEF CopyAnswer
      <4> QED
        BY <4>1 DEF RowMoves
    <3> QED
      BY <3>1, <3>2
  <2>3. OfferMoves
    <3>1. CASE reply[m].to = None
      <4>1. offer'.contact = reply[m].contact /\ offer'.committed = offer.committed
            /\ reply[m].step = "relayed"
        BY <1>0, <1>7, <3>1 DEF CopyAnswer
      <4> QED
        BY <4>1, <3>1 DEF OfferMoves
    <3>2. CASE reply[m].to # None
      BY <1>7, <3>2 DEF CopyAnswer, OfferMoves
    <3> QED
      BY <3>1, <3>2
  <2> QED
    BY <2>1, <2>2, <2>3, <1>7, Kept DEF CopyAnswer, Framed
<1>8. ASSUME PassAnswer(m) PROVE Framed
  <2>1. PICK t : t = reply[m].to
    OBVIOUS
  <2>2. /\ reply[m].step = "passing" /\ MayAnswer(t)
        /\ reply' = [Answer(reply, t) EXCEPT ![m].step = "waiting"]
    BY <1>8, <2>1 DEF PassAnswer
  <2>3. t \in Seats /\ Arrived(t)
    BY <1>0, <2>1, <2>2 DEF IntroductionsInv, AnswersFromRow
  <2>4. <<t, row[t].status>> \in Messages /\ <<t, row[t].status>> # m
    BY <2>2, <2>3 DEF Messages, MayAnswer, Quiet
  <2>5. reply'[m] = [reply[m] EXCEPT !.step = "waiting"]
    BY <1>0, <2>2, <2>4 DEF Answer
  <2>6. ASSUME NEW n \in Messages, n = <<t, row[t].status>> PROVE ReplyMoves(n)
    <3>1. n[1] = t /\ n[2] = row[t].status /\ n # m
      BY <2>4, <2>6
    <3>2. reply'[n] = [Over("sent") EXCEPT !.blocked = row[t].blocked,
                                           !.contact = row[t].contact]
      BY <1>0, <2>2, <2>4, <2>6 DEF Answer
    <3>3. /\ reply'[n].step = "sent" /\ reply'[n].to = None
          /\ reply'[n].contact = row[t].contact
      BY <3>2 DEF Over
    <3> QED
      BY <2>3, <3>1, <3>3 DEF ReplyMoves
  <2>7. ASSUME NEW n \in Messages, n # <<t, row[t].status>>, n # m PROVE ReplyMoves(n)
    <3>1. reply'[n] = reply[n]
      BY <1>0, <2>2, <2>7 DEF Answer
    <3> QED
      BY <3>1 DEF ReplyMoves
  <2>8. ReplyMoves(m)
    <3>1. /\ reply'[m].step = "waiting" /\ reply'[m].to = reply[m].to
          /\ reply'[m].contact = reply[m].contact
      BY <1>0, <2>5
    <3> QED
      BY <3>1, <2>2 DEF ReplyMoves
  <2>9. \A n \in Messages : ReplyMoves(n)
    BY <2>6, <2>7, <2>8
  <2> QED
    BY <2>9, <1>8, Kept DEF PassAnswer, Framed
<1>9. ASSUME FinishReply(m) PROVE Framed
  <2>1. \A n \in Messages : ReplyMoves(n)
    BY <1>0, <1>9 DEF FinishReply, ReplyMoves
  <2> QED
    BY <2>1, <1>9, Kept DEF FinishReply, Framed
<1> QED
  BY <1>1, <1>2, <1>3, <1>4, <1>5, <1>6, <1>7, <1>8, <1>9 DEF ReplyStep

LEMMA CommitFramed ==
    ASSUME IntroductionsInv, LoadCommit \/ CommitStep
    PROVE  Framed
<1> USE DEF rows, handlers, history
<1>0. /\ comm \in [Seats -> Quiet \cup {"sent"}]
      /\ offer \in [status : Answers \cup {"none", "pending"}, routes : [Routes -> Results],
                    path : Routes, blocked : SUBSET Nodes, contact : BOOLEAN,
                    committed : BOOLEAN]
      /\ row \in [Seats -> [status : Answers \cup {"none", "pending"},
                            blocked : SUBSET Nodes, contact : BOOLEAN, known : BOOLEAN]]
  BY DEF IntroductionsInv, TypeOK
<1>1. ASSUME LoadCommit PROVE Framed
  <2>1. odd \subseteq odd' /\ (Orderly' => offer.contact)
    BY <1>1 DEF LoadCommit, Orderly
  <2>2. CommitMoves
    BY <1>1, <2>1 DEF LoadCommit, CommitMoves
  <2> QED
    BY <2>1, <2>2, <1>1, Kept DEF LoadCommit, Framed
<1>2. ASSUME CommitOffer PROVE Framed
  <2>1. offer'.committed /\ offer'.path = offer.path /\ offer'.contact = offer.contact
    BY <1>0, <1>2 DEF CommitOffer
  <2>2. CommitMoves /\ OfferMoves
    BY <1>2, <2>1 DEF CommitOffer, CommitMoves, OfferMoves
  <2> QED
    BY <2>2, <1>2, Kept DEF CommitOffer, Framed
<1>3. ASSUME CallCommit PROVE Framed
  <2>1. CommitMoves
    BY <1>3 DEF CallCommit, CommitMoves
  <2>2. \A s \in Seats : CommMoves(s)
    BY <1>0, <1>3 DEF CallCommit, CommMoves, Seat
  <2> QED
    BY <2>1, <2>2, <1>3, Kept DEF CallCommit, Framed
<1>4. ASSUME NEW s \in Seats, RefuseCommit(s) PROVE Framed
  <2>1. \A u \in Seats : CommMoves(u)
    BY <1>0, <1>4 DEF RefuseCommit, CommMoves
  <2> QED
    BY <2>1, <1>4, Kept DEF RefuseCommit, Framed
<1>5. ASSUME NEW s \in Seats, NEW t \in Seats, ReceiveCommit(s, t) PROVE Framed
  <2>1. \A u \in Seats : CommMoves(u)
    <3> SUFFICES ASSUME NEW u \in Seats PROVE CommMoves(u)
      OBVIOUS
    <3>1. CASE u = s
      BY <1>5, <3>1 DEF ReceiveCommit, CommMoves
    <3>2. CASE u # s /\ ~IsFarEnd(t) /\ u = Onward(t)
      BY <1>5, <3>2 DEF ReceiveCommit, CommMoves
    <3>3. CASE u # s /\ ~(~IsFarEnd(t) /\ u = Onward(t))
      BY <1>5, <3>3 DEF ReceiveCommit, CommMoves
    <3> QED
      BY <3>1, <3>2, <3>3
  <2>2. \A u \in Seats : RowMoves(u)
    <3> SUFFICES ASSUME NEW u \in Seats PROVE RowMoves(u)
      OBVIOUS
    <3>1. CASE u = t
      <4>1. row'[t] = [row[t] EXCEPT !.known = TRUE]
        BY <1>0, <1>5 DEF ReceiveCommit
      <4> QED
        BY <4>1, <1>5, <3>1 DEF ReceiveCommit, RowMoves
    <3>2. CASE u # t
      <4>1. row'[u] = row[u]
        BY <1>0, <1>5, <3>2 DEF ReceiveCommit
      <4> QED
        BY <4>1 DEF RowMoves
    <3> QED
      BY <3>1, <3>2
  <2> QED
    BY <2>1, <2>2, <1>5, Kept DEF ReceiveCommit, Framed
<1> QED
  BY <1>1, <1>2, <1>3, <1>4, <1>5 DEF CommitStep

LEMMA FaultFramed ==
    ASSUME IntroductionsInv, Fault
    PROVE  Framed
<1> USE DEF rows, handlers, history
<1>0. /\ recv \in [Seats -> Quiet \cup {"sent", "insert", "forward", "answer", "waiting"}]
      /\ dec \in [Decisions -> [step : Decided \cup {"idle", "loaded", "carry", "answer"},
                                seat : Seats \cup {None},
                                answer : {"accept", "decline", "late"}]]
      /\ reply \in [Messages -> [step : Quiet \cup {"sent", "heard", "noted", "relayed",
                                                    "passing", "waiting"},
                                 was : Answers \cup {"none", "pending"},
                                 to : Seats \cup {None}, blocked : SUBSET Nodes,
                                 contact : BOOLEAN]]
      /\ comm \in [Seats -> Quiet \cup {"sent"}]
      /\ asker \in [step : {"idle", "sending", "closing", "done", "dead"}, heard : Seq(Results)]
  BY DEF IntroductionsInv, AskerInOrder, TypeOK
<1>1. UNCHANGED <<paths, offer, row, accepts, odd>>
  BY DEF Fault
<1>2. ASSUME LoseCall PROVE Framed
  <2>1. \A s \in Seats : RecvMoves(s)
    BY <1>0, <1>2 DEF LoseCall, RecvMoves
  <2>2. \A m \in Messages : ReplyMoves(m)
    BY <1>0, <1>2 DEF LoseCall, ReplyMoves
  <2>3. \A s \in Seats : CommMoves(s)
    BY <1>0, <1>2 DEF LoseCall, CommMoves
  <2> QED
    BY <2>1, <2>2, <2>3, <1>1, <1>2, Kept DEF LoseCall, Framed
<1>3. ASSUME Die PROVE Framed
  <2>1. \A s \in Seats : RecvMoves(s)
    BY <1>0, <1>3 DEF Die, RecvMoves
  <2>2. \A m \in Messages : ReplyMoves(m)
    BY <1>0, <1>3 DEF Die, ReplyMoves
  <2>3. \A d \in Decisions : DecMoves(d)
    BY <1>0, <1>3 DEF Die, DecMoves, Idle, Decided
  <2>4. AskerMoves /\ HistoryMoves
    BY <1>0, <1>1, <1>3 DEF Die, AskerMoves, HistoryMoves
  <2>5. CommitMoves
    BY <1>3 DEF Die, CommitMoves
  <2> QED
    BY <2>1, <2>2, <2>3, <2>4, <2>5, <1>1, <1>3, Kept DEF Die, Framed
<1> QED
  BY <1>2, <1>3 DEF Fault

LEMMA LoadFramed ==
    ASSUME IntroductionsInv, NEW d \in Decisions, NEW s \in Seats,
           NEW answer \in {"accept", "decline", "late"}, LoadDecision(d, s, answer)
    PROVE  Framed
<1>1. odd \subseteq odd'
  BY DEF LoadDecision
<1>2. \A e \in Decisions : DecMoves(e)
  <2>1. /\ dec \in [Decisions -> [step : Decided \cup {"idle", "loaded", "carry", "answer"},
                                  seat : Seats \cup {None},
                                  answer : {"accept", "decline", "late"}]]
    BY DEF IntroductionsInv, TypeOK
  <2>2. Arrived(s)
    BY DEF LoadDecision, Arrived
  <2> QED
    BY <2>1, <2>2 DEF LoadDecision, DecMoves
<1> QED
  BY <1>1, <1>2, Kept DEF LoadDecision, Framed, rows

\* Whatever step is taken moves the variables in these ways.
LEMMA StepsAreFramed ==
    ASSUME IntroductionsInv, [Next]_vars
    PROVE  Framed
<1>1. CASE UNCHANGED vars
  BY <1>1, Kept DEF vars, rows, handlers, history, Framed
<1>2. CASE Next
  BY <1>2, AskerFramed, ReceiveFramed, DecideFramed, ReplyFramed, CommitFramed, FaultFramed,
     LoadFramed DEF Next, Serve, Act, Underway
<1> QED
  BY <1>1, <1>2

-----------------------------------------------------------------------------
(* What stays true once it is. *)

LEMMA ArrivedStays ==
    ASSUME IntroductionsInv, [Next]_vars, NEW s \in Seats
    PROVE  /\ Arrived(s) => Arrived(s)'
           /\ Arrived(s)' => Arrived(s) \/ (recv[s] = "insert" /\ recv'[s] \in {"forward", "ok"})
<1>1. /\ row[s].status \in Answers \cup {"none", "pending"}
      /\ row \in [Seats -> [status : Answers \cup {"none", "pending"},
                            blocked : SUBSET Nodes, contact : BOOLEAN, known : BOOLEAN]]
  BY DEF IntroductionsInv, TypeOK
<1>2. RowMoves(s)
  BY StepsAreFramed DEF Framed
<1>3. ASSUME NEW m \in Messages PROVE m[2] \in Answers /\ (reply[m].to = s => Arrived(s))
  BY SeatFacts DEF IntroductionsInv, AnswersFromRow, Messages
<1>4. ASSUME NEW n, s \in Rows(n) PROVE Arrived(s)
  BY <1>4 DEF Rows, Arrived
<1> QED
  BY <1>1, <1>2, <1>3, <1>4 DEF RowMoves, Arrived, Answers

LEMMA CalledStays ==
    ASSUME IntroductionsInv, [Next]_vars, NEW s \in Seats, recv[s] # "none"
    PROVE  recv'[s] # "none"
<1>1. RecvMoves(s)
  BY StepsAreFramed DEF Framed
<1>2. recv \in [Seats -> Quiet \cup {"sent", "insert", "forward", "answer", "waiting"}]
  BY DEF IntroductionsInv, TypeOK
<1> QED
  BY <1>1, <1>2 DEF RecvMoves

LEMMA HistoryStays ==
    ASSUME IntroductionsInv, [Next]_vars
    PROVE  /\ paths' = paths /\ Given' = Given
           /\ asker.step = "done" => asker'.step = "done"
           /\ asker.step # "idle" => asker'.step # "idle"
           /\ Uncrowded' => Uncrowded
           /\ Orderly' => Orderly /\ Uncrowded /\ "early" \notin odd
           /\ "early" \in odd => "early" \in odd'
           /\ accepts \subseteq accepts'
           /\ offer.committed => offer'.committed
           /\ \A t \in Seats : OnTheWay(t) => OnTheWay(t)'
           /\ \A t \in Seats : Consented(t) => Consented(t)'
           /\ \A t \in Seats : ToTheWay(t) => ToTheWay(t)'
<1>1. HistoryMoves /\ OfferMoves
  BY StepsAreFramed DEF Framed
<1>2. ASSUME NEW t \in Seats, OnTheWay(t) PROVE OnTheWay(t)'
  BY <1>1, <1>2 DEF HistoryMoves, OnTheWay
<1>3. Uncrowded' => Uncrowded
  BY <1>1 DEF HistoryMoves, Uncrowded
<1>4. ASSUME NEW t \in Seats, Consented(t) PROVE Consented(t)'
  BY <1>1, <1>2, <1>3, <1>4 DEF HistoryMoves, Consented
<1>5. ASSUME NEW t \in Seats, ToTheWay(t) PROVE ToTheWay(t)'
  BY <1>2, <1>5 DEF ToTheWay
<1>6. Orderly' => Orderly /\ Uncrowded /\ "early" \notin odd
  BY <1>1 DEF HistoryMoves, Orderly, Uncrowded
<1>7. paths' = paths /\ Given' = Given
  BY <1>1 DEF HistoryMoves, Given
<1>8. offer.committed => offer'.committed
  BY <1>1 DEF OfferMoves
<1>9. "early" \in odd => "early" \in odd'
  BY <1>1 DEF HistoryMoves
<1> QED
  BY <1>1, <1>2, <1>3, <1>4, <1>5, <1>6, <1>7, <1>8, <1>9 DEF HistoryMoves

-----------------------------------------------------------------------------
(* The asker, the arrivals, the decisions and the answers. *)

LEMMA AskerStaysInOrder ==
    ASSUME IntroductionsInv, [Next]_vars
    PROVE  AskerInOrder' /\ Len(asker.heard) \in Nat /\ Len(asker'.heard) >= Len(asker.heard)
<1>1. /\ AskerInOrder /\ paths \in Seq(Routes) /\ Len(paths) \in Nat /\ Len(paths) >= 1
      /\ asker.heard \in Seq(Results)
  BY IntroductionsAssumption DEF IntroductionsInv, AskerInOrder, TypeOK
<1>2. AskerMoves /\ paths' = paths
  BY StepsAreFramed DEF Framed, HistoryMoves
<1> USE DEF AskerInOrder
<1>3. CASE UNCHANGED asker
  BY <1>1, <1>2, <1>3
<1>4. CASE asker.step = "idle" /\ asker' = [asker EXCEPT !.step = "sending"]
  <2>1. asker'.heard = <<>> /\ asker.heard = <<>> /\ Len(<<>>) = 0
    BY <1>1, <1>4
  <2> QED
    BY <1>1, <1>2, <1>4, <2>1
<1>5. CASE /\ asker.step = "sending"
           /\ \E result \in Results :
                asker' = [step  |-> IF Len(asker.heard) + 1 < Len(paths)
                                    THEN "sending" ELSE "closing",
                          heard |-> Append(asker.heard, result)]
  <2>1. PICK result \in Results :
          asker' = [step |-> IF Len(asker.heard) + 1 < Len(paths) THEN "sending" ELSE "closing",
                    heard |-> Append(asker.heard, result)]
    BY <1>5
  <2>2. /\ asker'.heard = Append(asker.heard, result)
        /\ asker'.step = IF Len(asker.heard) + 1 < Len(paths) THEN "sending" ELSE "closing"
    BY <2>1
  <2>3. /\ Append(asker.heard, result) \in Seq(Results) /\ Len(asker.heard) \in Nat
        /\ Len(Append(asker.heard, result)) = Len(asker.heard) + 1
    BY <1>1
  <2>4. asker' \in [step : {"idle", "sending", "closing", "done", "dead"}, heard : Seq(Results)]
    BY <2>1, <2>3
  <2> QED
    BY <1>1, <1>2, <1>5, <2>2, <2>3, <2>4
<1>6. CASE \/ asker.step = "closing" /\ asker' = [asker EXCEPT !.step = "done"]
           \/ asker' = [asker EXCEPT !.step = "dead"]
  BY <1>1, <1>2, <1>6
<1> QED
  BY <1>2, <1>3, <1>4, <1>5, <1>6 DEF AskerMoves

\* The seat before one to which a call was made has a row.
LEMMA ArrivedBefore ==
    ASSUME IntroductionsInv, NEW s \in Seats, NEW r \in Seats, recv[s] # "none",
           s[1] = r[1], r[2] < s[2]
    PROVE  Arrived(r)
<1>1. r[2] \in 2..(s[2] - 1) /\ r = Seat(s[1], r[2])
  BY SeatFacts
<1> QED
  BY <1>1 DEF IntroductionsInv, ArrivedOnce

LEMMA ArrivalsStayOnce ==
    ASSUME IntroductionsInv, [Next]_vars, NEW s \in Seats
    PROVE  ArrivedOnce(s)'
<1>1. RecvMoves(s) /\ ArrivedOnce(s)
  BY StepsAreFramed DEF Framed, IntroductionsInv
<1>2. recv \in [Seats -> Quiet \cup {"sent", "insert", "forward", "answer", "waiting"}]
  BY DEF IntroductionsInv, TypeOK
<1>3. /\ s[1] \in Routes /\ s[2] \in 2..Len(s[1]) /\ Len(s[1]) \in Nat
      /\ \A h \in 2..Len(s[1]) : Seat(s[1], h) \in Seats
  BY SeatFacts, RouteFacts
<1>4. /\ paths' = paths /\ Given' = Given /\ Len(paths) \in Nat
      /\ \A i, k \in DOMAIN paths : paths[i] = paths[k] => i = k
      /\ DOMAIN paths = 1..Len(paths)
  BY HistoryStays, IntroductionsAssumption DEF IntroductionsInv, TypeOK
<1>5. Len(asker.heard) \in Nat /\ Len(asker'.heard) \in Nat /\ Len(asker'.heard) >= Len(asker.heard)
  BY AskerStaysInOrder DEF AskerInOrder
<1>6. asker.step # "idle" => asker'.step # "idle"
  BY HistoryStays
\* Who called s, if it was not called before.
<1>7. ASSUME NEW r \in Seats, SentFrom(r, s)
      PROVE  /\ s[1] = r[1] /\ s[2] = r[2] + 1 /\ s[2] > 2
             /\ recv[r] # "none" /\ Arrived(r)' /\ recv[s] = "none"
  <2>1. s[1] = r[1] /\ s[2] = r[2] + 1 /\ s[2] > 2 /\ r[2] \in Nat
    BY <1>7, OnwardFacts, SeatFacts DEF SentFrom
  <2>2. ArrivedOnce(r)
    BY DEF IntroductionsInv
  <2>3. recv[r] # "none" /\ Arrived(r)'
    BY <1>7, <2>2 DEF SentFrom, ArrivedOnce, Arrived
  <2>4. recv[s] = "none"
    <3>1. ASSUME recv[s] # "none" PROVE FALSE
      <4>1. r[2] < s[2]
        BY <2>1
      <4>2. Arrived(r)
        BY <2>1, <3>1, <4>1, ArrivedBefore
      <4> QED
        BY <1>7, <2>2, <3>1, <4>2 DEF SentFrom, ArrivedOnce
    <3> QED
      BY <3>1
  <2> QED
    BY <2>1, <2>3, <2>4
<1>8. ASSUME recv'[s] = "sent", s[2] = 2, asker'.step = "sending",
             Len(asker'.heard) < Len(paths), s[1] = paths[Len(asker'.heard) + 1],
             asker.step = "idle" \/ Len(asker'.heard) = Len(asker.heard) + 1
      PROVE  recv[s] = "none"
  <2>1. SUFFICES ASSUME recv[s] # "none" PROVE FALSE
    OBVIOUS
  <2>2. asker.step # "idle" /\ \E i \in DOMAIN paths : i <= Len(asker.heard) + 1 /\ paths[i] = s[1]
    BY <1>1, <1>8, <2>1 DEF ArrivedOnce
  <2> QED
    BY <1>4, <1>5, <1>8, <2>2
<1>9. recv'[s] # "none" =>
        s[1] \in Given' /\ \A h \in 2..(s[2] - 1) : Arrived(Seat(s[1], h))'
  <2>1. CASE recv[s] # "none"
    <3>1. s[1] \in Given /\ \A h \in 2..(s[2] - 1) : Arrived(Seat(s[1], h))
      BY <1>1, <2>1 DEF ArrivedOnce
    <3>2. \A h \in 2..(s[2] - 1) : Arrived(Seat(s[1], h))'
      BY <1>3, <3>1, ArrivedStays
    <3> QED
      BY <3>1, <3>2, <1>4
  <2>2. CASE recv[s] = "none" /\ \E r \in Seats : SentFrom(r, s)
    <3>1. PICK r \in Seats : SentFrom(r, s)
      BY <2>2
    <3>2. s[1] = r[1] /\ s[2] = r[2] + 1 /\ recv[r] # "none" /\ Arrived(r)'
      BY <1>7, <3>1
    <3>3. r[1] \in Given /\ \A h \in 2..(r[2] - 1) : Arrived(Seat(r[1], h))
      BY <3>2 DEF IntroductionsInv, ArrivedOnce
    <3>4. ASSUME NEW h \in 2..(s[2] - 1) PROVE Arrived(Seat(s[1], h))'
      <4>1. CASE h = r[2]
        BY <3>2, <4>1, SeatFacts
      <4>2. CASE h # r[2]
        <5>1. h \in 2..(r[2] - 1) /\ Seat(s[1], h) \in Seats
          BY <1>3, <3>2, <4>2, SeatFacts
        <5> QED
          BY <3>2, <3>3, <5>1, ArrivedStays
      <4> QED
        BY <4>1, <4>2
    <3> QED
      BY <3>2, <3>3, <3>4, <1>4
  <2>3. CASE /\ recv[s] = "none" /\ s[2] = 2 /\ Len(asker'.heard) < Len(paths)
             /\ s[1] = paths[Len(asker'.heard) + 1]
    <3>1. s[1] \in Given
      BY <2>3, <1>4, <1>5 DEF Given
    <3>2. 2..(s[2] - 1) = {}
      BY <2>3
    <3> QED
      BY <3>1, <3>2, <1>4
  <2>4. CASE recv[s] = "none" /\ recv'[s] = "none"
    BY <2>4
  <2> QED
    BY <1>1, <1>2, <2>1, <2>2, <2>3, <2>4 DEF RecvMoves
<1>10. recv'[s] # "none" /\ s[2] = 2 =>
         /\ asker'.step # "idle"
         /\ \E i \in DOMAIN paths : i <= Len(asker'.heard) + 1 /\ paths[i] = s[1]
  <2>1. CASE recv[s] # "none"
    <3>1. s[2] = 2 => /\ asker.step # "idle"
                      /\ \E i \in DOMAIN paths : i <= Len(asker.heard) + 1 /\ paths[i] = s[1]
      BY <1>1, <2>1 DEF ArrivedOnce
    <3> QED
      BY <3>1, <1>4, <1>5, <1>6
  <2>2. CASE \E r \in Seats : SentFrom(r, s)
    BY <1>7, <2>2
  <2>3. CASE /\ asker'.step = "sending" /\ Len(asker'.heard) < Len(paths)
             /\ s[1] = paths[Len(asker'.heard) + 1]
    BY <2>3, <1>4, <1>5
  <2> QED
    BY <1>1, <1>2, <2>1, <2>2, <2>3 DEF RecvMoves
<1>11. Arrived(s)' => recv'[s] \notin {"none", "sent", "insert"}
  <2>1. ASSUME Arrived(s) PROVE recv'[s] \notin {"none", "sent", "insert"}
    <3>1. recv[s] \notin {"none", "sent", "insert"}
      BY <1>1, <2>1 DEF ArrivedOnce
    <3> QED
      BY <1>1, <1>2, <1>7, <1>8, <3>1 DEF RecvMoves
  <2> QED
    BY <2>1, ArrivedStays
<1>12. recv'[s] \in {"forward", "answer", "waiting"} => Arrived(s)'
  <2>1. recv[s] \in {"forward", "answer", "waiting"} => Arrived(s)'
    BY <1>1, ArrivedStays DEF ArrivedOnce
  <2> QED
    BY <2>1, <1>1, <1>2 DEF RecvMoves, Arrived
<1>13. recv'[s] = "forward" => ~IsFarEnd(s)
  BY <1>1, <1>2 DEF RecvMoves, ArrivedOnce
<1> QED
  BY <1>4, <1>9, <1>10, <1>11, <1>12, <1>13 DEF ArrivedOnce

LEMMA DecisionsStayOnRows ==
    ASSUME IntroductionsInv, [Next]_vars, NEW d \in Decisions
    PROVE  DecidesOnRow(d)'
<1>1. DecMoves(d) /\ DecidesOnRow(d)
  BY StepsAreFramed DEF Framed, IntroductionsInv
<1>2. \A s \in Seats : Arrived(s) => Arrived(s)'
  BY ArrivedStays
<1> QED
  BY <1>1, <1>2 DEF DecMoves, DecidesOnRow, Decided, Arrived

LEMMA AnswersStayFromRows ==
    ASSUME IntroductionsInv, [Next]_vars, NEW m \in Messages
    PROVE  AnswersFromRow(m)'
<1>1. ReplyMoves(m) /\ AnswersFromRow(m) /\ m[1] \in Seats
  BY StepsAreFramed DEF Framed, IntroductionsInv, Messages
<1>2. /\ \A s \in Seats : Arrived(s) => Arrived(s)'
      /\ asker.step = "done" => asker'.step = "done"
      /\ "early" \in odd => "early" \in odd'
  BY ArrivedStays, HistoryStays
<1>3. reply[m].to \in Seats \cup {None}
  BY DEF IntroductionsInv, TypeOK
<1>4. ASSUME NEW t \in Rows(Before(m[1])) PROVE t \in Seats /\ Arrived(t) /\ t # None
  BY SeatFacts DEF Rows, Arrived
<1>5. \A how \in {"ok", "failed"} : Over(how).to = None /\ Over(how).step = how
  BY DEF Over
<1> QED
  BY <1>1, <1>2, <1>3, <1>4, <1>5 DEF ReplyMoves, AnswersFromRow

-----------------------------------------------------------------------------
(* One row per node, as long as there is no crowd. *)

LEMMA StayAlone ==
    ASSUME IntroductionsInv, [Next]_vars
    PROVE  Alone'
<1> SUFFICES ASSUME Uncrowded', NEW s \in Seats, NEW t \in Seats, Holds(s)', Holds(t)',
                    Node(s) = Node(t)
             PROVE  s = t
  BY DEF Alone, Node
<1>1. Alone /\ Uncrowded
  BY HistoryStays DEF IntroductionsInv
\* Who holds the offer held it, or is the only one whose call has just been taken.
<1>2. ASSUME NEW u \in Seats, Holds(u)'
      PROVE  \/ Holds(u)
             \/ /\ \A v \in Seats : Holds(v) => Node(v) # Node(u)
                /\ \A v \in Seats : v # u => recv'[v] = recv[v] /\ row'[v] = row[v]
  <2>1. RecvMoves(u) /\ ArrivedOnce(u)
    BY StepsAreFramed DEF Framed, IntroductionsInv
  <2>2. recv \in [Seats -> Quiet \cup {"sent", "insert", "forward", "answer", "waiting"}]
    BY DEF IntroductionsInv, TypeOK
  <2>3. Arrived(u)' => Holds(u)
    BY ArrivedStays DEF Holds
  <2>4. CASE recv[u] = "insert"
    BY <2>4 DEF Holds
  <2>5. CASE /\ recv' = [recv EXCEPT ![u] = "insert"] /\ UNCHANGED row
             /\ Rows(Node(u)) = {}
             /\ \A v \in Seats : recv[v] = "insert" => Node(v) # Node(u)
    BY <2>2, <2>5 DEF Holds, Arrived, Rows
  <2> QED
    BY <1>2, <2>1, <2>2, <2>3, <2>4, <2>5 DEF RecvMoves, Holds
<1>3. CASE Holds(s) /\ Holds(t)
  BY <1>1, <1>3 DEF Alone
<1>4. CASE ~Holds(s)
  BY <1>2, <1>4 DEF Holds, Arrived
<1>5. CASE ~Holds(t)
  BY <1>2, <1>5 DEF Holds, Arrived
<1> QED
  BY <1>3, <1>4, <1>5

LEMMA AcceptedStayAtFarEnd ==
    ASSUME IntroductionsInv, [Next]_vars
    PROVE  AcceptedAtFarEnd'
<1>1. HistoryMoves /\ AcceptedAtFarEnd /\ accepts \subseteq Seats
  BY StepsAreFramed DEF Framed, IntroductionsInv, TypeOK
<1>2. \A s \in Seats : Arrived(s) => Arrived(s)'
  BY ArrivedStays
<1> QED
  BY <1>1, <1>2 DEF HistoryMoves, AcceptedAtFarEnd

-----------------------------------------------------------------------------
(* The contact of who accepted. *)

\* Every seat of the way has a row.
LEMMA WayArrived ==
    ASSUME IntroductionsInv, NEW t \in Seats, OnTheWay(t)
    PROVE  Arrived(t)
<1>1. PICK a \in accepts : t[1] = a[1] /\ t[2] <= a[2]
  BY DEF OnTheWay
<1>2. a \in Seats /\ Arrived(a)
  BY <1>1 DEF IntroductionsInv, TypeOK, AcceptedAtFarEnd
<1>3. recv[a] # "none"
  BY <1>2 DEF IntroductionsInv, ArrivedOnce
<1>4. CASE t[2] = a[2]
  BY <1>1, <1>2, <1>4, SeatFacts
<1>5. CASE t[2] < a[2]
  BY <1>1, <1>2, <1>3, <1>5, ArrivedBefore
<1> QED
  BY <1>1, <1>2, <1>4, <1>5, SeatFacts

\* The row that an answer finds at the node before its sender is the one of the
\* sender's own route, unless the node is crowded.
LEMMA AnswerFindsWay ==
    ASSUME IntroductionsInv, Uncrowded, NEW s \in Seats, Arrived(s), s[2] > 2,
           NEW t \in Rows(Before(s)), OnTheWay(s)
    PROVE  OnTheWay(t)
<1>1. PICK u : u = Seat(s[1], s[2] - 1)
  OBVIOUS
<1>2. /\ s[1] \in Routes /\ s[2] \in 2..Len(s[1]) /\ Len(s[1]) \in Nat
      /\ s[2] - 1 \in 2..Len(s[1])
  BY SeatFacts
<1>3. u \in Seats /\ u[1] = s[1] /\ u[2] = s[2] - 1
  BY <1>1, <1>2, RouteFacts DEF Seat
<1>4. Node(u) = Before(s)
  BY <1>3 DEF Node, Before
<1>5. recv[s] # "none"
  BY DEF IntroductionsInv, ArrivedOnce
<1>6. u[2] < s[2]
  BY <1>2, <1>3
<1>7. Arrived(u)
  BY <1>3, <1>5, <1>6, ArrivedBefore
<1>8. t \in Seats /\ Arrived(t) /\ Node(t) = Before(s)
  BY DEF Rows, Arrived
<1>9. t = u
  BY <1>3, <1>4, <1>7, <1>8 DEF IntroductionsInv, Alone, Holds
<1>10. PICK a \in accepts : s[1] = a[1] /\ s[2] <= a[2]
  BY DEF OnTheWay
<1>11. a \in Seats /\ a[2] \in Nat
  BY <1>10, SeatFacts DEF IntroductionsInv, TypeOK
<1>12. u[2] <= a[2]
  BY <1>2, <1>3, <1>10, <1>11
<1> QED
  BY <1>3, <1>9, <1>10, <1>12 DEF OnTheWay

LEMMA AnswersStayOnTheWay ==
    ASSUME IntroductionsInv, [Next]_vars, NEW m \in Messages
    PROVE  AnswerOnTheWay(m)'
<1>1. ReplyMoves(m) /\ AnswerOnTheWay(m) /\ AnswersFromRow(m) /\ m[1] \in Seats
  BY StepsAreFramed DEF Framed, IntroductionsInv, Messages
<1>2. \A t \in Seats : Consented(t) => Consented(t)'
  BY HistoryStays
<1>3. reply[m].to \in Seats \cup {None}
  BY DEF IntroductionsInv, TypeOK
<1>4. row[m[1]].contact \/ row[m[1]].status = "accepted" => Consented(m[1])
  BY <1>1 DEF IntroductionsInv, ContactOnTheWay
<1>5. \A how \in {"ok", "failed"} : ~Over(how).contact /\ Over(how).step = how
  BY DEF Over
<1>6. ASSUME NEW t \in Rows(Before(m[1])), m[1][2] > 2, Consented(m[1]), Arrived(m[1])
      PROVE  t \in Seats /\ Consented(t)
  BY <1>1, <1>6, AnswerFindsWay DEF Consented, Rows
<1>7. CASE reply'[m] = reply[m]
  BY <1>1, <1>2, <1>3, <1>7 DEF AnswerOnTheWay
<1>8. CASE \E how \in {"ok", "failed"} : reply'[m] = Over(how)
  BY <1>5, <1>8 DEF AnswerOnTheWay
<1>9. CASE /\ m[2] = row[m[1]].status /\ reply'[m].step = "sent" /\ reply'[m].to = None
           /\ reply'[m].contact = row[m[1]].contact
  BY <1>1, <1>2, <1>4, <1>9 DEF AnswerOnTheWay
<1>10. CASE /\ reply[m].step \in {"sent", "heard"} /\ reply'[m].step \in {"heard", "noted"}
            /\ reply'[m].to = reply[m].to /\ reply'[m].contact = reply[m].contact
  BY <1>1, <1>2, <1>3, <1>10 DEF AnswerOnTheWay
<1>11. CASE /\ reply[m].step = "sent" /\ reply'[m].step = "relayed"
            /\ reply'[m].to = reply[m].to /\ reply'[m].contact = reply[m].contact
  BY <1>1, <1>2, <1>3, <1>11 DEF AnswerOnTheWay
<1>12. CASE /\ reply[m].step = "sent" /\ reply'[m].step = "relayed" /\ m[1][2] > 2
            /\ reply'[m].to \in Rows(Before(m[1])) /\ reply'[m].contact = reply[m].contact
  <2>1. Arrived(m[1])
    BY <1>1, <1>12 DEF AnswersFromRow
  <2>2. PICK t \in Rows(Before(m[1])) : t = reply'[m].to
    BY <1>12
  <2>3. ASSUME reply'[m].contact \/ m[2] = "accepted" PROVE Consented(m[1])' /\ Consented(t)'
    <3>1. Consented(m[1])
      BY <1>1, <1>12, <2>3 DEF AnswerOnTheWay
    <3>2. t \in Seats /\ Consented(t)
      BY <1>6, <1>12, <2>1, <3>1
    <3> QED
      BY <1>1, <1>2, <3>1, <3>2
  <2> QED
    BY <2>2, <2>3 DEF AnswerOnTheWay
<1>13. CASE /\ reply'[m].step = "passing" /\ ~reply'[m].contact
  BY <1>13 DEF AnswerOnTheWay
<1>14. CASE /\ reply[m].step = "passing" /\ reply'[m].step = "waiting"
            /\ reply'[m].to = reply[m].to /\ reply'[m].contact = reply[m].contact
  BY <1>1, <1>2, <1>3, <1>14 DEF AnswerOnTheWay
<1> QED
  BY <1>1, <1>7, <1>8, <1>9, <1>10, <1>11, <1>12, <1>13, <1>14 DEF ReplyMoves

LEMMA ContactStaysOnTheWay ==
    ASSUME IntroductionsInv, [Next]_vars
    PROVE  ContactOnTheWay'
<1>1. ContactOnTheWay /\ (accepts # {} => accepts' # {})
  BY HistoryStays DEF IntroductionsInv
<1>2. ASSUME NEW m \in Messages, reply[m].contact PROVE accepts # {}
  BY <1>2 DEF IntroductionsInv, AnswerOnTheWay, Consented
<1>3. offer'.contact => accepts' # {}
  <2>1. OfferMoves
    BY StepsAreFramed DEF Framed
  <2> QED
    BY <1>1, <1>2, <2>1 DEF OfferMoves, ContactOnTheWay
<1>4. ASSUME NEW t \in Seats, row'[t].contact \/ row'[t].status = "accepted"
      PROVE  Consented(t)'
  <2>1. RowMoves(t) /\ t # None
    BY StepsAreFramed, SeatFacts DEF Framed
  <2>2. Consented(t) => Consented(t)'
    BY HistoryStays
  <2>3. row[t].contact \/ row[t].status = "accepted" => Consented(t)
    BY <1>1 DEF ContactOnTheWay
  <2>4. row[t] \in [status : Answers \cup {"none", "pending"},
                    blocked : SUBSET Nodes, contact : BOOLEAN, known : BOOLEAN]
    BY DEF IntroductionsInv, TypeOK
  <2>5. CASE t \in accepts'
    BY <2>5, SeatFacts DEF Consented, OnTheWay
  <2>6. CASE \E m \in Messages : /\ reply[m].step = "relayed" /\ reply[m].to = t
                                /\ row'[t].status = m[2] /\ row'[t].contact = reply[m].contact
    BY <1>4, <2>1, <2>2, <2>6 DEF IntroductionsInv, AnswerOnTheWay
  <2> QED
    BY <1>4, <2>1, <2>2, <2>3, <2>4, <2>5, <2>6 DEF RowMoves
<1> QED
  BY <1>3, <1>4 DEF ContactOnTheWay

-----------------------------------------------------------------------------
(* The asker's commitment. *)

\* The one who takes a commitment that goes to the way is on it.
LEMMA TakerIsOnTheWay ==
    ASSUME IntroductionsInv, Uncrowded, NEW s \in Seats, ToTheWay(s),
           NEW t \in Rows(Node(s)), Before(t) = Before(s)
    PROVE  OnTheWay(t)
<1>1. PICK v \in Seats : OnTheWay(v) /\ Node(v) = Node(s)
  BY DEF ToTheWay
<1>2. Arrived(v)
  BY <1>1, WayArrived
<1>3. t \in Seats /\ Arrived(t) /\ Node(t) = Node(s)
  BY DEF Rows, Arrived
<1>4. t = v
  BY <1>1, <1>2, <1>3 DEF IntroductionsInv, Alone, Holds
<1> QED
  BY <1>1, <1>4

LEMMA WayGoesOn ==
    ASSUME IntroductionsInv, NEW t \in Seats, OnTheWay(t), ~IsFarEnd(t)
    PROVE  ToTheWay(Onward(t))
<1>1. PICK a \in accepts : t[1] = a[1] /\ t[2] <= a[2]
  BY DEF OnTheWay
<1>2. a \in Seats /\ a[2] = Len(a[1])
  BY <1>1 DEF IntroductionsInv, TypeOK, AcceptedAtFarEnd, IsFarEnd
<1>3. /\ Onward(t) \in Seats /\ Onward(t)[1] = t[1] /\ Onward(t)[2] = t[2] + 1
      /\ t[2] \in 2..Len(t[1]) /\ Len(t[1]) \in Nat /\ t[2] # Len(t[1])
  BY OnwardFacts, SeatFacts DEF IsFarEnd
<1>4. Onward(t)[1] = a[1] /\ Onward(t)[2] <= a[2]
  BY <1>1, <1>2, <1>3
<1>5. OnTheWay(Onward(t))
  BY <1>4 DEF OnTheWay
<1> QED
  BY <1>3, <1>5 DEF ToTheWay

LEMMA LeastNumber ==
    ASSUME NEW T \in SUBSET Nat, T # {}
    PROVE  \E i \in T : \A j \in T : i <= j
<1> DEFINE Below == OpToRel(<, Nat)
<1>1. IsWellFoundedOn(Below, Nat)
  BY NatLessThanWellFounded
<1>2. \A i, j \in Nat : j < i => <<j, i>> \in Below
  BY DEF OpToRel
<1> HIDE DEF Below
<1>3. PICK i \in T : \A j \in T : ~(<<j, i>> \in Below)
  BY <1>1, WFMin
<1>4. \A j \in T : ~(j < i)
  BY <1>2, <1>3
<1> QED
  BY <1>3, <1>4

\* An answer that was noted came back from the first node of a route given.
LEMMA ViaIsRoute ==
    ASSUME IntroductionsInv, NEW m \in Messages, reply[m].step \in {"heard", "noted"}
    PROVE  Via(m) \in Routes /\ Via(m) \in Given /\ Via(m)[2] = Node(m[1])
<1>1. m[1] \in Seats /\ m[1][2] = 2 /\ Arrived(m[1])
  BY DEF IntroductionsInv, AnswersFromRow, Messages
<1>2. recv[m[1]] # "none"
  BY <1>1 DEF IntroductionsInv, ArrivedOnce
<1>3. m[1][1] \in Given
  BY <1>1, <1>2 DEF IntroductionsInv, ArrivedOnce
<1> DEFINE Fitting == {i \in DOMAIN paths : paths[i][2] = Node(m[1])}
<1>4. Fitting \in SUBSET Nat /\ Fitting # {}
  BY <1>1, <1>3, IntroductionsAssumption DEF Node, Given, IntroductionsInv, TypeOK
<1>5. Via(m) \in Given /\ Via(m)[2] = Node(m[1])
  <2>1. PICK i \in Fitting : \A j \in Fitting : i <= j
    BY <1>4, LeastNumber
  <2> QED
    BY <2>1 DEF Via, Given
<1> QED
  BY <1>5, IntroductionsAssumption DEF Given, IntroductionsInv, TypeOK

\* The route an acceptance came by leads to the way of the acceptance.
LEMMA RouteThatWorked ==
    ASSUME IntroductionsInv, Uncrowded, NEW m \in Messages, reply[m].step = "noted",
           m[2] = "accepted"
    PROVE  ToTheWay(Seat(Via(m), 2)) /\ asker.step = "done"
<1>1. /\ m[1] \in Seats /\ m[1][2] = 2 /\ Arrived(m[1]) /\ Consented(m[1])
      /\ asker.step = "done"
  BY DEF IntroductionsInv, AnswersFromRow, AnswerOnTheWay, Messages
<1>2. Via(m) \in Routes /\ Via(m)[2] = Node(m[1])
  BY ViaIsRoute
<1>3. Via(m)[1] = Origin /\ m[1][1][1] = Origin
  BY <1>1, <1>2, SeatFacts, RouteFacts
<1>4. PICK x : x = Via(m)
  OBVIOUS
<1>5. Node(Seat(x, 2)) = x[2] /\ Before(Seat(x, 2)) = x[1]
  BY DEF Node, Before, Seat
<1>6. Before(m[1]) = Origin
  BY <1>1, <1>3 DEF Before
<1> QED
  BY <1>1, <1>2, <1>3, <1>4, <1>5, <1>6 DEF ToTheWay, Consented, Uncrowded

LEMMA CommitsStayToTheWay ==
    ASSUME IntroductionsInv, [Next]_vars
    PROVE  CommitsToTheWay'
<1>1. OfferMoves /\ CommitMoves /\ CommitsToTheWay
  BY StepsAreFramed DEF Framed, IntroductionsInv
<1>2. /\ offer.committed => offer'.committed
      /\ asker.step = "done" => asker'.step = "done"
      /\ Orderly' => Orderly /\ Uncrowded /\ "early" \notin odd
      /\ \A t \in Seats : ToTheWay(t) => ToTheWay(t)'
  BY HistoryStays
<1>3. commit' \in {"call", "done"} => offer'.committed
  BY <1>1, <1>2 DEF CommitMoves, CommitsToTheWay
<1>4. ASSUME Orderly', offer'.contact \/ commit' \in {"loaded", "call"}
      PROVE  asker'.step = "done" /\ ToTheWay(Seat(offer.path, 2))'
  <2>1. offer.path \in Routes
    BY DEF IntroductionsInv, TypeOK
  <2>2. commit' \in {"loaded", "call"} => offer.contact \/ commit \in {"loaded", "call"}
    BY <1>1, <1>4 DEF CommitMoves
  <2>3. ASSUME offer.contact \/ commit \in {"loaded", "call"}
        PROVE  asker.step = "done" /\ ToTheWay(Seat(offer.path, 2))
    BY <1>1, <1>2, <1>4, <2>3 DEF CommitsToTheWay
  <2>4. CASE offer'.path = offer.path /\ offer'.contact = offer.contact
    <3>1. asker.step = "done" /\ ToTheWay(Seat(offer.path, 2))
      BY <1>4, <2>2, <2>3, <2>4
    <3>2. PICK p \in Routes : p = offer.path
      BY <2>1
    <3>3. Seat(p, 2) \in Seats
      BY RouteFacts
    <3>4. ToTheWay(Seat(p, 2))'
      BY <1>2, <3>1, <3>2, <3>3
    <3> QED
      BY <1>2, <2>4, <3>1, <3>2, <3>4
  <2>5. CASE asker.step \in {"sending", "closing"} /\ offer'.contact = offer.contact
    BY <1>4, <2>2, <2>3, <2>5
  <2>6. ASSUME NEW m \in Messages, reply[m].step = "relayed", reply[m].to = None PROVE FALSE
    BY <1>2, <1>4, <2>6 DEF IntroductionsInv, AnswersFromRow
  <2>7. ASSUME NEW m \in Messages, reply[m].step = "noted", m[2] = "accepted",
               offer'.path = Via(m)
        PROVE  asker'.step = "done" /\ ToTheWay(Seat(offer.path, 2))'
    <3>1. ToTheWay(Seat(Via(m), 2)) /\ asker.step = "done"
      BY <1>2, <1>4, <2>7, RouteThatWorked
    <3>2. PICK p : p = Via(m)
      OBVIOUS
    <3>3. p \in Routes
      BY <2>7, <3>2, ViaIsRoute
    <3>4. Seat(p, 2) \in Seats
      BY <3>3, RouteFacts
    <3>5. ToTheWay(Seat(p, 2))'
      BY <1>2, <3>1, <3>2, <3>4
    <3> QED
      BY <1>2, <2>7, <3>1, <3>2, <3>5
  <2> QED
    BY <1>1, <2>4, <2>5, <2>6, <2>7 DEF OfferMoves
<1> QED
  BY <1>3, <1>4 DEF CommitsToTheWay

LEMMA CommitmentsStayOnTheWay ==
    ASSUME IntroductionsInv, [Next]_vars, NEW s \in Seats
    PROVE  CommitmentOnTheWay(s)'
<1>1. CommMoves(s) /\ RowMoves(s) /\ CommitsToTheWay
  BY StepsAreFramed DEF Framed, IntroductionsInv
<1>2. /\ offer.committed => offer'.committed
      /\ Orderly' => Orderly /\ Uncrowded
      /\ ToTheWay(s) => ToTheWay(s)'
      /\ OnTheWay(s) => OnTheWay(s)'
  BY HistoryStays
<1>3. \A u \in Seats : CommitmentOnTheWay(u)
  BY DEF IntroductionsInv
<1>4. row[s] \in [status : Answers \cup {"none", "pending"},
                  blocked : SUBSET Nodes, contact : BOOLEAN, known : BOOLEAN]
  BY DEF IntroductionsInv, TypeOK
<1>5. comm'[s] # "none" => offer'.committed
  BY <1>1, <1>2, <1>3 DEF CommMoves, CommitmentOnTheWay, CommitsToTheWay
<1>6. row'[s].known => offer'.committed
  BY <1>1, <1>2, <1>3, <1>4 DEF RowMoves, CommitmentOnTheWay
<1>7. ASSUME Orderly', comm'[s] = "sent" PROVE ToTheWay(s)'
  <2>1. CASE commit = "call" /\ s = Seat(offer.path, 2)
    BY <1>1, <1>2, <1>7, <2>1 DEF CommitsToTheWay
  <2>2. ASSUME NEW r \in Seats, NEW t \in Seats, comm[r] = "sent", t \in Rows(Node(r)),
               Before(t) = Before(r), ~IsFarEnd(t), s = Onward(t)
        PROVE  ToTheWay(s)
    <3>1. ToTheWay(r) /\ Uncrowded
      BY <1>2, <1>3, <1>7, <2>2 DEF CommitmentOnTheWay
    <3>2. OnTheWay(t)
      BY <2>2, <3>1, TakerIsOnTheWay
    <3> QED
      BY <2>2, <3>2, WayGoesOn
  <2> QED
    BY <1>1, <1>2, <1>3, <1>7, <2>1, <2>2 DEF CommMoves, CommitmentOnTheWay
<1>8. ASSUME Orderly', row'[s].known PROVE OnTheWay(s)'
  <2>1. CASE row[s].known
    BY <1>2, <1>3, <1>8, <2>1 DEF CommitmentOnTheWay
  <2>2. ASSUME NEW r \in Seats, comm[r] = "sent", s \in Rows(Node(r)), Before(s) = Before(r)
        PROVE  OnTheWay(s)
    <3>1. ToTheWay(r) /\ Uncrowded
      BY <1>2, <1>3, <1>8, <2>2 DEF CommitmentOnTheWay
    <3> QED
      BY <2>2, <3>1, TakerIsOnTheWay
  <2> QED
    BY <1>1, <1>2, <1>4, <1>8, <2>1, <2>2 DEF RowMoves
<1> QED
  BY <1>5, <1>6, <1>7, <1>8 DEF CommitmentOnTheWay

-----------------------------------------------------------------------------
(* Types. *)

RowTypes   == [status : Answers \cup {"none", "pending"}, blocked : SUBSET Nodes,
               contact : BOOLEAN, known : BOOLEAN]
ReplyTypes == [step : Quiet \cup {"sent", "heard", "noted", "relayed", "passing", "waiting"},
               was : Answers \cup {"none", "pending"}, to : Seats \cup {None},
               blocked : SUBSET Nodes, contact : BOOLEAN]
OfferTypes == [status : Answers \cup {"none", "pending"}, routes : [Routes -> Results],
               path : Routes, blocked : SUBSET Nodes, contact : BOOLEAN, committed : BOOLEAN]
RecvTypes  == Quiet \cup {"sent", "insert", "forward", "answer", "waiting"}
DecTypes   == [step : Decided \cup {"idle", "loaded", "carry", "answer"}, seat : Seats \cup {None},
               answer : {"accept", "decline", "late"}]

Typed ==
    /\ offer \in OfferTypes /\ row \in [Seats -> RowTypes] /\ connected \subseteq Nodes \X Nodes
    /\ recv \in [Seats -> RecvTypes] /\ reply \in [Messages -> ReplyTypes]
    /\ dec \in [Decisions -> DecTypes] /\ commit \in Decided \cup {"idle", "loaded", "call"}
    /\ comm \in [Seats -> Quiet \cup {"sent"}] /\ faults \in 0..MaxEvents
    /\ odd \subseteq {"early", "crowd", "contest", "hasty"}

\* The asker, the routes and who accepted keep their types by what has been shown.
LEMMA TypedIsTypeOK ==
    /\ IntroductionsInv => Typed
    /\ IntroductionsInv /\ [Next]_vars /\ Typed' => TypeOK'
<1>1. IntroductionsInv => Typed
  BY DEF IntroductionsInv, TypeOK, Typed, RowTypes, ReplyTypes, OfferTypes, RecvTypes, DecTypes
<1>2. ASSUME IntroductionsInv, [Next]_vars, Typed' PROVE TypeOK'
  <2>1. AskerInOrder' /\ HistoryMoves
    BY <1>2, StepsAreFramed, AskerStaysInOrder DEF Framed
  <2>2. paths' \in Asks /\ accepts' \subseteq Seats
    BY <1>2, <2>1 DEF HistoryMoves, IntroductionsInv, TypeOK
  <2>3. /\ asker'.step \in {"idle", "sending", "closing", "done", "dead"}
        /\ asker'.heard \in Seq(Results) /\ Len(asker'.heard) <= Len(paths')
    BY <2>1 DEF AskerInOrder
  <2> QED
    BY <1>2, <2>2, <2>3
       DEF TypeOK, Typed, RowTypes, ReplyTypes, OfferTypes, RecvTypes, DecTypes
<1> QED
  BY <1>1, <1>2

LEMMA FaultsBounded ==
    ASSUME Typed, MayHappen, faults' = faults + 1
    PROVE  faults' \in 0..MaxEvents
<1>1. IsFiniteSet(Decisions)
  BY FS_Interval, IntroductionsAssumption DEF Decisions
<1>2. Cardinality({d \in Decisions : dec[d].step # "idle"}) \in Nat
  BY <1>1, FS_Subset, FS_CardinalityType
<1> QED
  BY <1>2, IntroductionsAssumption DEF Typed, MayHappen

LEMMA HearsNoBounded ==
    ASSUME Typed, NEW s, HearsNo(s)
    PROVE  faults' \in 0..MaxEvents
BY FaultsBounded DEF Typed, HearsNo

LEMMA HearsBackBounded ==
    ASSUME Typed, NEW s, HearsBack(s)
    PROVE  faults' \in 0..MaxEvents
BY FaultsBounded DEF Typed, HearsBack

LEMMA RouteStatusType ==
    ASSUME NEW status PROVE RouteStatus(status) \in Answers
BY Zenon DEF RouteStatus, Answers

LEMMA AnswerType ==
    ASSUME Typed, NEW s \in Seats
    PROVE  Answer(reply, s) \in [Messages -> ReplyTypes]
<1>1. row[s].blocked \in SUBSET Nodes /\ row[s].contact \in BOOLEAN
  BY DEF Typed, RowTypes
<1>2. Over("sent") \in ReplyTypes
  BY DEF Over, ReplyTypes
<1>3. [Over("sent") EXCEPT !.blocked = row[s].blocked, !.contact = row[s].contact] \in ReplyTypes
  BY <1>1, <1>2 DEF ReplyTypes
<1> QED
  BY <1>3 DEF Typed, Answer

LEMMA OverType ==
    ASSUME NEW how \in Quiet \cup {"sent", "passing"} PROVE Over(how) \in ReplyTypes
BY DEF Over, ReplyTypes

LEMMA IdleType ==
    ASSUME NEW how \in Decided \cup {"idle"} PROVE Idle(how) \in DecTypes
BY DEF Idle, DecTypes

LEMMA AskerTyped ==
    ASSUME IntroductionsInv, Ask \/ StartStep
    PROVE  Typed'
<1> USE DEF rows, handlers, history
<1>0. /\ Typed /\ paths \in Seq(Routes) /\ Len(paths) \in Nat /\ Len(paths) >= 1
      /\ asker.heard \in Seq(Results) /\ Len(asker.heard) \in Nat
      /\ asker.step = "closing" => Len(asker.heard) = Len(paths)
      /\ asker.step = "sending" => Len(asker.heard) < Len(paths)
  BY IntroductionsAssumption, TypedIsTypeOK DEF IntroductionsInv, AskerInOrder, TypeOK
<1>1. ASSUME Ask PROVE Typed'
  BY <1>0, <1>1 DEF Ask, Typed, OfferTypes, RecvTypes
<1>2. ASSUME NEW result, Heard(result) PROVE recv' \in [Seats -> RecvTypes]
  BY <1>0, <1>2 DEF Heard, Typed, RecvTypes
<1>3. ASSUME RouteCarries PROVE Typed'
  BY <1>0, <1>2, <1>3 DEF RouteCarries, Typed
<1>4. ASSUME RouteFails PROVE Typed'
  <2>1. Trying[1] \in Routes
    BY <1>0, <1>4 DEF RouteFails, Trying
  <2>2. offer' \in OfferTypes
    BY <1>0, <1>4, <2>1 DEF RouteFails, Typed, OfferTypes
  <2>3. recv' \in [Seats -> RecvTypes] /\ faults' \in 0..MaxEvents
    BY <1>0, <1>2, <1>4, HearsNoBounded DEF RouteFails
  <2> QED
    BY <1>0, <1>4, <2>2, <2>3 DEF RouteFails, Typed
<1>5. ASSUME CloseStart PROVE Typed'
  <2>1. PICK heard : heard = [p \in Routes |->
              IF \E i \in DOMAIN paths : paths[i] = p
              THEN asker.heard[CHOOSE i \in DOMAIN paths : paths[i] = p] ELSE "none"]
    OBVIOUS
  <2>2. heard \in [Routes -> Results]
    <3>1. ASSUME NEW p \in Routes, NEW i \in DOMAIN paths PROVE asker.heard[i] \in Results
      BY <1>0, <1>5 DEF CloseStart
    <3>2. ASSUME NEW p \in Routes PROVE heard[p] \in Results
      BY <2>1, <3>1 DEF Results
    <3> QED
      BY <2>1, <3>2
  <2>3. {paths[i][2] : i \in DOMAIN paths} \subseteq Nodes
    BY <1>0, RouteFacts
  <2>4. paths[1] \in Routes
    BY <1>0
  <2>5. RouteStatus(heard) \in Answers
    BY RouteStatusType
  <2>6. PICK b \in SUBSET Nodes :
          offer' = [offer EXCEPT !.routes = heard, !.status = RouteStatus(heard),
                                 !.path = paths[1], !.blocked = b]
    <3>1. offer.blocked \in SUBSET Nodes
      BY <1>0 DEF Typed, OfferTypes
    <3> QED
      BY <1>5, <2>1, <2>3, <3>1 DEF CloseStart
  <2>7. offer' \in OfferTypes
    BY <1>0, <2>2, <2>4, <2>5, <2>6 DEF Typed, OfferTypes
  <2> QED
    BY <1>0, <1>5, <2>7 DEF CloseStart, Typed
<1> QED
  BY <1>1, <1>3, <1>4, <1>5 DEF StartStep

LEMMA ReceiveTyped ==
    ASSUME IntroductionsInv, NEW s \in Seats, ReceiveStep(s)
    PROVE  Typed'
<1> USE DEF rows, handlers, history
<1>0. Typed
  BY TypedIsTypeOK
<1>1. ASSUME RecogniseOffer(s) PROVE Typed'
  BY <1>0, <1>1 DEF RecogniseOffer, Typed, RecvTypes, Quiet
<1>2. ASSUME TakeOffer(s) PROVE Typed'
  BY <1>0, <1>2 DEF TakeOffer, Typed, RecvTypes
<1>3. ASSUME InsertOffer(s) PROVE Typed'
  BY <1>0, <1>3 DEF InsertOffer, Typed, RecvTypes, RowTypes, Quiet
<1>4. ASSUME CarryOn(s) PROVE Typed'
  BY <1>0, <1>4 DEF CarryOn, Typed, RecvTypes, RowTypes, Quiet, Answers
<1>5. ASSUME FailToCarry(s) PROVE Typed'
  <2>1. faults' \in 0..MaxEvents
    BY <1>0, <1>5, HearsNoBounded DEF FailToCarry
  <2>2. {Node(Onward(s))} \subseteq Nodes
    <3>1. ~IsFarEnd(s)
      BY <1>5 DEF FailToCarry, IntroductionsInv, ArrivedOnce
    <3> QED
      BY <3>1, OnwardFacts, SeatFacts
  <2>3. PICK r : r = [row[s] EXCEPT !.status = "declined", !.blocked = {Node(Onward(s))}]
    OBVIOUS
  <2>4. r \in RowTypes
    BY <1>0, <2>2, <2>3 DEF Typed, RowTypes, Answers
  <2>5. row' = [row EXCEPT ![s] = r]
    BY <1>0, <1>5, <2>3 DEF FailToCarry, Typed
  <2>6. row' \in [Seats -> RowTypes]
    BY <1>0, <2>4, <2>5 DEF Typed
  <2> QED
    BY <1>0, <1>5, <2>1, <2>6 DEF FailToCarry, Typed, RecvTypes
<1>6. ASSUME AnswerUnreachable(s) PROVE Typed'
  BY <1>0, <1>6, AnswerType DEF AnswerUnreachable, Typed, RecvTypes
<1>7. ASSUME FinishReceive(s) PROVE Typed'
  <2>1. faults' \in 0..MaxEvents
    BY <1>0, <1>7, HearsBackBounded DEF FinishReceive
  <2> QED
    BY <1>0, <1>7, <2>1 DEF FinishReceive, Typed, RecvTypes, Quiet
<1> QED
  BY <1>1, <1>2, <1>3, <1>4, <1>5, <1>6, <1>7 DEF ReceiveStep

LEMMA DecideTyped ==
    ASSUME IntroductionsInv, NEW d \in Decisions, DecideStep(d)
    PROVE  Typed'
<1> USE DEF rows, handlers, history
<1>0. Typed
  BY TypedIsTypeOK
<1>1. dec[d].step \in {"loaded", "carry", "answer"} => dec[d].seat \in Seats
  BY DEF IntroductionsInv, DecidesOnRow
<1>2. ASSUME NEW how \in {"done", "dead"}
      PROVE  [dec EXCEPT ![d] = Idle(how)] \in [Decisions -> DecTypes]
  BY <1>0, IdleType DEF Typed, Decided
<1>3. ASSUME NEW step \in {"carry", "answer"}
      PROVE  [dec EXCEPT ![d].step = step] \in [Decisions -> DecTypes]
  BY SMTT(30), <1>0 DEF Typed, DecTypes
<1>4. ASSUME NEW status \in Answers
      PROVE  [row EXCEPT ![dec[d].seat].status = status] \in [Seats -> RowTypes]
  BY ZenonT(30), <1>0 DEF Typed, RowTypes
<1>5. ASSUME ExpireRow(d) PROVE Typed'
  BY <1>0, <1>2, <1>4, <1>5 DEF ExpireRow, Typed, Answers
<1>6. ASSUME Decline(d) PROVE Typed'
  <2>1. {Node(dec[d].seat)} \subseteq Nodes
    BY <1>1, <1>6, SeatFacts DEF Decline
  <2>2. row' \in [Seats -> RowTypes]
    BY <1>0, <1>1, <1>6, <2>1 DEF Decline, Typed, RowTypes, Answers
  <2> QED
    BY <1>0, <1>3, <1>6, <2>2 DEF Decline, Typed
<1>7. ASSUME Accept(d) PROVE Typed'
  <2>1. PICK s \in Seats : s = dec[d].seat
    BY <1>1, <1>7 DEF Accept
  <2>2. PICK r : r = [row[s] EXCEPT !.status = "accepted", !.contact = TRUE]
    OBVIOUS
  <2>3. r \in RowTypes
    BY <1>0, <2>2 DEF Typed, RowTypes, Answers
  <2>4. row' = [row EXCEPT ![s] = r]
    BY <1>0, <1>7, <2>1, <2>2 DEF Accept, Typed
  <2>5. row' \in [Seats -> RowTypes]
    BY <1>0, <2>3, <2>4 DEF Typed
  <2> QED
    BY <1>0, <1>3, <1>7, <2>5 DEF Accept, Typed
<1>8. ASSUME PassOn(d) PROVE Typed'
  <2>1. recv' \in [Seats -> RecvTypes]
    BY <1>0, <1>8 DEF PassOn, Typed, RecvTypes
  <2> QED
    BY <1>0, <1>3, <1>8, <2>1 DEF PassOn, Typed
<1>9. ASSUME PassedOn(d) PROVE Typed'
  BY <1>0, <1>2, <1>4, <1>9 DEF PassedOn, Typed, Answers
<1>10. ASSUME FailToPassOn(d) PROVE Typed'
  <2>1. faults' \in 0..MaxEvents
    BY <1>0, <1>10, HearsNoBounded DEF FailToPassOn
  <2> QED
    BY <1>0, <1>3, <1>4, <1>10, <2>1 DEF FailToPassOn, Typed, Answers
<1>11. ASSUME AnswerDecision(d) PROVE Typed'
  <2>1. reply' \in [Messages -> ReplyTypes]
    BY <1>0, <1>1, <1>11, AnswerType DEF AnswerDecision
  <2> QED
    BY <1>0, <1>2, <1>11, <2>1 DEF AnswerDecision, Typed
<1> QED
  BY <1>5, <1>6, <1>7, <1>8, <1>9, <1>10, <1>11 DEF DecideStep

LEMMA ReplyTyped ==
    ASSUME IntroductionsInv, NEW m \in Messages, ReplyStep(m)
    PROVE  Typed'
<1> USE DEF rows, handlers, history
<1>0. Typed /\ m[1] \in Seats /\ m[2] \in Answers
  BY TypedIsTypeOK DEF Messages
<1>1. ASSUME NEW how \in {"ok", "failed"}
      PROVE  [reply EXCEPT ![m] = Over(how)] \in [Messages -> ReplyTypes]
  BY <1>0, OverType DEF Typed, Quiet
<1>2. Credited(m) \subseteq Nodes \X Nodes
  BY <1>0, SeatFacts DEF Credited, Typed
<1>3. /\ reply[m].blocked \in SUBSET Nodes /\ reply[m].contact \in BOOLEAN
      /\ reply[m].to \in Seats \cup {None}
  BY <1>0 DEF Typed, ReplyTypes
<1>4. ASSUME HearAnswer(m) PROVE Typed'
  <2>1. offer.status \in Answers \cup {"none", "pending"}
    BY <1>0 DEF Typed, OfferTypes
  <2>2. PICK r : r = [reply[m] EXCEPT !.step = "heard", !.was = offer.status]
    OBVIOUS
  <2>3. r \in ReplyTypes
    BY ZenonT(30), <1>0, <2>1, <2>2 DEF Typed, ReplyTypes
  <2>4. reply' = [reply EXCEPT ![m] = r]
    BY <1>0, <1>4, <2>2 DEF HearAnswer, Typed
  <2>5. reply' \in [Messages -> ReplyTypes]
    BY <1>0, <2>3, <2>4 DEF Typed
  <2> QED
    BY <1>0, <1>4, <2>5 DEF HearAnswer, Typed
<1>5. ASSUME NoteAnswer(m) PROVE Typed'
  <2>1. PICK status \in Answers \cup {"none", "pending"} : offer' = [offer EXCEPT !.status = status]
    <3>1. offer.status \in Answers \cup {"none", "pending"}
      BY <1>0 DEF Typed, OfferTypes
    <3>2. \A x : RouteStatus(x) \in Answers
      BY RouteStatusType
    <3> QED
      BY <1>5, <3>1, <3>2 DEF NoteAnswer
  <2>2. offer' \in OfferTypes
    BY <1>0, <2>1 DEF Typed, OfferTypes
  <2>3. reply' \in [Messages -> ReplyTypes]
    BY <1>0, <1>5 DEF NoteAnswer, Typed, ReplyTypes
  <2> QED
    BY <1>0, <1>2, <1>5, <2>2, <2>3 DEF NoteAnswer, Typed
<1>6. ASSUME CloseAnswer(m) PROVE Typed'
  <2>1. Via(m) \in Routes
    BY <1>6, ViaIsRoute DEF CloseAnswer
  <2>2. {p[2] : p \in {q \in Routes : offer.routes[q] = "declined"}} \subseteq Nodes
    BY RouteFacts
  <2>3. offer' \in OfferTypes
    BY <1>0, <1>3, <1>6, <2>1, <2>2 DEF CloseAnswer, Typed, OfferTypes
  <2> QED
    BY <1>0, <1>1, <1>6, <2>3 DEF CloseAnswer, Typed
<1>7. ASSUME HearEarlyAnswer(m) PROVE Typed'
  <2>1. [reply EXCEPT ![m].step = "relayed"] \in [Messages -> ReplyTypes]
    BY <1>0 DEF Typed, ReplyTypes
  <2>2. reply' \in [Messages -> ReplyTypes] /\ connected' \subseteq Nodes \X Nodes
    BY <1>0, <1>1, <1>2, <1>7, <2>1 DEF HearEarlyAnswer, Typed
  <2> QED
    BY <1>0, <1>7, <2>2 DEF HearEarlyAnswer, Typed
<1>8. ASSUME NEW t \in Seats, RelayHears(m, t) PROVE Typed'
  <2>1. PICK r : r = [reply[m] EXCEPT !.step = "relayed", !.to = t]
    OBVIOUS
  <2>2. r \in ReplyTypes
    BY ZenonT(30), <1>0, <2>1 DEF Typed, ReplyTypes
  <2>3. reply' = [reply EXCEPT ![m] = r]
    BY <1>0, <1>8, <2>1 DEF RelayHears, Typed
  <2>4. reply' \in [Messages -> ReplyTypes]
    BY <1>0, <2>2, <2>3 DEF Typed
  <2> QED
    BY <1>0, <1>2, <1>8, <2>4 DEF RelayHears, Typed
<1>9. ASSUME NEW t \in Seats, RelayRefuses(m, t) PROVE Typed'
  BY <1>0, <1>1, <1>9 DEF RelayRefuses, Typed
<1>10. ASSUME CopyAnswer(m) PROVE Typed'
  <2>1. offer' \in OfferTypes
    BY ZenonT(30), <1>0, <1>3, <1>10 DEF CopyAnswer, Typed, OfferTypes
  <2>2. row' \in [Seats -> RowTypes]
    BY <1>0, <1>3, <1>10 DEF CopyAnswer, Typed, RowTypes
  <2>3. reply' \in [Messages -> ReplyTypes]
    <3>1. Over("passing") \in ReplyTypes /\ Over("ok") \in ReplyTypes
      BY OverType DEF Quiet
    <3>2. [Over("passing") EXCEPT !.to = reply[m].to] \in ReplyTypes
      BY <1>3, <3>1 DEF ReplyTypes
    <3> QED
      BY <1>0, <1>10, <3>1, <3>2 DEF CopyAnswer, Typed
  <2> QED
    BY <1>0, <1>10, <2>1, <2>2, <2>3 DEF CopyAnswer, Typed
<1>11. ASSUME PassAnswer(m) PROVE Typed'
  <2>1. PICK t : t = reply[m].to
    OBVIOUS
  <2>2. t \in Seats
    BY <1>3, <1>11, <2>1 DEF PassAnswer, IntroductionsInv, AnswersFromRow
  <2>3. Answer(reply, t) \in [Messages -> ReplyTypes]
    BY <1>0, <2>2, AnswerType
  <2>4. reply' = [Answer(reply, t) EXCEPT ![m].step = "waiting"]
    BY <1>11, <2>1 DEF PassAnswer
  <2>5. reply' \in [Messages -> ReplyTypes]
    BY <2>3, <2>4 DEF ReplyTypes
  <2> QED
    BY <1>0, <1>11, <2>5 DEF PassAnswer, Typed
<1>12. ASSUME FinishReply(m) PROVE Typed'
  <2>1. faults' \in 0..MaxEvents
    BY <1>0, <1>12, HearsBackBounded DEF FinishReply
  <2> QED
    BY <1>0, <1>1, <1>12, <2>1 DEF FinishReply, Typed
<1> QED
  BY <1>4, <1>5, <1>6, <1>7, <1>8, <1>9, <1>10, <1>11, <1>12 DEF ReplyStep

LEMMA CommitTyped ==
    ASSUME IntroductionsInv, LoadCommit \/ CommitStep
    PROVE  Typed'
<1> USE DEF rows, handlers, history
<1>0. Typed
  BY TypedIsTypeOK
<1>1. ASSUME LoadCommit PROVE Typed'
  BY <1>0, <1>1 DEF LoadCommit, Typed
<1>2. ASSUME CommitOffer PROVE Typed'
  BY <1>0, <1>2 DEF CommitOffer, Typed, OfferTypes
<1>3. ASSUME CallCommit PROVE Typed'
  BY <1>0, <1>3 DEF CallCommit, Typed, Decided
<1>4. ASSUME NEW s \in Seats, RefuseCommit(s) PROVE Typed'
  BY <1>0, <1>4 DEF RefuseCommit, Typed, Quiet
<1>5. ASSUME NEW s \in Seats, NEW t \in Seats, ReceiveCommit(s, t) PROVE Typed'
  <2>1. comm' \in [Seats -> Quiet \cup {"sent"}]
    BY <1>0, <1>5 DEF ReceiveCommit, Typed, Quiet
  <2>2. row' \in [Seats -> RowTypes]
    BY ZenonT(30), <1>0, <1>5 DEF ReceiveCommit, Typed, RowTypes
  <2> QED
    BY <1>0, <1>5, <2>1, <2>2 DEF ReceiveCommit, Typed
<1> QED
  BY <1>1, <1>2, <1>3, <1>4, <1>5 DEF CommitStep

LEMMA FaultTyped ==
    ASSUME IntroductionsInv, Fault
    PROVE  Typed'
<1> USE DEF rows, handlers, history
<1>0. Typed
  BY TypedIsTypeOK
<1>1. faults' \in 0..MaxEvents
  BY <1>0, FaultsBounded DEF Fault
<1>2. \A how \in {"failed"} : Over(how) \in ReplyTypes
  BY OverType DEF Quiet
<1>3. Idle("dead") \in DecTypes
  BY IdleType DEF Decided
<1>4. recv' \in [Seats -> RecvTypes]
  BY <1>0 DEF Fault, LoseCall, Die, Typed, RecvTypes, Quiet
<1>5. reply' \in [Messages -> ReplyTypes]
  BY <1>0, <1>2 DEF Fault, LoseCall, Die, Typed
<1>6. dec' \in [Decisions -> DecTypes]
  BY <1>0, <1>3 DEF Fault, LoseCall, Die, Typed
<1>7. comm' \in [Seats -> Quiet \cup {"sent"}]
  BY <1>0 DEF Fault, LoseCall, Die, Typed, Quiet
<1>8. commit' \in Decided \cup {"idle", "loaded", "call"}
  BY <1>0 DEF Fault, LoseCall, Die, Typed, Decided
<1> QED
  BY <1>0, <1>1, <1>4, <1>5, <1>6, <1>7, <1>8 DEF Fault, Typed

LEMMA LoadTyped ==
    ASSUME IntroductionsInv, NEW d \in Decisions, NEW s \in Seats,
           NEW answer \in {"accept", "decline", "late"}, LoadDecision(d, s, answer)
    PROVE  Typed'
<1>1. Typed
  BY TypedIsTypeOK
<1>2. dec' \in [Decisions -> DecTypes]
  BY <1>1 DEF LoadDecision, Typed, DecTypes
<1> QED
  BY <1>1, <1>2 DEF LoadDecision, Typed, rows

LEMMA TypeStays ==
    ASSUME IntroductionsInv, [Next]_vars
    PROVE  TypeOK'
<1>1. CASE UNCHANGED vars
  BY <1>1, TypedIsTypeOK DEF vars, rows, handlers, history, Typed
<1>2. CASE Next
  BY <1>2, AskerTyped, ReceiveTyped, DecideTyped, ReplyTyped, CommitTyped, FaultTyped,
     LoadTyped, TypedIsTypeOK DEF Next, Serve, Act, Underway
<1> QED
  BY <1>1, <1>2

-----------------------------------------------------------------------------
(* The theorems. *)

LEMMA IntroductionsInit == Init => IntroductionsInv
<1> SUFFICES ASSUME Init PROVE IntroductionsInv
  OBVIOUS
<1>1. paths \in Seq(Routes) /\ Len(paths) \in Nat /\ Len(paths) >= 1 /\ paths[1] \in Routes
  BY IntroductionsAssumption DEF Init
<1>2. TypeOK
  <2>1. Over("none") \in [step : Quiet \cup {"sent", "heard", "noted", "relayed",
                                             "passing", "waiting"},
                         was : Answers \cup {"none", "pending"},
                         to : Seats \cup {None}, blocked : SUBSET Nodes,
                         contact : BOOLEAN]
    BY DEF Over, Quiet
  <2>2. Idle("idle") \in [step : Decided \cup {"idle", "loaded", "carry", "answer"},
                         seat : Seats \cup {None}, answer : {"accept", "decline", "late"}]
    BY DEF Idle
  <2>3. faults \in 0..MaxEvents
    BY IntroductionsAssumption DEF Init
  <2>4. asker.heard \in Seq(Results) /\ Len(asker.heard) = 0
    BY DEF Init
  <2>5. offer \in [status : Answers \cup {"none", "pending"}, routes : [Routes -> Results],
                  path : Routes, blocked : SUBSET Nodes, contact : BOOLEAN,
                  committed : BOOLEAN]
    BY <1>1 DEF Init, Results
  <2> QED
    BY <1>1, <2>1, <2>2, <2>3, <2>4, <2>5 DEF Init, TypeOK, Quiet
<1>3. AskerInOrder
  BY <1>1 DEF Init, AskerInOrder
<1>4. \A s \in Seats : ArrivedOnce(s)
  BY DEF Init, ArrivedOnce, Arrived
<1>5. \A d \in Decisions : DecidesOnRow(d)
  BY DEF Init, DecidesOnRow, Idle
<1>6. \A m \in Messages : AnswersFromRow(m) /\ AnswerOnTheWay(m)
  BY DEF Init, AnswersFromRow, AnswerOnTheWay, Over
<1>7. Alone /\ AcceptedAtFarEnd /\ ContactOnTheWay
  BY DEF Init, Alone, Holds, Arrived, AcceptedAtFarEnd, ContactOnTheWay
<1>8. CommitsToTheWay /\ \A s \in Seats : CommitmentOnTheWay(s)
  BY DEF Init, CommitsToTheWay, CommitmentOnTheWay
<1> QED
  BY <1>2, <1>3, <1>4, <1>5, <1>6, <1>7, <1>8 DEF IntroductionsInv

LEMMA IntroductionsInductive == Spec => []IntroductionsInv
<1>1. IntroductionsInv /\ [Next]_vars => IntroductionsInv'
  <2> SUFFICES ASSUME IntroductionsInv, [Next]_vars PROVE IntroductionsInv'
    OBVIOUS
  <2>1. TypeOK' /\ AskerInOrder'
    BY TypeStays, AskerStaysInOrder
  <2>2. \A s \in Seats : ArrivedOnce(s)' /\ CommitmentOnTheWay(s)'
    BY ArrivalsStayOnce, CommitmentsStayOnTheWay
  <2>3. \A d \in Decisions : DecidesOnRow(d)'
    BY DecisionsStayOnRows
  <2>4. \A m \in Messages : AnswersFromRow(m)' /\ AnswerOnTheWay(m)'
    BY AnswersStayFromRows, AnswersStayOnTheWay
  <2>5. Alone' /\ AcceptedAtFarEnd' /\ ContactOnTheWay' /\ CommitsToTheWay'
    BY StayAlone, AcceptedStayAtFarEnd, ContactStaysOnTheWay, CommitsStayToTheWay
  <2> QED
    BY <2>1, <2>2, <2>3, <2>4, <2>5 DEF IntroductionsInv
<1> QED
  BY <1>1, IntroductionsInit, PTL DEF Spec

\* Every variable keeps its type in every behaviour of an offer.
THEOREM IntroductionsTypeCorrect == Spec => []TypeOK
<1>1. IntroductionsInv => TypeOK
  BY DEF IntroductionsInv
<1> QED
  BY <1>1, IntroductionsInductive, PTL

\* A node to which no two arrivals crowd has one row for the offer (receive).
THEOREM OneRowPerNodeHolds == Spec => []OneRowPerNode
<1>1. IntroductionsInv => OneRowPerNode
  BY DEF IntroductionsInv, OneRowPerNode, Alone, Uncrowded, Holds, Arrived
<1> QED
  BY <1>1, IntroductionsInductive, PTL

\* The contact of who accepts is where an acceptance can have brought it: on the
\* way back from it (decide, _reply_back and receive_reply).
THEOREM ContactByConsentHolds == Spec => []ContactByConsent
<1>1. IntroductionsInv => ContactByConsent
  BY DEF IntroductionsInv, ContactByConsent, ContactOnTheWay, Consented, Uncrowded
<1> QED
  BY <1>1, IntroductionsInductive, PTL

\* The asker's contact leaves only with its commitment, which, as long as nothing
\* comes out of turn, ends at a far end that accepted (commit_offer, receive_commit).
THEOREM AskerByCommitmentHolds == Spec => []AskerByCommitment
<1>1. IntroductionsInv => AskerByCommitment
  <2> SUFFICES ASSUME IntroductionsInv, NEW s \in Seats, row[s].known
               PROVE  offer.committed /\ (IsFarEnd(s) /\ odd = {} => s \in accepts)
    BY DEF AskerByCommitment
  <2>1. CommitmentOnTheWay(s) /\ accepts \subseteq Seats /\ AcceptedAtFarEnd
    BY DEF IntroductionsInv, TypeOK
  <2> QED
    BY <2>1, FarEndAccepted DEF CommitmentOnTheWay, Orderly
<1> QED
  BY <1>1, IntroductionsInductive, PTL
=============================================================================
