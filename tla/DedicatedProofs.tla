-------------------------- MODULE DedicatedProofs --------------------------
(***************************************************************************)
(* What an "ok" of check_live_dedicated.py shows, and what the script may  *)
(* send and leave behind, for any settings and any behaviour of the        *)
(* multiplexer and the radios.                                             *)
(*                                                                         *)
(* run() is a program, so the argument has two halves.  A ledger says what *)
(* is established when a step begins.  The program of any settings is in   *)
(* order: its steps can be given ledgers such that each step finds what it *)
(* relies on and the last ledger holds all the evidence.  And the ledgers  *)
(* of a program in order are true in every state of a run.                 *)
(***************************************************************************)
EXTENDS LiveDedicated, SequenceTheorems, FiniteSetTheorems,
        WellFoundedInduction, TLAPS

Clients == Endpoints \X Nat

\* What is established when a step begins: whose contact is resolved, and
\* whether the secrets are compared ("channel"); which clients have a
\* collector; how much of Expected each endpoint was given; which messages
\* were sent; which acknowledgements were required, and of whom.
Ledgers ==
  [known : SUBSET {"multi", "peer", "channel"}, attached : SUBSET Clients,
   given : [Endpoints -> Nat], sent : SUBSET Nat,
   shown : SUBSET (Nat \X Clients)]

NothingYet ==
  [known |-> {}, attached |-> {}, given |-> [e \in Endpoints |-> 0],
   sent |-> {}, shown |-> {}]

Given(l, e, n) ==
  [l EXCEPT !.given = [d \in Endpoints |-> IF d = e THEN l.given[d] + n ELSE l.given[d]]]
Sent(l, body) == [l EXCEPT !.sent = @ \cup {body}]
Shown(l, body, clients) == [l EXCEPT !.shown = @ \cup ({body} \X clients)]
Known(l, what) == [l EXCEPT !.known = @ \cup {what}]

After(step, l) ==
  CASE step.do = "contacts" -> Known(l, Endpoint(step.who))
    [] step.do = "secrets" -> Known(l, "channel")
    [] step.do = "attach" -> [l EXCEPT !.attached = step.who]
    [] step.do = "send" -> Sent(l, step.body)
    [] step.do = "receive" -> Given(l, Endpoint(step.who), Len(step.bodies))
    [] step.do = "ack" -> Shown(l, step.body, step.who)
    [] OTHER -> l

Radio(c) == IF Endpoint(c) = "peer" THEN "peer" ELSE "multi"

KindOf(a, body) ==
  IF a.channel /\ body = ChannelMarker(a) THEN "channel" ELSE "contact"

\* An endpoint that was given n messages is due these.
IsDue(a, e, n, kind, bodies) ==
  \A j \in 1 .. Len(bodies) :
    /\ n + j <= Len(Expected(a, e))
    /\ bodies[j] = Expected(a, e)[n + j]
    /\ kind = KindOf(a, bodies[j])

Due(a, step, l) ==
  /\ Endpoint(step.who) \in Endpoints
  /\ step.bodies \in Seq(Nat)
  /\ IsDue(a, Endpoint(step.who), l.given[Endpoint(step.who)], step.kind, step.bodies)

\* A step is in order with the ledger l: keys and secrets are settled before
\* something is made of them, and so on.
Fits(a, step, l) ==
  /\ step.do = "open" /\ step.who[2] = 1 => l.known = {}
  /\ step.do = "contacts" => Endpoint(step.who) \in {"multi", "peer"}
  /\ step.do = "channel" => "channel" \notin l.known
  /\ step.do = "attach" => step.who \subseteq Clients
  /\ step.do = "send" =>
       /\ a.execute
       /\ step.body \in Nat \ l.sent
       /\ (IF step.kind = "contact" THEN Radio(step.who) ELSE "channel") \in l.known
  /\ step.do = "receive" => Due(a, step, l)
  /\ step.do = "ack" => step.body \in Nat /\ step.who \subseteq l.attached

LEMMA LedgerGiven ==
  ASSUME NEW l \in Ledgers, NEW e \in Endpoints, NEW n \in Nat, NEW m,
         m = Given(l, e, n)
  PROVE  /\ m \in Ledgers /\ m.known = l.known /\ m.attached = l.attached
         /\ m.sent = l.sent /\ m.shown = l.shown
         /\ m.given[e] = l.given[e] + n
         /\ \A d \in Endpoints : d # e => m.given[d] = l.given[d]
<1>1. l.given \in [Endpoints -> Nat]
  BY DEF Ledgers
<1> DEFINE given == [d \in Endpoints |-> IF d = e THEN l.given[d] + n ELSE l.given[d]]
<1>2. /\ given \in [Endpoints -> Nat] /\ given[e] = l.given[e] + n
      /\ \A d \in Endpoints : d # e => given[d] = l.given[d]
  BY <1>1
<1>3. Given(l, e, n) = [l EXCEPT !.given = given]
  BY DEF Given
<1> HIDE DEF given
<1>4. [l EXCEPT !.given = given] \in Ledgers
  BY <1>2 DEF Ledgers
<1> QED
  BY <1>2, <1>3, <1>4 DEF Ledgers

LEMMA LedgerGivenOne ==
  ASSUME NEW l \in Ledgers, NEW e \in Endpoints, NEW m, m = Given(l, e, 1)
  PROVE  /\ m \in Ledgers /\ m.known = l.known /\ m.attached = l.attached
         /\ m.sent = l.sent /\ m.shown = l.shown
         /\ m.given[e] = l.given[e] + 1
         /\ \A d \in Endpoints : d # e => m.given[d] = l.given[d]
<1>1. \A n \in Nat : n = 1 =>
        /\ m \in Ledgers /\ m.known = l.known /\ m.attached = l.attached
        /\ m.sent = l.sent /\ m.shown = l.shown
        /\ m.given[e] = l.given[e] + n
        /\ \A d \in Endpoints : d # e => m.given[d] = l.given[d]
  BY LedgerGiven
<1> QED
  BY <1>1

GivenMore(l, m, e, n) ==
  /\ m \in Ledgers /\ m.known = l.known /\ m.attached = l.attached
  /\ m.sent = l.sent /\ m.shown = l.shown
  /\ m.given[e] = l.given[e] + n
  /\ \A d \in Endpoints : d # e => m.given[d] = l.given[d]

LEMMA LedgerGivenMore ==
  ASSUME NEW l \in Ledgers, NEW e \in Endpoints, NEW n \in Nat
  PROVE  GivenMore(l, Given(l, e, n), e, n)
BY LedgerGiven DEF GivenMore

LEMMA LedgerSent ==
  ASSUME NEW l \in Ledgers, NEW body \in Nat
  PROVE  LET m == Sent(l, body) IN
         /\ m \in Ledgers /\ m.known = l.known /\ m.attached = l.attached
         /\ m.sent = l.sent \cup {body} /\ m.shown = l.shown
         /\ m.given = l.given
BY DEF Sent, Ledgers

LEMMA LedgerShown ==
  ASSUME NEW l \in Ledgers, NEW body \in Nat, NEW clients \in SUBSET Clients
  PROVE  LET m == Shown(l, body, clients) IN
         /\ m \in Ledgers /\ m.known = l.known /\ m.attached = l.attached
         /\ m.sent = l.sent /\ m.given = l.given
         /\ m.shown = l.shown \cup ({body} \X clients)
BY DEF Shown, Ledgers

LEMMA AfterType ==
  ASSUME NEW a, NEW step, NEW l \in Ledgers, Fits(a, step, l)
  PROVE  After(step, l) \in Ledgers
<1> USE DEF Ledgers, Known, Sent, Shown
<1>1. CASE step.do = "contacts" \/ step.do = "secrets"
  BY <1>1 DEF After, Fits
<1>2. CASE step.do = "attach"
  BY <1>2 DEF After, Fits
<1>3. CASE step.do = "send"
  BY <1>3 DEF After, Fits
<1>4. CASE step.do = "receive"
  <2> HIDE DEF Ledgers
  <2>1. Endpoint(step.who) \in Endpoints /\ Len(step.bodies) \in Nat
    BY <1>4 DEF Fits, Due
  <2>2. After(step, l) = Given(l, Endpoint(step.who), Len(step.bodies))
    BY <1>4 DEF After
  <2> QED
    BY <2>1, <2>2, LedgerGiven
<1>5. CASE step.do = "ack"
  BY <1>5 DEF After, Fits
<1>6. CASE step.do \notin {"contacts", "secrets", "attach", "send", "receive", "ack"}
  BY <1>6 DEF After
<1> QED
  BY <1>1, <1>2, <1>3, <1>4, <1>5, <1>6

\* The steps of q are in order and lead from the ledger l to m.
Leads(a, q, l, m) ==
  /\ \E S : q \in Seq(S)
  /\ \E L \in [1 .. Len(q) + 1 -> Ledgers] :
       /\ L[1] = l /\ L[Len(q) + 1] = m
       /\ \A i \in 1 .. Len(q) : Fits(a, q[i], L[i]) /\ L[i + 1] = After(q[i], L[i])

LEMMA LeadsNowhere ==
  ASSUME NEW a, NEW l \in Ledgers
  PROVE  Leads(a, <<>>, l, l)
<1> DEFINE L == [i \in 1 .. 1 |-> l]
<1>1. <<>> \in Seq({}) /\ Len(<<>>) = 0
  OBVIOUS
<1>2. L \in [1 .. 0 + 1 -> Ledgers] /\ L[1] = l
  OBVIOUS
<1> HIDE DEF L
<1> QED
  BY <1>1, <1>2 DEF Leads

\* Steps that establish nothing.
LEMMA LeadsStill ==
  ASSUME NEW a, NEW l \in Ledgers, NEW S, NEW q \in Seq(S),
         \A i \in 1 .. Len(q) : Fits(a, q[i], l) /\ After(q[i], l) = l
  PROVE  Leads(a, q, l, l)
<1> DEFINE L == [i \in 1 .. Len(q) + 1 |-> l]
<1>1. L \in [1 .. Len(q) + 1 -> Ledgers] /\ Len(q) \in Nat
  OBVIOUS
<1>2. L[1] = l /\ L[Len(q) + 1] = l
  BY <1>1
<1>3. \A i \in 1 .. Len(q) : L[i] = l /\ L[i + 1] = l
  BY <1>1
<1> HIDE DEF L
<1> QED
  BY <1>1, <1>2, <1>3 DEF Leads

LEMMA LeadsOne ==
  ASSUME NEW a, NEW l \in Ledgers, NEW S, NEW q \in Seq(S), Len(q) = 1,
         Fits(a, q[1], l)
  PROVE  /\ Leads(a, q, l, After(q[1], l))
         /\ After(q[1], l) \in Ledgers
<1> DEFINE L == [i \in 1 .. 2 |-> IF i = 1 THEN l ELSE After(q[1], l)]
<1>1. After(q[1], l) \in Ledgers
  BY AfterType
<1>2. L \in [1 .. 2 -> Ledgers] /\ L[1] = l /\ L[2] = After(q[1], l)
  BY <1>1
<1> HIDE DEF L
<1> QED
  BY <1>1, <1>2 DEF Leads

LEMMA LeadsOn ==
  ASSUME NEW a, NEW q, NEW r, NEW l, NEW m, NEW n,
         Leads(a, q, l, m), Leads(a, r, m, n)
  PROVE  Leads(a, q \o r, l, n)
<1>1. PICK S : q \in Seq(S)
  BY DEF Leads
<1>2. PICK T : r \in Seq(T)
  BY DEF Leads
<1>3. PICK L \in [1 .. Len(q) + 1 -> Ledgers] :
        /\ L[1] = l /\ L[Len(q) + 1] = m
        /\ \A i \in 1 .. Len(q) : Fits(a, q[i], L[i]) /\ L[i + 1] = After(q[i], L[i])
  BY DEF Leads
<1>4. PICK M \in [1 .. Len(r) + 1 -> Ledgers] :
        /\ M[1] = m /\ M[Len(r) + 1] = n
        /\ \A i \in 1 .. Len(r) : Fits(a, r[i], M[i]) /\ M[i + 1] = After(r[i], M[i])
  BY DEF Leads
<1>5. q \in Seq(S \cup T) /\ r \in Seq(S \cup T)
  BY <1>1, <1>2
<1>6. /\ q \o r \in Seq(S \cup T) /\ Len(q \o r) = Len(q) + Len(r)
      /\ Len(q) \in Nat /\ Len(r) \in Nat
      /\ \A i \in 1 .. Len(q) : (q \o r)[i] = q[i]
      /\ \A i \in Len(q) + 1 .. Len(q) + Len(r) : (q \o r)[i] = r[i - Len(q)]
  BY <1>5
<1> DEFINE k == Len(q)
           N == [i \in 1 .. k + Len(r) + 1 |-> IF i <= k THEN L[i] ELSE M[i - k]]
<1>7. N \in [1 .. k + Len(r) + 1 -> Ledgers]
  BY <1>6
<1>8. N[1] = l /\ N[k + Len(r) + 1] = n
  BY <1>3, <1>4, <1>6
<1>9. ASSUME NEW i \in 1 .. k + Len(r)
      PROVE  Fits(a, (q \o r)[i], N[i]) /\ N[i + 1] = After((q \o r)[i], N[i])
  <2>1. CASE i <= k
    <3>1. (q \o r)[i] = q[i] /\ N[i] = L[i] /\ i \in 1 .. k
      BY <1>6, <2>1
    <3>2. N[i + 1] = L[i + 1]
      <4>1. CASE i = k
        BY <1>3, <1>4, <1>6, <4>1
      <4>2. CASE i # k
        BY <1>6, <2>1, <4>2
      <4> QED
        BY <4>1, <4>2
    <3> QED
      BY <1>3, <3>1, <3>2
  <2>2. CASE i > k
    <3>1. (q \o r)[i] = r[i - k] /\ N[i] = M[i - k] /\ N[i + 1] = M[(i - k) + 1]
          /\ i - k \in 1 .. Len(r)
      BY <1>6, <2>2
    <3> QED
      BY <1>4, <3>1
  <2> QED
    BY <1>6, <2>1, <2>2
<1>10. Len(q \o r) + 1 = k + Len(r) + 1
  BY <1>6
<1> HIDE DEF N, k
<1>11. /\ N \in [1 .. Len(q \o r) + 1 -> Ledgers]
       /\ N[1] = l /\ N[Len(q \o r) + 1] = n
  BY <1>7, <1>8, <1>10
<1>12. \A i \in 1 .. Len(q \o r) :
         Fits(a, (q \o r)[i], N[i]) /\ N[i + 1] = After((q \o r)[i], N[i])
  BY <1>6, <1>9 DEF k
<1>13. \E R : q \o r \in Seq(R)
  BY <1>6
<1> HIDE DEF Leads
<1> QED
  BY <1>11, <1>12, <1>13 DEF Leads

LEMMA Joins ==
  ASSUME NEW S, NEW q \in Seq(S), NEW r \in Seq(S), NEW c, c = q \o r
  PROVE  /\ c \in Seq(S) /\ Len(c) = Len(q) + Len(r)
         /\ \A i \in 1 .. Len(q) : c[i] = q[i]
         /\ \A i \in 1 .. Len(r) : c[Len(q) + i] = r[i]
OBVIOUS

-----------------------------------------------------------------------------
(* Ports and listeners                                                     *)

\* The endpoints of the multiplexer in a run.
Served(a) == {"multi"} \cup {Port[i] : i \in 1 .. a.ports}

LEMMA PortsAre ==
  ASSUME NEW a \in Settings
  PROVE  /\ a \in Arguments /\ a.ports \in Nat \ {0} /\ a.ports \in Nat
         /\ Len(Ports(a)) = a.ports /\ Ports(a) \in Seq(Endpoints)
         /\ DOMAIN Ports(a) = 1 .. a.ports
         /\ \A i \in 1 .. a.ports :
              /\ Ports(a)[i] = Port[i]
              /\ Port[i] \in Endpoints /\ Port[i] # "multi" /\ Port[i] # "peer"
              /\ Port[i] \in Served(a)
              /\ i # 1 => Port[i] \in Range(Tail(Port))
              /\ \A j \in 1 .. a.ports : Port[i] = Port[j] => i = j
         /\ "multi" \in Served(a)
         /\ Served(a) \subseteq Endpoints \ {"peer"}
<1>1. a \in Arguments /\ a.ports <= Len(Port)
  BY SettingsAssumption
<1>2. a.ports \in Nat \ {0} /\ a.ports \in Nat
  BY <1>1 DEF Arguments
<1>3. /\ Port \in Seq(STRING \ {"multi", "peer"}) /\ Len(Port) \in Nat
      /\ DOMAIN Port = 1 .. Len(Port)
      /\ \A i \in 1 .. Len(Port) : Port[i] \in STRING \ {"multi", "peer"}
      /\ \A i, j \in 1 .. Len(Port) : Port[i] = Port[j] => i = j
  <2>1. Port \in Seq(STRING \ {"multi", "peer"})
    BY PortAssumption
  <2>2. Len(Port) \in Nat /\ DOMAIN Port = 1 .. Len(Port)
    BY <2>1
  <2>3. \A i \in 1 .. Len(Port) : Port[i] \in STRING \ {"multi", "peer"}
    BY <2>1, <2>2, ElementOfSeq
  <2> QED
    BY <2>1, <2>2, <2>3, PortAssumption
<1>4. \A i \in 1 .. a.ports : i \in 1 .. Len(Port)
  BY <1>1, <1>2, <1>3
<1>5. ASSUME NEW i \in 1 .. a.ports
      PROVE  /\ Port[i] \in Endpoints /\ Port[i] # "multi" /\ Port[i] # "peer"
             /\ Port[i] \in Served(a)
             /\ \A j \in 1 .. a.ports : Port[i] = Port[j] => i = j
  <2>1. Port[i] \in Range(Port)
    BY <1>3, <1>4 DEF Range
  <2> QED
    BY <1>3, <1>4, <2>1 DEF Endpoints, Served
<1>6. /\ Len(Ports(a)) = a.ports /\ Ports(a) \in Seq(Endpoints)
      /\ \A i \in 1 .. a.ports : Ports(a)[i] = Port[i]
  BY <1>2, <1>5, SubSeqProperties DEF Ports
<1>7. ASSUME NEW i \in 1 .. a.ports, i # 1
      PROVE  Port[i] \in Range(Tail(Port))
  <2>1. Port # <<>>
    BY <1>3, <1>4, <1>7
  <2>2. /\ Tail(Port) \in Seq(STRING \ {"multi", "peer"})
        /\ Len(Tail(Port)) = Len(Port) - 1
        /\ \A j \in 1 .. Len(Tail(Port)) : Tail(Port)[j] = Port[j + 1]
    BY <1>3, <2>1, HeadTailProperties
  <2>3. i - 1 \in 1 .. Len(Tail(Port)) /\ (i - 1) + 1 = i
    BY <1>3, <1>4, <1>7, <2>2
  <2>4. DOMAIN Tail(Port) = 1 .. Len(Tail(Port))
    BY <2>2
  <2> QED
    BY <2>2, <2>3, <2>4 DEF Range
<1>8. "multi" \in Served(a) /\ Served(a) \subseteq Endpoints \ {"peer"}
  BY <1>5 DEF Served, Endpoints
<1>9. DOMAIN Ports(a) = 1 .. a.ports
  BY <1>6
<1> QED
  BY <1>1, <1>2, <1>5, <1>6, <1>7, <1>8, <1>9

LEMMA ListenersAre ==
  ASSUME NEW a \in Settings
  PROVE  /\ Listeners(a) \in Seq(Endpoints)
         /\ Len(Listeners(a)) = 1 + a.ports
         /\ DOMAIN Listeners(a) = 1 .. 1 + a.ports
         /\ Listeners(a)[1] = "multi"
         /\ \A i \in 1 .. a.ports : Listeners(a)[1 + i] = Port[i]
         /\ \A i \in 1 .. 1 + a.ports : Listeners(a)[i] \in Range(Listeners(a))
         /\ Range(Listeners(a)) \subseteq Endpoints \ {"peer"}
         /\ Shared(a) \in SUBSET Clients
<1>1. "multi" \in Endpoints
  BY DEF Endpoints
<1>2. <<"multi">> \in Seq(Endpoints) /\ Len(<<"multi">>) = 1 /\ <<"multi">>[1] = "multi"
  BY <1>1
<1>3. /\ Listeners(a) \in Seq(Endpoints)
      /\ Len(Listeners(a)) = 1 + a.ports
      /\ Listeners(a)[1] = "multi"
      /\ \A i \in 1 .. a.ports : Listeners(a)[1 + i] = Port[i]
  <2> DEFINE one == <<"multi">>
  <2>1. one \in Seq(Endpoints) /\ Len(one) = 1 /\ one[1] = "multi"
    BY <1>2
  <2>2. Listeners(a) = one \o Ports(a)
    BY DEF Listeners
  <2> HIDE DEF one
  <2>3. /\ Listeners(a) \in Seq(Endpoints)
        /\ Len(Listeners(a)) = Len(one) + Len(Ports(a))
        /\ \A i \in 1 .. Len(one) : Listeners(a)[i] = one[i]
        /\ \A i \in 1 .. Len(Ports(a)) : Listeners(a)[Len(one) + i] = Ports(a)[i]
    <3>1. Ports(a) \in Seq(Endpoints)
      BY PortsAre
    <3>2. one \in Seq(Endpoints)
      BY <2>1
    <3> QED
      BY <2>2, <3>1, <3>2, Joins
  <2> QED
    BY <2>1, <2>3, PortsAre
<1>4. DOMAIN Listeners(a) = 1 .. 1 + a.ports
  BY <1>3
<1>5. ASSUME NEW i \in 1 .. 1 + a.ports
      PROVE  Listeners(a)[i] \in Endpoints \ {"peer"}
  <2>1. CASE i = 1
    BY <1>1, <1>3, <2>1
  <2>2. CASE i # 1
    <3>1. PICK j \in 1 .. a.ports : i = 1 + j
      <4>1. i - 1 \in 1 .. a.ports /\ i = 1 + (i - 1)
        BY <2>2, PortsAre
      <4> QED
        BY <4>1
    <3>2. Listeners(a)[i] = Port[j]
      BY <1>3, <3>1
    <3> QED
      BY <3>2, PortsAre
  <2> QED
    BY <2>1, <2>2
<1>6. Range(Listeners(a)) \subseteq Endpoints \ {"peer"}
      /\ \A i \in 1 .. 1 + a.ports : Listeners(a)[i] \in Range(Listeners(a))
  BY <1>4, <1>5 DEF Range
<1>7. Shared(a) \in SUBSET Clients
  BY <1>6 DEF Shared, First, Client, Clients
<1> QED
  BY <1>3, <1>4, <1>6, <1>7

\* The shape of Expected for a listener.
LEMMA FourAndMore ==
  ASSUME NEW p \in Nat, NEW q \in Nat, NEW r \in Nat, NEW s \in Nat,
         NEW w \in Seq(Nat), NEW c, c = <<p>> \o <<q, r>> \o <<s>> \o w
  PROVE /\ Len(c) = 4 + Len(w)
        /\ c[1] = p /\ c[2] = q /\ c[3] = r /\ c[4] = s
        /\ \A i \in 1 .. Len(w) : c[4 + i] = w[i]
<1> DEFINE x == <<p>>
           y == <<q, r>>
           z == <<s>>
           xy == x \o y
           xyz == xy \o z
<1>1. x \in Seq(Nat)
  OBVIOUS
<1>2. Len(x) = 1 /\ x[1] = p
  OBVIOUS
<1>3. y \in Seq(Nat)
  OBVIOUS
<1>4. Len(y) = 2 /\ y[1] = q /\ y[2] = r
  OBVIOUS
<1>5. z \in Seq(Nat)
  OBVIOUS
<1>6. Len(z) = 1 /\ z[1] = s
  OBVIOUS
<1>7. xy = x \o y /\ xyz = xy \o z /\ c = xyz \o w
  OBVIOUS
<1> HIDE DEF x, y, z, xy, xyz
<1>8. /\ xy \in Seq(Nat) /\ Len(xy) = Len(x) + Len(y)
      /\ \A i \in 1 .. Len(x) : xy[i] = x[i]
      /\ \A i \in 1 .. Len(y) : xy[Len(x) + i] = y[i]
  BY <1>1, <1>3, <1>7, Joins
<1>9. /\ xyz \in Seq(Nat) /\ Len(xyz) = Len(xy) + Len(z)
      /\ \A i \in 1 .. Len(xy) : xyz[i] = xy[i]
      /\ \A i \in 1 .. Len(z) : xyz[Len(xy) + i] = z[i]
  BY <1>5, <1>7, <1>8, Joins
<1>10. /\ c \in Seq(Nat) /\ Len(c) = Len(xyz) + Len(w)
       /\ \A i \in 1 .. Len(xyz) : c[i] = xyz[i]
       /\ \A i \in 1 .. Len(w) : c[Len(xyz) + i] = w[i]
  <2>1. xyz \in Seq(Nat)
    BY <1>9
  <2>2. c = xyz \o w
    BY <1>7
  <2>3. w \in Seq(Nat)
    OBVIOUS
  <2> QED
    BY <2>1, <2>2, <2>3, Joins, SMTT(30)
<1>11. Len(xy) = 3 /\ xy[1] = p /\ xy[2] = q /\ xy[3] = r
  BY <1>2, <1>4, <1>8
<1>12. Len(xyz) = 4 /\ xyz[1] = p /\ xyz[2] = q /\ xyz[3] = r /\ xyz[4] = s
  BY <1>6, <1>11, <1>9
<1>13. 1 \in 1 .. 4 /\ 2 \in 1 .. 4 /\ 3 \in 1 .. 4 /\ 4 \in 1 .. 4
  OBVIOUS
<1> QED
  BY <1>10, <1>12, <1>13

\* What the endpoints are due.
LEMMA ExpectedIs ==
  ASSUME NEW a \in Settings
  PROVE  /\ Len(Expected(a, "peer")) = 1 + a.ports
         /\ \A i \in 1 .. 1 + a.ports : Expected(a, "peer")[i] = i
         /\ \A e \in Endpoints \ {"peer"} :
              /\ Len(Expected(a, e)) = IF a.channel THEN 5 ELSE 4
              /\ Expected(a, e)[1] = Inbound(a)
              /\ Expected(a, e)[2] = Retained(a)[1]
              /\ Expected(a, e)[3] = Retained(a)[2]
              /\ Expected(a, e)[4] = TakeoverMarker(a)
              /\ a.channel => Expected(a, e)[5] = ChannelMarker(a)
<1>1. a.ports \in Nat
  BY PortsAre
<1>2. Expected(a, "peer") = [i \in 1 .. 1 + a.ports |-> i]
  BY DEF Expected
<1>3. [i \in 1 .. 1 + a.ports |-> i] \in Seq(Nat)
  BY <1>1
<1>4. /\ Len(Expected(a, "peer")) = 1 + a.ports
      /\ \A i \in 1 .. 1 + a.ports : Expected(a, "peer")[i] = i
  BY <1>1, <1>2, <1>3
<1>5. ASSUME NEW e \in Endpoints \ {"peer"}
      PROVE  /\ Len(Expected(a, e)) = IF a.channel THEN 5 ELSE 4
             /\ Expected(a, e)[1] = Inbound(a)
             /\ Expected(a, e)[2] = Retained(a)[1]
             /\ Expected(a, e)[3] = Retained(a)[2]
             /\ Expected(a, e)[4] = TakeoverMarker(a)
             /\ a.channel => Expected(a, e)[5] = ChannelMarker(a)
  <2> DEFINE w == IF a.channel THEN <<ChannelMarker(a)>> ELSE <<>>
  <2>1. /\ Inbound(a) \in Nat /\ TakeoverMarker(a) \in Nat /\ ChannelMarker(a) \in Nat
        /\ 3 + a.ports \in Nat /\ 4 + a.ports \in Nat
    BY <1>1 DEF Inbound, TakeoverMarker, ChannelMarker
  <2>2. /\ w \in Seq(Nat) /\ Len(w) = (IF a.channel THEN 1 ELSE 0)
        /\ a.channel => w[1] = ChannelMarker(a)
    BY <2>1
  <2>3. Expected(a, e)
          = <<Inbound(a)>> \o <<3 + a.ports, 4 + a.ports>> \o <<TakeoverMarker(a)>> \o w
    BY DEF Expected, Retained
  <2>4. Retained(a)[1] = 3 + a.ports /\ Retained(a)[2] = 4 + a.ports
    BY DEF Retained
  <2> DEFINE all == Expected(a, e)
  <2> HIDE DEF w, all
  <2>5. /\ Len(all) = 4 + Len(w)
        /\ all[1] = Inbound(a)
        /\ all[2] = 3 + a.ports
        /\ all[3] = 4 + a.ports
        /\ all[4] = TakeoverMarker(a)
        /\ \A i \in 1 .. Len(w) : all[4 + i] = w[i]
    <3>1. all = <<Inbound(a)>> \o <<3 + a.ports, 4 + a.ports>> \o <<TakeoverMarker(a)>> \o w
      BY <2>3 DEF all
    <3>2. w \in Seq(Nat)
      BY <2>2
    <3> QED
      BY <2>1, <3>1, <3>2, FourAndMore
  <2>6. a.channel => all[4 + 1] = w[1]
    BY <2>2, <2>5
  <2> QED
    BY <2>2, <2>4, <2>5, <2>6 DEF all
<1> QED
  BY <1>4, <1>5

-----------------------------------------------------------------------------
(* Each kind of step                                                       *)

LEMMA QuietSteps ==
  ASSUME NEW a, NEW l \in Ledgers, NEW c
  PROVE  /\ (c[2] = 1 => l.known = {}) => Fits(a, Open(c), l)
         /\ Fits(a, Close(c), l) /\ Fits(a, Replaced(c), l)
         /\ Fits(a, CompareIdentities, l) /\ Fits(a, CompareSecrets, l)
         /\ Fits(a, Query, l)
         /\ After(Open(c), l) = l /\ After(Close(c), l) = l
         /\ After(Replaced(c), l) = l /\ After(Query, l) = l
         /\ After(CompareIdentities, l) = l
BY DEF Fits, After, Open, Close, Replaced, CompareIdentities, CompareSecrets, Query

LEMMA ContactsStep ==
  ASSUME NEW a, NEW l \in Ledgers, NEW e \in {"multi", "peer"}
  PROVE  /\ Fits(a, Contacts(e), l)
         /\ After(Contacts(e), l) = [l EXCEPT !.known = @ \cup {e}]
<1>1. Endpoint(First(e)) = e
  BY DEF Endpoint, First, Client
<1> QED
  BY <1>1 DEF Fits, After, Contacts, Known

LEMMA ChannelSteps ==
  ASSUME NEW a, NEW l \in Ledgers, NEW e
  PROVE  /\ "channel" \notin l.known => Fits(a, Channel(e), l)
         /\ After(Channel(e), l) = l
         /\ After(CompareSecrets, l) = [l EXCEPT !.known = @ \cup {"channel"}]
BY DEF Fits, After, Channel, CompareSecrets, Known

LEMMA AttachStep ==
  ASSUME NEW a, NEW l \in Ledgers, NEW clients \in SUBSET Clients
  PROVE  /\ Fits(a, Attach(clients), l)
         /\ After(Attach(clients), l) = [l EXCEPT !.attached = clients]
BY DEF Fits, After, Attach

LEMMA SendStep ==
  ASSUME NEW a, NEW l \in Ledgers, NEW c, NEW kind, NEW body \in Nat \ l.sent,
         a.execute, (IF kind = "contact" THEN Radio(c) ELSE "channel") \in l.known
  PROVE  /\ Fits(a, Send(c, kind, body), l)
         /\ After(Send(c, kind, body), l) = Sent(l, body)
BY DEF Fits, After, Send

LEMMA AckStep ==
  ASSUME NEW a, NEW l \in Ledgers, NEW body \in Nat, NEW clients \in SUBSET l.attached
  PROVE  /\ Fits(a, RequireAck(body, clients), l)
         /\ After(RequireAck(body, clients), l) = Shown(l, body, clients)
BY DEF Fits, After, RequireAck

LEMMA ReceiveStep ==
  ASSUME NEW a, NEW l \in Ledgers, NEW c, NEW kind, NEW bodies \in Seq(Nat),
         NEW e \in Endpoints, Endpoint(c) = e,
         IsDue(a, e, l.given[e], kind, bodies)
  PROVE  /\ Fits(a, Receive(c, kind, bodies), l)
         /\ After(Receive(c, kind, bodies), l) = Given(l, e, Len(bodies))
<1> DEFINE s == Receive(c, kind, bodies)
<1>1. s.do = "receive" /\ s.who = c /\ s.kind = kind /\ s.bodies = bodies
  BY DEF Receive
<1> HIDE DEF s
<1>2. Due(a, s, l)
  BY <1>1 DEF Due
<1>3. Fits(a, s, l) /\ After(s, l) = Given(l, Endpoint(c), Len(bodies))
  BY <1>1, <1>2 DEF Fits, After
<1> QED
  BY <1>3 DEF s

\* One message is received.
LEMMA ReceiveOne ==
  ASSUME NEW a, NEW l \in Ledgers, NEW c, NEW kind, NEW body \in Nat,
         Endpoint(c) \in Endpoints,
         l.given[Endpoint(c)] + 1 <= Len(Expected(a, Endpoint(c))),
         body = Expected(a, Endpoint(c))[l.given[Endpoint(c)] + 1],
         kind = KindOf(a, body)
  PROVE  /\ Fits(a, Receive(c, kind, <<body>>), l)
         /\ After(Receive(c, kind, <<body>>), l) = Given(l, Endpoint(c), 1)
<1> DEFINE bodies == <<body>>
<1>1. bodies \in Seq(Nat)
  OBVIOUS
<1>2. Len(bodies) = 1 /\ bodies[1] = body
  OBVIOUS
<1> HIDE DEF bodies
<1>3. IsDue(a, Endpoint(c), l.given[Endpoint(c)], kind, bodies)
  <2>1. \A j \in 1 .. Len(bodies) : j = 1
    BY <1>2
  <2> QED
    BY <1>2, <2>1 DEF IsDue
<1>4. Fits(a, Receive(c, kind, bodies), l)
      /\ After(Receive(c, kind, bodies), l) = Given(l, Endpoint(c), Len(bodies))
  BY <1>1, <1>3, ReceiveStep
<1> QED
  BY <1>2, <1>4 DEF bodies

-----------------------------------------------------------------------------
(* A few steps                                                             *)

LEMMA LeadsTwo ==
  ASSUME NEW a, NEW l \in Ledgers, NEW S, NEW q \in Seq(S), Len(q) = 2,
         NEW l2, NEW l3,
         Fits(a, q[1], l), l2 = After(q[1], l),
         Fits(a, q[2], l2), l3 = After(q[2], l2)
  PROVE  Leads(a, q, l, l3) /\ l3 \in Ledgers
<1> DEFINE L == [i \in 1 .. 3 |-> CASE i = 1 -> l [] i = 2 -> l2 [] OTHER -> l3]
<1>1. l2 \in Ledgers
  BY AfterType
<1>2. l3 \in Ledgers
  BY <1>1, AfterType
<1>3. L \in [1 .. 3 -> Ledgers] /\ L[1] = l /\ L[2] = l2 /\ L[3] = l3
  BY <1>1, <1>2
<1> HIDE DEF L
<1>4. \A i \in 1 .. 2 : Fits(a, q[i], L[i]) /\ L[i + 1] = After(q[i], L[i])
  BY <1>3
<1> QED
  BY <1>2, <1>3, <1>4 DEF Leads

LEMMA LeadsThree ==
  ASSUME NEW a, NEW l \in Ledgers, NEW S, NEW q \in Seq(S), Len(q) = 3,
         NEW l2, NEW l3, NEW l4,
         Fits(a, q[1], l), l2 = After(q[1], l),
         Fits(a, q[2], l2), l3 = After(q[2], l2),
         Fits(a, q[3], l3), l4 = After(q[3], l3)
  PROVE  Leads(a, q, l, l4) /\ l4 \in Ledgers
<1> DEFINE L == [i \in 1 .. 4 |->
                   CASE i = 1 -> l [] i = 2 -> l2 [] i = 3 -> l3 [] OTHER -> l4]
<1>1. l2 \in Ledgers
  BY AfterType
<1>2. l3 \in Ledgers
  BY <1>1, AfterType
<1>3. l4 \in Ledgers
  BY <1>2, AfterType
<1>4. L \in [1 .. 4 -> Ledgers] /\ L[1] = l /\ L[2] = l2 /\ L[3] = l3 /\ L[4] = l4
  BY <1>1, <1>2, <1>3
<1> HIDE DEF L
<1>5. \A i \in 1 .. 3 : Fits(a, q[i], L[i]) /\ L[i + 1] = After(q[i], L[i])
  BY <1>4
<1> QED
  BY <1>3, <1>4, <1>5 DEF Leads

LEMMA LeadsFour ==
  ASSUME NEW a, NEW l \in Ledgers, NEW S, NEW q \in Seq(S), Len(q) = 4,
         NEW l2, NEW l3, NEW l4, NEW l5,
         Fits(a, q[1], l), l2 = After(q[1], l),
         Fits(a, q[2], l2), l3 = After(q[2], l2),
         Fits(a, q[3], l3), l4 = After(q[3], l3),
         Fits(a, q[4], l4), l5 = After(q[4], l4)
  PROVE  Leads(a, q, l, l5) /\ l5 \in Ledgers
<1> DEFINE L == [i \in 1 .. 5 |->
                   CASE i = 1 -> l [] i = 2 -> l2 [] i = 3 -> l3 [] i = 4 -> l4
                     [] OTHER -> l5]
<1>1. l2 \in Ledgers
  BY AfterType
<1>2. l3 \in Ledgers
  BY <1>1, AfterType
<1>3. l4 \in Ledgers
  BY <1>2, AfterType
<1>4. l5 \in Ledgers
  BY <1>3, AfterType
<1>5. L \in [1 .. 5 -> Ledgers]
      /\ L[1] = l /\ L[2] = l2 /\ L[3] = l3 /\ L[4] = l4 /\ L[5] = l5
  BY <1>1, <1>2, <1>3, <1>4
<1> HIDE DEF L
<1>6. \A i \in 1 .. 4 : Fits(a, q[i], L[i]) /\ L[i + 1] = After(q[i], L[i])
  BY <1>5
<1> QED
  BY <1>4, <1>5, <1>6 DEF Leads

LEMMA Tuples ==
  ASSUME NEW x, NEW y, NEW z, NEW w
  PROVE  /\ <<x>> \in Seq({x, y, z, w}) /\ Len(<<x>>) = 1 /\ <<x>>[1] = x
         /\ <<x, y>> \in Seq({x, y, z, w}) /\ Len(<<x, y>>) = 2
         /\ <<x, y>>[1] = x /\ <<x, y>>[2] = y
         /\ <<x, y, z>> \in Seq({x, y, z, w}) /\ Len(<<x, y, z>>) = 3
         /\ <<x, y, z>>[1] = x /\ <<x, y, z>>[2] = y /\ <<x, y, z>>[3] = z
         /\ <<x, y, z, w>> \in Seq({x, y, z, w}) /\ Len(<<x, y, z, w>>) = 4
         /\ <<x, y, z, w>>[1] = x /\ <<x, y, z, w>>[2] = y
         /\ <<x, y, z, w>>[3] = z /\ <<x, y, z, w>>[4] = w
<1>1. <<x>> \in Seq({x, y, z, w}) /\ Len(<<x>>) = 1 /\ <<x>>[1] = x
  OBVIOUS
<1>2. /\ <<x, y>> \in Seq({x, y, z, w}) /\ Len(<<x, y>>) = 2
      /\ <<x, y>>[1] = x /\ <<x, y>>[2] = y
  OBVIOUS
<1>3. /\ <<x, y, z>> \in Seq({x, y, z, w}) /\ Len(<<x, y, z>>) = 3
      /\ <<x, y, z>>[1] = x /\ <<x, y, z>>[2] = y /\ <<x, y, z>>[3] = z
  OBVIOUS
<1>4. /\ <<x, y, z, w>> \in Seq({x, y, z, w}) /\ Len(<<x, y, z, w>>) = 4
      /\ <<x, y, z, w>>[1] = x /\ <<x, y, z, w>>[2] = y
      /\ <<x, y, z, w>>[3] = z /\ <<x, y, z, w>>[4] = w
  OBVIOUS
<1> QED
  BY <1>1, <1>2, <1>3, <1>4

\* The same for tuples.
LEMMA LeadsTuple1 ==
  ASSUME NEW a, NEW l \in Ledgers, NEW x, Fits(a, x, l)
  PROVE  Leads(a, <<x>>, l, After(x, l)) /\ After(x, l) \in Ledgers
<1> DEFINE q == <<x>>
<1>1. q \in Seq({x}) /\ Len(q) = 1 /\ q[1] = x
  BY Tuples
<1> HIDE DEF q
<1>2. Leads(a, q, l, After(x, l)) /\ After(x, l) \in Ledgers
  BY <1>1, LeadsOne
<1> QED
  BY <1>2 DEF q

LEMMA LeadsTuple2 ==
  ASSUME NEW a, NEW l \in Ledgers, NEW x, NEW y, NEW l2, NEW l3,
         Fits(a, x, l), l2 = After(x, l), Fits(a, y, l2), l3 = After(y, l2)
  PROVE  Leads(a, <<x, y>>, l, l3) /\ l3 \in Ledgers
<1> DEFINE q == <<x, y>>
<1>1. q \in Seq({x, y}) /\ Len(q) = 2 /\ q[1] = x /\ q[2] = y
  BY Tuples
<1> HIDE DEF q
<1>2. Leads(a, q, l, l3) /\ l3 \in Ledgers
  BY <1>1, LeadsTwo
<1> QED
  BY <1>2 DEF q

LEMMA LeadsTuple3 ==
  ASSUME NEW a, NEW l \in Ledgers, NEW x, NEW y, NEW z, NEW l2, NEW l3, NEW l4,
         Fits(a, x, l), l2 = After(x, l), Fits(a, y, l2), l3 = After(y, l2),
         Fits(a, z, l3), l4 = After(z, l3)
  PROVE  Leads(a, <<x, y, z>>, l, l4) /\ l4 \in Ledgers
<1> DEFINE q == <<x, y, z>>
<1>1. q \in Seq({x, y, z}) /\ Len(q) = 3 /\ q[1] = x /\ q[2] = y /\ q[3] = z
  BY Tuples
<1> HIDE DEF q
<1>2. Leads(a, q, l, l4) /\ l4 \in Ledgers
  BY <1>1, LeadsThree
<1> QED
  BY <1>2 DEF q

LEMMA LeadsTuple4 ==
  ASSUME NEW a, NEW l \in Ledgers, NEW x, NEW y, NEW z, NEW w,
         NEW l2, NEW l3, NEW l4, NEW l5,
         Fits(a, x, l), l2 = After(x, l), Fits(a, y, l2), l3 = After(y, l2),
         Fits(a, z, l3), l4 = After(z, l3), Fits(a, w, l4), l5 = After(w, l4)
  PROVE  Leads(a, <<x, y, z, w>>, l, l5) /\ l5 \in Ledgers
<1> DEFINE q == <<x, y, z, w>>
<1>1. /\ q \in Seq({x, y, z, w}) /\ Len(q) = 4
      /\ q[1] = x /\ q[2] = y /\ q[3] = z /\ q[4] = w
  BY Tuples
<1> HIDE DEF q
<1>2. Leads(a, q, l, l5) /\ l5 \in Ledgers
  BY <1>1, LeadsFour
<1> QED
  BY <1>2 DEF q

-----------------------------------------------------------------------------
(* Sequences of any length                                                 *)

\* The least exception would be a successor.
LEMMA UpTo ==
  ASSUME NEW N \in Nat, NEW S, 0 \in S, \A n \in 0 .. N - 1 : n \in S => n + 1 \in S
  PROVE  N \in S
<1> DEFINE R == {p \in Nat \X Nat : p[1] < p[2]}
           T == (0 .. N) \ S
<1>1. IsWellFoundedOn(R, Nat)
  BY NatLessThanWellFounded DEF OpToRel
<1>2. SUFFICES ASSUME N \notin S PROVE FALSE
  OBVIOUS
<1>3. T # {} /\ T \in SUBSET Nat
  <2>1. N \in T
    BY <1>2
  <2> QED
    BY <2>1
<1>4. PICK x \in T : \A y \in T : <<y, x>> \notin R
  <2> HIDE DEF T, R
  <2> QED
    BY <1>1, <1>3, WFMin
<1>5. x \in 0 .. N /\ x # 0 /\ x \notin S
  BY <1>4
<1>6. x - 1 \in 0 .. N - 1 /\ (x - 1) + 1 = x
  BY <1>5
<1>7. x - 1 \notin S
  BY <1>5, <1>6
<1>8. x - 1 \in T /\ <<x - 1, x>> \in R
  BY <1>6, <1>7
<1> QED
  BY <1>4, <1>8

\* What the recursive function in the definition of FlattenSeq satisfies.
Joined(q, f, n) == f = [i \in 1 .. n |-> IF i = 1 THEN q[i] ELSE f[i - 1] \o q[i]]

LEMMA JoinedIs ==
  ASSUME NEW q, NEW f, NEW n \in Nat \ {0}, Joined(q, f, n)
  PROVE  f[1] = q[1] /\ \A i \in 1 .. n - 1 : f[i + 1] = f[i] \o q[i + 1]
<1>1. \A i \in 1 .. n : f[i] = IF i = 1 THEN q[i] ELSE f[i - 1] \o q[i]
  <2> DEFINE F == [i \in 1 .. n |-> IF i = 1 THEN q[i] ELSE f[i - 1] \o q[i]]
  <2>1. \A i \in 1 .. n : F[i] = IF i = 1 THEN q[i] ELSE f[i - 1] \o q[i]
    OBVIOUS
  <2>2. f = F
    BY DEF Joined
  <2> HIDE DEF F
  <2> QED
    BY <2>1, <2>2
<1>2. 1 \in 1 .. n
  OBVIOUS
<1>3. ASSUME NEW i \in 1 .. n - 1 PROVE f[i + 1] = f[i] \o q[i + 1]
  <2>1. i + 1 \in 1 .. n /\ i + 1 # 1 /\ (i + 1) - 1 = i
    OBVIOUS
  <2> QED
    BY <1>1, <2>1
<1> QED
  BY <1>1, <1>2, <1>3

LEMMA JoinedExists ==
  ASSUME NEW q, NEW N \in Nat
  PROVE  \E f : Joined(q, f, N)
<1> DEFINE S == {n \in Nat : \E f : Joined(q, f, n)}
<1>1. 0 \in S
  <2> DEFINE f == [i \in 1 .. 0 |-> q[i]]
  <2>1. Joined(q, f, 0)
    BY DEF Joined
  <2> QED
    BY <2>1
<1>2. ASSUME NEW n \in Nat, n \in S PROVE n + 1 \in S
  <2>1. PICK f : Joined(q, f, n)
    BY <1>2
  <2> DEFINE g == [i \in 1 .. n + 1 |->
                     IF i <= n THEN f[i] ELSE IF i = 1 THEN q[i] ELSE f[n] \o q[i]]
             G == [i \in 1 .. n + 1 |-> IF i = 1 THEN q[i] ELSE g[i - 1] \o q[i]]
  <2>2. ASSUME NEW i \in 1 .. n + 1
        PROVE  g[i] = IF i = 1 THEN q[i] ELSE g[i - 1] \o q[i]
    <3>1. CASE i = n + 1
      <4>1. ~ (i <= n) /\ (i # 1 => i - 1 = n /\ n \in 1 .. n + 1 /\ n <= n)
        BY <3>1
      <4>2. g[i] = IF i = 1 THEN q[i] ELSE f[n] \o q[i]
        BY <4>1
      <4>3. i # 1 => g[i - 1] = f[n]
        BY <4>1
      <4> HIDE DEF g
      <4> QED
        BY <4>2, <4>3
    <3>2. CASE i # n + 1
      <4>1. i \in 1 .. n /\ n \in Nat \ {0} /\ (i # 1 => i - 1 \in 1 .. n - 1 /\ (i - 1) + 1 = i)
        BY <3>2
      <4>2. f[1] = q[1] /\ (i # 1 => f[i] = f[i - 1] \o q[i])
        <5>1. f[1] = q[1] /\ \A j \in 1 .. n - 1 : f[j + 1] = f[j] \o q[j + 1]
          BY <2>1, <4>1, JoinedIs
        <5>2. i # 1 => f[(i - 1) + 1] = f[i - 1] \o q[(i - 1) + 1]
          BY <4>1, <5>1
        <5> QED
          BY <4>1, <5>1, <5>2
      <4>3. g[i] = f[i]
        BY <4>1
      <4>4. i # 1 => g[i - 1] = f[i - 1]
        BY <4>1
      <4> HIDE DEF g
      <4> QED
        BY <4>2, <4>3, <4>4
    <3> QED
      BY <3>1, <3>2
  <2>3. G = [i \in 1 .. n + 1 |-> g[i]]
    <3> HIDE DEF g
    <3> QED
      BY <2>2
  <2>4. g = [i \in 1 .. n + 1 |-> g[i]]
    OBVIOUS
  <2> HIDE DEF g
  <2>5. Joined(q, g, n + 1)
    BY <2>3, <2>4 DEF Joined
  <2> QED
    BY <2>5
<1> HIDE DEF S
<1>3. N \in S
  BY <1>1, <1>2, UpTo
<1> QED
  BY <1>3 DEF S

LEMMA FlattenIs ==
  ASSUME NEW q, Len(q) \in Nat \ {0}
  PROVE  \E f : /\ FlattenSeq(q) = f[Len(q)]
                /\ f[1] = q[1]
                /\ \A i \in 1 .. Len(q) - 1 : f[i + 1] = f[i] \o q[i + 1]
<1> DEFINE g == CHOOSE f : Joined(q, f, Len(q))
<1>1. Joined(q, g, Len(q))
  BY JoinedExists
<1>2. FlattenSeq(q) = g[Len(q)]
  BY DEF FlattenSeq, Joined
<1> HIDE DEF g
<1>3. g[1] = q[1] /\ \A i \in 1 .. Len(q) - 1 : g[i + 1] = g[i] \o q[i + 1]
  <2> DEFINE n == Len(q)
  <2>1. n \in Nat \ {0} /\ Joined(q, g, n)
    BY <1>1
  <2> HIDE DEF n
  <2>2. g[1] = q[1] /\ \A i \in 1 .. n - 1 : g[i + 1] = g[i] \o q[i + 1]
    BY <2>1, JoinedIs
  <2> QED
    BY <2>2 DEF n
<1> QED
  BY <1>2, <1>3

\* A row of steps that keep an index and the ledger in P.
LEMMA RowLeads ==
  ASSUME NEW a, NEW S, NEW q \in Seq(S), NEW l \in Ledgers, NEW P, <<0, l>> \in P,
         \A i \in 0 .. Len(q) - 1 : \A k \in Ledgers : <<i, k>> \in P =>
           Fits(a, q[i + 1], k) /\ <<i + 1, After(q[i + 1], k)>> \in P
  PROVE  \E m \in Ledgers : Leads(a, q, l, m) /\ <<Len(q), m>> \in P
<1> DEFINE Part(n) == SubSeq(q, 1, n)
           T == {n \in 0 .. Len(q) :
                   \E m \in Ledgers : Leads(a, Part(n), l, m) /\ <<n, m>> \in P}
<1>1. Len(q) \in Nat /\ \A i \in 1 .. Len(q) : q[i] \in S
  BY LenProperties, ElementOfSeq
<1>2. Part(0) = <<>>
  BY SubSeqEmpty
<1>3. Part(Len(q)) = q
  BY <1>1
<1>4. ASSUME NEW n \in 0 .. Len(q) - 1
      PROVE  Part(n + 1) = Part(n) \o <<q[n + 1]>>
  BY <1>1
<1> HIDE DEF Part
<1>5. 0 \in T
  BY <1>1, <1>2, LeadsNowhere
<1>6. ASSUME NEW n \in 0 .. Len(q) - 1, n \in T PROVE n + 1 \in T
  <2>1. PICK m \in Ledgers : Leads(a, Part(n), l, m) /\ <<n, m>> \in P
    BY <1>6
  <2> DEFINE k == After(q[n + 1], m)
  <2>2. Fits(a, q[n + 1], m) /\ <<n + 1, k>> \in P
    BY <2>1
  <2>3. Leads(a, <<q[n + 1]>>, m, k) /\ k \in Ledgers
    BY <2>2, LeadsTuple1
  <2> HIDE DEF k
  <2>4. Leads(a, Part(n + 1), l, k)
    BY <1>4, <2>1, <2>3, LeadsOn
  <2>5. n + 1 \in 0 .. Len(q)
    BY <1>1
  <2> QED
    BY <2>2, <2>3, <2>4, <2>5
<1> HIDE DEF T
<1>7. Len(q) \in T
  BY <1>1, <1>5, <1>6, UpTo
<1> QED
  BY <1>3, <1>7 DEF T

\* The same for a row of sequences of steps.
LEMMA RowsLead ==
  ASSUME NEW a, NEW q, Len(q) \in Nat \ {0}, NEW l, NEW P, <<0, l>> \in P,
         \A i \in 0 .. Len(q) - 1 : \A k : <<i, k>> \in P =>
           \E m : Leads(a, q[i + 1], k, m) /\ <<i + 1, m>> \in P
  PROVE  \E m : Leads(a, FlattenSeq(q), l, m) /\ <<Len(q), m>> \in P
<1>1. PICK f : /\ FlattenSeq(q) = f[Len(q)]
               /\ f[1] = q[1]
               /\ \A i \in 1 .. Len(q) - 1 : f[i + 1] = f[i] \o q[i + 1]
  BY FlattenIs
<1> DEFINE N == Len(q) - 1
           T == {n \in 0 .. N :
                   \E m : Leads(a, f[n + 1], l, m) /\ <<n + 1, m>> \in P}
<1>2. N \in Nat /\ N + 1 = Len(q)
  OBVIOUS
<1>3. 0 \in T
  <2>1. 0 \in 0 .. N /\ 0 + 1 = 1
    BY <1>2
  <2>2. \E m : Leads(a, q[0 + 1], l, m) /\ <<0 + 1, m>> \in P
    BY <2>1
  <2> QED
    BY <1>1, <2>1, <2>2
<1>4. ASSUME NEW n \in 0 .. N - 1, n \in T PROVE n + 1 \in T
  <2>1. /\ n + 1 \in 0 .. N /\ n + 1 \in 0 .. Len(q) - 1 /\ n + 1 \in 1 .. Len(q) - 1
    BY <1>2
  <2>2. PICK m : Leads(a, f[n + 1], l, m) /\ <<n + 1, m>> \in P
    BY <1>4
  <2>3. PICK k : Leads(a, q[(n + 1) + 1], m, k) /\ <<(n + 1) + 1, k>> \in P
    BY <2>1, <2>2
  <2>4. f[(n + 1) + 1] = f[n + 1] \o q[(n + 1) + 1]
    BY <1>1, <2>1
  <2>5. Leads(a, f[(n + 1) + 1], l, k)
    BY <2>2, <2>3, <2>4, LeadsOn
  <2> QED
    BY <2>1, <2>3, <2>5
<1> HIDE DEF T, N
<1>5. N \in T
  BY <1>2, <1>3, <1>4, UpTo
<1> QED
  BY <1>1, <1>2, <1>5 DEF T

-----------------------------------------------------------------------------
(* Exchanges                                                               *)

LEMMA PeerIs ==
  /\ Peer \in Clients /\ Multi \in Clients
  /\ Endpoint(Peer) = "peer" /\ Radio(Peer) = "peer"
  /\ Endpoint(Multi) = "multi" /\ Radio(Multi) = "multi"
  /\ Multi[2] = 1 /\ Peer[2] = 1
  /\ {"multi", "peer"} \subseteq Endpoints
  /\ \A e, n : Endpoint(Client(e, n)) = e /\ Client(e, n)[2] = n
  /\ \A e \in Endpoints, n \in Nat : Client(e, n) \in Clients
BY DEF Peer, Multi, Client, Clients, Endpoint, Endpoints, Radio

\* A message is sent, received and acknowledged.
Exchange(from, to, body, clients) ==
  <<Send(from, "contact", body), Receive(to, "contact", <<body>>),
    RequireAck(body, clients)>>

\* What an exchange adds: e was given one more message.
Exchanged(l, m, e, body, clients) ==
  /\ m \in Ledgers /\ m.known = l.known /\ m.attached = l.attached
  /\ m.given[e] = l.given[e] + 1
  /\ \A d \in Endpoints : d # e => m.given[d] = l.given[d]
  /\ m.sent = l.sent \cup {body}
  /\ m.shown = l.shown \cup ({body} \X clients)

LEMMA ExchangeLeads ==
  ASSUME NEW a, NEW l \in Ledgers, NEW from, NEW to, NEW body \in Nat \ l.sent,
         NEW clients \in SUBSET Clients, NEW e \in Endpoints,
         a.execute, Radio(from) \in l.known, clients \subseteq l.attached,
         KindOf(a, body) = "contact", Endpoint(to) = e,
         l.given[e] + 1 <= Len(Expected(a, e)),
         body = Expected(a, e)[l.given[e] + 1]
  PROVE  \E m : Leads(a, Exchange(from, to, body, clients), l, m)
                /\ Exchanged(l, m, e, body, clients)
<1> DEFINE m2 == Sent(l, body)
           m3 == Given(m2, e, 1)
           m4 == Shown(m3, body, clients)
<1>1. /\ Fits(a, Send(from, "contact", body), l)
      /\ m2 = After(Send(from, "contact", body), l)
  BY SendStep
<1>2. /\ m2 \in Ledgers /\ m2.known = l.known /\ m2.attached = l.attached
      /\ m2.sent = l.sent \cup {body} /\ m2.shown = l.shown /\ m2.given = l.given
  BY LedgerSent
<1> HIDE DEF m2
<1>3. /\ Fits(a, Receive(to, "contact", <<body>>), m2)
      /\ m3 = After(Receive(to, "contact", <<body>>), m2)
  BY <1>2, ReceiveOne
<1>4. /\ m3 \in Ledgers /\ m3.known = l.known /\ m3.attached = l.attached
      /\ m3.sent = l.sent \cup {body} /\ m3.shown = l.shown
      /\ m3.given[e] = l.given[e] + 1
      /\ \A d \in Endpoints : d # e => m3.given[d] = l.given[d]
  <2>1. m2 \in Ledgers
    BY <1>2
  <2>2. /\ m3 \in Ledgers /\ m3.known = m2.known /\ m3.attached = m2.attached
        /\ m3.sent = m2.sent /\ m3.shown = m2.shown
        /\ m3.given[e] = m2.given[e] + 1
        /\ \A d \in Endpoints : d # e => m3.given[d] = m2.given[d]
    BY <2>1, LedgerGivenOne
  <2> HIDE DEF m3
  <2> QED
    BY <1>2, <2>2
<1> HIDE DEF m3
<1>5. /\ Fits(a, RequireAck(body, clients), m3)
      /\ m4 = After(RequireAck(body, clients), m3)
  <2>1. clients \in SUBSET m3.attached /\ body \in Nat
    BY <1>4
  <2> QED
    BY <1>4, <2>1, AckStep
<1>6. /\ m4 \in Ledgers /\ m4.known = m3.known /\ m4.attached = m3.attached
      /\ m4.sent = m3.sent /\ m4.given = m3.given
      /\ m4.shown = m3.shown \cup ({body} \X clients)
  BY <1>4, LedgerShown
<1> HIDE DEF m4
<1>7. Leads(a, Exchange(from, to, body, clients), l, m4)
  BY <1>1, <1>3, <1>5, LeadsTuple3 DEF Exchange
<1>8. Exchanged(l, m4, e, body, clients)
  BY <1>4, <1>6 DEF Exchanged
<1> QED
  BY <1>7, <1>8

-----------------------------------------------------------------------------
(* The phases of run()                                                     *)

LEMMA SequencesAre ==
  ASSUME NEW S, NEW n \in Nat, NEW f \in [1 .. n -> S]
  PROVE  f \in Seq(S) /\ Len(f) = n /\ \A i \in 1 .. n : f[i] \in S
OBVIOUS

LEMMA NothingYetIs ==
  /\ NothingYet \in Ledgers /\ NothingYet.known = {} /\ NothingYet.sent = {}
  /\ \A e \in Endpoints : NothingYet.given[e] = 0
<1> DEFINE given == [e \in Endpoints |-> 0]
<1>1. given \in [Endpoints -> Nat] /\ \A e \in Endpoints : given[e] = 0
  OBVIOUS
<1>2. NothingYet = [known |-> {}, attached |-> {}, given |-> given, sent |-> {},
                    shown |-> {}]
  BY DEF NothingYet
<1> HIDE DEF given
<1> QED
  BY <1>1, <1>2 DEF Ledgers

\* The clients are connected, the keys and the secrets compared.
LEMMA PreflightLeads ==
  ASSUME NEW a \in Settings
  PROVE  \E m \in Ledgers :
           /\ Leads(a, Preflight(a), NothingYet, m)
           /\ {"multi", "peer"} \subseteq m.known
           /\ a.channel => "channel" \in m.known
           /\ m.given = NothingYet.given /\ m.sent = {}
<1> DEFINE l == NothingYet
           opens == Each(Listeners(a), LAMBDA e : Open(First(e)))
           tables == <<Open(Peer), CompareIdentities, Contacts("multi"), Contacts("peer")>>
           secrets == <<Channel("multi"), Channel("peer"), CompareSecrets>>
           m1 == [l EXCEPT !.known = @ \cup {"multi"}]
           m2 == [m1 EXCEPT !.known = @ \cup {"peer"}]
           m3 == [m2 EXCEPT !.known = @ \cup {"channel"}]
<1>1. l \in Ledgers /\ l.known = {} /\ l.sent = {}
  BY NothingYetIs
<1>2. Leads(a, opens, l, l)
  <2>1. opens = [i \in 1 .. 1 + a.ports |-> Open(First(Listeners(a)[i]))]
    BY ListenersAre DEF Each
  <2>2. opens \in [1 .. 1 + a.ports -> {opens[i] : i \in 1 .. 1 + a.ports}]
    BY <2>1
  <2>3. 1 + a.ports \in Nat
    BY PortsAre
  <2>4. opens \in Seq({opens[i] : i \in 1 .. 1 + a.ports}) /\ Len(opens) = 1 + a.ports
    <3> HIDE DEF opens
    <3> QED
      BY <2>2, <2>3, SequencesAre
  <2>5. \A i \in 1 .. Len(opens) : Fits(a, opens[i], l) /\ After(opens[i], l) = l
    <3>1. TAKE i \in 1 .. Len(opens)
    <3>2. PICK c : opens[i] = Open(c)
      BY <2>1, <2>4
    <3> HIDE DEF l, opens
    <3>3. Fits(a, Open(c), l) /\ After(Open(c), l) = l
      BY <1>1, QuietSteps
    <3> QED
      BY <3>2, <3>3
  <2> HIDE DEF l, opens
  <2> QED
    BY <1>1, <2>4, <2>5, LeadsStill
<1>3. /\ m1 \in Ledgers /\ m1.known = {"multi"} /\ m1.given = l.given /\ m1.sent = {}
  <2> HIDE DEF l
  <2> QED
    BY <1>1 DEF Ledgers
<1>4. /\ m2 \in Ledgers /\ m2.known = {"multi", "peer"} /\ m2.given = l.given /\ m2.sent = {}
  <2> HIDE DEF l, m1
  <2> QED
    BY <1>3 DEF Ledgers
<1>5. /\ m3 \in Ledgers /\ m3.known = {"multi", "peer", "channel"}
      /\ m3.given = l.given /\ m3.sent = {}
  <2> HIDE DEF l, m1, m2
  <2> QED
    BY <1>4 DEF Ledgers
<1>6. Leads(a, tables, l, m2)
  <2>1. Fits(a, Open(Peer), l) /\ l = After(Open(Peer), l)
        /\ Fits(a, CompareIdentities, l) /\ l = After(CompareIdentities, l)
    BY <1>1, QuietSteps
  <2>2. Fits(a, Contacts("multi"), l) /\ m1 = After(Contacts("multi"), l)
    BY <1>1, ContactsStep
  <2>3. Fits(a, Contacts("peer"), m1) /\ m2 = After(Contacts("peer"), m1)
    <3> HIDE DEF m1
    <3> QED
      BY <1>3, ContactsStep
  <2> HIDE DEF l, m1, m2
  <2> QED
    BY <1>1, <2>1, <2>2, <2>3, LeadsTuple4
<1>7. Leads(a, secrets, m2, m3)
  <2>1. /\ Fits(a, Channel("multi"), m2) /\ m2 = After(Channel("multi"), m2)
        /\ Fits(a, Channel("peer"), m2) /\ m2 = After(Channel("peer"), m2)
        /\ Fits(a, CompareSecrets, m2) /\ m3 = After(CompareSecrets, m2)
    <3> HIDE DEF m2
    <3> QED
      BY <1>4, QuietSteps, ChannelSteps
  <2> HIDE DEF m2, m3
  <2> QED
    BY <1>4, <2>1, LeadsTuple3
<1> HIDE DEF l, m1, m2, m3, opens, tables, secrets
<1>8. Leads(a, opens \o tables, l, m2)
  BY <1>2, <1>6, LeadsOn
<1>9. CASE a.channel
  <2>1. Preflight(a) = (opens \o tables) \o secrets
    BY <1>9 DEF Preflight, opens, tables, secrets
  <2>2. Leads(a, (opens \o tables) \o secrets, l, m3)
    BY <1>7, <1>8, LeadsOn
  <2> QED
    BY <1>5, <2>1, <2>2 DEF l
<1>10. CASE ~ a.channel
  <2>1. Preflight(a) = (opens \o tables) \o <<>>
    BY <1>10 DEF Preflight, opens, tables, secrets
  <2>2. Leads(a, (opens \o tables) \o <<>>, l, m2)
    BY <1>4, <1>8, LeadsOn, LeadsNowhere
  <2> QED
    BY <1>4, <1>10, <2>1, <2>2 DEF l
<1> QED
  BY <1>9, <1>10

LEMMA QueryLeads ==
  ASSUME NEW a, NEW l \in Ledgers
  PROVE  Leads(a, SharedQueries, l, l)
<1>1. Fits(a, Query, l) /\ After(Query, l) = l
  BY QuietSteps
<1> QED
  BY <1>1, LeadsTuple1 DEF SharedQueries

LEMMA MarkersAre ==
  ASSUME NEW a \in Settings
  PROVE  /\ a.ports \in Nat
         /\ Inbound(a) = 2 + a.ports
         /\ Retained(a)[1] = 3 + a.ports /\ Retained(a)[2] = 4 + a.ports
         /\ Retained(a) \in Seq(Nat) /\ Len(Retained(a)) = 2
         /\ TakeoverMarker(a) = 5 + a.ports
         /\ ChannelMarker(a) = 6 + a.ports
         /\ \A b \in Nat : b <= 5 + a.ports => KindOf(a, b) = "contact"
         /\ a.channel => KindOf(a, ChannelMarker(a)) = "channel"
<1>1. a.ports \in Nat
  BY PortsAre
<1>2. Retained(a) \in Seq(Nat) /\ Len(Retained(a)) = 2
      /\ Retained(a)[1] = 3 + a.ports /\ Retained(a)[2] = 4 + a.ports
  BY <1>1 DEF Retained
<1> QED
  BY <1>1, <1>2 DEF Inbound, TakeoverMarker, ChannelMarker, KindOf

\* What is known and collected from the first send on.
Ready(a, l) ==
  /\ l \in Ledgers
  /\ {"multi", "peer"} \subseteq l.known
  /\ a.channel => "channel" \in l.known
  /\ l.attached = Shared(a) \cup {Peer}

LEMMA ReadyStays ==
  ASSUME NEW a, NEW l, Ready(a, l), NEW m \in Ledgers,
         m.known = l.known, m.attached = l.attached
  PROVE  Ready(a, m)
BY DEF Ready

\* The i-th listener's message.
FromListenerNumber(a, i) ==
  Exchange(First(Listeners(a)[i]), Peer, i, Shared(a))

\* The messages of i listeners were exchanged.
Heard(a, l, i) ==
  /\ Ready(a, l)
  /\ l.given["peer"] = i
  /\ \A e \in Endpoints \ {"peer"} : l.given[e] = 0
  /\ l.sent = 1 .. i
  /\ (1 .. i) \X Shared(a) \subseteq l.shown

LEMMA ListenerLeads ==
  ASSUME NEW a \in Settings, a.execute, NEW l,
         NEW i \in 1 .. 1 + a.ports, NEW j, i = j + 1, j \in Nat, Heard(a, l, j)
  PROVE  \E m : Leads(a, FromListenerNumber(a, i), l, m) /\ Heard(a, m, i)
<1> DEFINE from == First(Listeners(a)[i])
           clients == Shared(a)
           e == "peer"
<1>1. /\ Ready(a, l) /\ l.given[e] = i - 1 /\ l.sent = 1 .. i - 1
      /\ \A d \in Endpoints \ {e} : l.given[d] = 0
      /\ (1 .. i - 1) \X clients \subseteq l.shown
  BY MarkersAre DEF Heard
<1>2. l \in Ledgers /\ "multi" \in l.known /\ clients \subseteq l.attached
      /\ clients \in SUBSET Clients /\ e \in Endpoints /\ Endpoint(Peer) = e
  BY <1>1, ListenersAre, PeerIs DEF Ready
<1>3. i \in Nat \ l.sent /\ KindOf(a, i) = "contact"
  <2>1. a.ports \in Nat
    BY PortsAre
  <2>2. i \in Nat /\ i <= 5 + a.ports /\ i \notin 1 .. i - 1
    BY <2>1
  <2>3. KindOf(a, i) = "contact"
    BY <2>2, MarkersAre
  <2> QED
    BY <1>1, <2>2, <2>3
<1>4. Radio(from) = "multi"
  <2>1. Listeners(a)[i] # "peer"
    BY ListenersAre
  <2> QED
    BY <2>1, PeerIs DEF Radio, First
<1>5. l.given[e] + 1 = i /\ i <= Len(Expected(a, e)) /\ Expected(a, e)[i] = i
  <2>1. l.given[e] + 1 = i /\ i <= 1 + a.ports
    BY <1>1, MarkersAre
  <2> QED
    BY <2>1, ExpectedIs
<1>6. Radio(from) \in l.known
  BY <1>2, <1>4
<1>7. l.given[e] + 1 <= Len(Expected(a, e)) /\ i = Expected(a, e)[l.given[e] + 1]
  BY <1>5
<1> HIDE DEF from, clients, e
<1>8. \E m : Leads(a, Exchange(from, Peer, i, clients), l, m)
             /\ Exchanged(l, m, e, i, clients)
  BY <1>2, <1>3, <1>6, <1>7, ExchangeLeads
<1>9. PICK m : Leads(a, Exchange(from, Peer, i, clients), l, m)
             /\ Exchanged(l, m, e, i, clients)
  BY <1>8
<1>10. /\ m \in Ledgers /\ m.known = l.known /\ m.attached = l.attached
       /\ m.given[e] = l.given[e] + 1
       /\ \A d \in Endpoints : d # e => m.given[d] = l.given[d]
       /\ m.sent = l.sent \cup {i}
       /\ m.shown = l.shown \cup ({i} \X clients)
  BY <1>9 DEF Exchanged
<1>11. 1 .. i = (1 .. i - 1) \cup {i}
  <2>1. i \in Nat /\ 1 <= i
    BY <1>3
  <2> QED
    BY <2>1
<1>12. m.sent = 1 .. i
  <2>1. l.sent = 1 .. i - 1 /\ m.sent = l.sent \cup {i}
    BY <1>1, <1>10
  <2> QED
    BY <1>11, <2>1
<1>13. Ready(a, m)
  BY <1>1, <1>10, ReadyStays
<1>14. (1 .. i) \X clients \subseteq m.shown
  <2>1. (1 .. i - 1) \X clients \subseteq l.shown
    BY <1>1
  <2>2. m.shown = l.shown \cup ({i} \X clients)
    BY <1>10
  <2> QED
    BY <1>11, <2>1, <2>2
<1>15. m.given[e] = i /\ \A d \in Endpoints \ {e} : m.given[d] = 0
  BY <1>1, <1>5, <1>10
<1>16. Heard(a, m, i)
  BY <1>12, <1>13, <1>14, <1>15 DEF Heard, clients, e
<1> QED
  BY <1>9, <1>16 DEF FromListenerNumber, from, clients

\* Where the program stands between two exchanges: s messages were sent, the
\* client of the shared listener was given n of them, those of the first k
\* ports w and those of the other ports v.
Stands(a, l, s, n, k, w, v) ==
  /\ Ready(a, l)
  /\ l.given["peer"] = 1 + a.ports
  /\ l.given["multi"] = n
  /\ \A i \in 1 .. a.ports : l.given[Port[i]] = IF i <= k THEN w ELSE v
  /\ l.sent = 1 .. s
  /\ (1 .. 1 + a.ports) \X Shared(a) \subseteq l.shown
  /\ \A b \in Inbound(a) .. s : b # ChannelMarker(a) => <<b, Peer>> \in l.shown

\* All ports were given the same.
Level(a, l, s, n, v) == Stands(a, l, s, n, 0, v, v)

LEMMA LevelIs ==
  ASSUME NEW a \in Settings, NEW l, NEW s, NEW n, NEW v, NEW w
  PROVE  /\ Level(a, l, s, n, v) => Stands(a, l, s, n, 0, w, v)
         /\ Stands(a, l, s, n, a.ports, w, v) => Level(a, l, s, n, w)
<1>1. a.ports \in Nat /\ \A i \in 1 .. a.ports : ~ (i <= 0) /\ i <= a.ports
  BY PortsAre
<1> QED
  BY <1>1 DEF Level, Stands

LEMMA StandsIs ==
  ASSUME NEW a, NEW l, NEW s, NEW n, NEW k, NEW w, NEW v,
         Stands(a, l, s, n, k, w, v)
  PROVE  /\ l \in Ledgers /\ l.given["multi"] = n
         /\ \A i \in 1 .. a.ports : l.given[Port[i]] = IF i <= k THEN w ELSE v
BY DEF Stands, Ready

LEMMA ListenerSendsLeads ==
  ASSUME NEW a \in Settings, a.execute, NEW l \in Ledgers,
         {"multi", "peer"} \subseteq l.known, a.channel => "channel" \in l.known,
         \A e \in Endpoints : l.given[e] = 0, l.sent = {}
  PROVE  \E m : Leads(a, ListenerSends(a), l, m) /\ Level(a, m, 1 + a.ports, 0, 0)
<1> DEFINE clients == Shared(a) \cup {Peer}
           l1 == [l EXCEPT !.attached = clients]
           q == [i \in DOMAIN Listeners(a) |-> FromListenerNumber(a, i)]
           N == 1 + a.ports
           P == {p \in (0 .. N) \X Ledgers : Heard(a, p[2], p[1])}
<1>1. ListenerSends(a) = <<Attach(clients)>> \o FlattenSeq(q)
  BY DEF ListenerSends, FromListenerNumber, Exchange
<1>2. clients \in SUBSET Clients
  BY ListenersAre, PeerIs
<1>3. Leads(a, <<Attach(clients)>>, l, l1)
  <2>1. Fits(a, Attach(clients), l) /\ l1 = After(Attach(clients), l)
    BY <1>2, AttachStep
  <2> HIDE DEF l1, clients
  <2> QED
    BY <2>1, LeadsTuple1
<1>4. /\ l1 \in Ledgers /\ l1.known = l.known /\ l1.attached = clients
      /\ l1.given = l.given /\ l1.sent = {} /\ l1.shown = l.shown
  <2> HIDE DEF clients
  <2> QED
    BY <1>2 DEF Ledgers
<1> HIDE DEF l1
<1>5. Heard(a, l1, 0)
  BY <1>4, PeerIs DEF Heard, Ready
<1>6. N \in Nat \ {0} /\ a.ports \in Nat
  BY PortsAre
<1>7. Len(q) = N /\ \A i \in 1 .. N : q[i] = FromListenerNumber(a, i)
  <2>1. q = [i \in 1 .. N |-> FromListenerNumber(a, i)]
    BY ListenersAre
  <2>2. q \in [1 .. N -> {FromListenerNumber(a, i) : i \in 1 .. N}]
    BY <2>1
  <2>3. \A i \in 1 .. N : q[i] = FromListenerNumber(a, i)
    BY <2>1
  <2> HIDE DEF q, N
  <2>4. Len(q) = N
    BY ONLY <1>6, <2>2, SequencesAre
  <2> QED
    BY <2>3, <2>4
<1>8. <<0, l1>> \in P
  BY <1>4, <1>5, <1>6
<1>9. ASSUME NEW i \in 0 .. N - 1, NEW k, <<i, k>> \in P
      PROVE  \E m : Leads(a, q[i + 1], k, m) /\ <<i + 1, m>> \in P
  <2>1. i + 1 \in 1 .. N /\ i \in Nat /\ Heard(a, k, i)
    BY <1>6, <1>9
  <2>2. PICK m : Leads(a, FromListenerNumber(a, i + 1), k, m) /\ Heard(a, m, i + 1)
    BY <2>1, ListenerLeads
  <2>3. m \in Ledgers
    BY <2>2 DEF Heard, Ready
  <2>4. <<i + 1, m>> \in P
    BY <1>6, <2>1, <2>2, <2>3
  <2>5. q[i + 1] = FromListenerNumber(a, i + 1)
    BY <1>7, <2>1
  <2> HIDE DEF P, q
  <2> QED
    BY <2>2, <2>4, <2>5
<1> HIDE DEF q, P, clients
<1>10. PICK m : Leads(a, FlattenSeq(q), l1, m) /\ <<N, m>> \in P
  <2> HIDE DEF N
  <2> QED
    BY <1>6, <1>7, <1>8, <1>9, RowsLead
<1>11. Leads(a, ListenerSends(a), l, m)
  BY <1>1, <1>3, <1>10, LeadsOn
<1>12. Heard(a, m, N)
  BY <1>10 DEF P
<1>13. Level(a, m, N, 0, 0)
  <2>1. Inbound(a) .. N = {}
    <3>1. Inbound(a) = N + 1
      BY <1>6, MarkersAre
    <3> HIDE DEF N
    <3> QED
      BY <1>6, <3>1
  <2>2. "multi" \in Endpoints \ {"peer"}
        /\ \A i \in 1 .. a.ports : Port[i] \in Endpoints \ {"peer"}
    BY PortsAre, PeerIs
  <2> QED
    BY <1>12, <2>1, <2>2 DEF Heard, Level, Stands
<1> QED
  BY <1>11, <1>13

\* What a listener is due after v messages.
LEMMA DueAre ==
  ASSUME NEW a \in Settings, NEW e \in Served(a), NEW v \in 0 .. 4,
         v = 4 => a.channel
  PROVE  /\ v + 1 <= Len(Expected(a, e))
         /\ Expected(a, e)[v + 1] = 2 + a.ports + v
         /\ KindOf(a, 2 + a.ports + v) = IF v = 4 THEN "channel" ELSE "contact"
<1>1. e \in Endpoints \ {"peer"}
  BY PortsAre
<1>2. /\ Len(Expected(a, e)) = IF a.channel THEN 5 ELSE 4
      /\ Expected(a, e)[1] = 2 + a.ports
      /\ Expected(a, e)[2] = 3 + a.ports
      /\ Expected(a, e)[3] = 4 + a.ports
      /\ Expected(a, e)[4] = 5 + a.ports
      /\ a.channel => Expected(a, e)[5] = 6 + a.ports
  BY <1>1, ExpectedIs, MarkersAre
<1>3. KindOf(a, 2 + a.ports + v) = IF v = 4 THEN "channel" ELSE "contact"
  <2>1. CASE v = 4
    <3>1. 2 + a.ports + v = ChannelMarker(a)
      BY <2>1, MarkersAre
    <3> QED
      BY <2>1, <3>1, MarkersAre
  <2>2. CASE v # 4
    <3>1. 2 + a.ports + v \in Nat /\ 2 + a.ports + v <= 5 + a.ports
      <4>1. a.ports \in Nat
        BY MarkersAre
      <4> QED
        BY <2>2, <4>1
    <3> QED
      BY <2>2, <3>1, MarkersAre
  <2> QED
    BY <2>1, <2>2
<1>4. CASE v = 0
  BY <1>2, <1>3, <1>4, MarkersAre
<1>5. CASE v = 1
  BY <1>2, <1>3, <1>5, MarkersAre
<1>6. CASE v = 2
  BY <1>2, <1>3, <1>6, MarkersAre
<1>7. CASE v = 3
  BY <1>2, <1>3, <1>7, MarkersAre
<1>8. CASE v = 4
  BY <1>2, <1>3, <1>8, MarkersAre
<1> QED
  BY <1>4, <1>5, <1>6, <1>7, <1>8

\* The peer's next message.
LEMMA FromPeerLeads ==
  ASSUME NEW a \in Settings, a.execute, NEW l, NEW n \in 0 .. 3, NEW v,
         Level(a, l, 1 + a.ports + n, n, v)
  PROVE  \E m : /\ Leads(a, FromPeer(2 + a.ports + n), l, m)
                /\ Level(a, m, 2 + a.ports + n, n + 1, v)
<1> DEFINE body == 2 + a.ports + n
           clients == {Peer}
           e == "multi"
<1>1. a.ports \in Nat /\ n \in Nat /\ body \in Nat /\ Inbound(a) = 2 + a.ports
      /\ 1 + a.ports + n = body - 1
  <2>1. a.ports \in Nat /\ Inbound(a) = 2 + a.ports
    BY MarkersAre
  <2> QED
    BY <2>1
<1>2. /\ l \in Ledgers /\ "peer" \in l.known /\ clients \subseteq l.attached
      /\ l.sent = 1 .. body - 1 /\ l.given[e] = n
      /\ l.given["peer"] = 1 + a.ports
      /\ \A i \in 1 .. a.ports : l.given[Port[i]] = IF i <= 0 THEN v ELSE v
      /\ (1 .. 1 + a.ports) \X Shared(a) \subseteq l.shown
      /\ \A b \in Inbound(a) .. body - 1 :
           b # ChannelMarker(a) => <<b, Peer>> \in l.shown
  BY <1>1 DEF Level, Stands, Ready
<1>3. body \in Nat \ l.sent
  BY <1>1, <1>2
<1>4. /\ e \in Endpoints /\ clients \in SUBSET Clients /\ Radio(Peer) \in l.known
      /\ Endpoint(Multi) = e
  BY <1>2, PeerIs
<1>5. /\ n + 1 <= Len(Expected(a, e)) /\ Expected(a, e)[n + 1] = body
      /\ KindOf(a, body) = "contact"
  <2>1. e \in Served(a) /\ n \in 0 .. 4 /\ n # 4
    BY PortsAre
  <2> QED
    BY <2>1, DueAre
<1>6. l.given[e] + 1 <= Len(Expected(a, e)) /\ body = Expected(a, e)[l.given[e] + 1]
  BY <1>2, <1>5
<1>7. FromPeer(body) = Exchange(Peer, Multi, body, clients)
  BY DEF FromPeer, Exchange
<1> HIDE DEF body, clients, e
<1>8. \E m : Leads(a, Exchange(Peer, Multi, body, clients), l, m)
             /\ Exchanged(l, m, e, body, clients)
  BY <1>2, <1>3, <1>4, <1>5, <1>6, ExchangeLeads
<1>9. PICK m : Leads(a, FromPeer(body), l, m) /\ Exchanged(l, m, e, body, clients)
  BY <1>7, <1>8
<1>10. Ready(a, l) /\ m \in Ledgers /\ m.known = l.known /\ m.attached = l.attached
  BY <1>9 DEF Exchanged, Level, Stands
<1>11. Ready(a, m)
  BY <1>10, ReadyStays
<1>12. /\ m.given["multi"] = n + 1 /\ m.given["peer"] = 1 + a.ports
       /\ \A i \in 1 .. a.ports : m.given[Port[i]] = IF i <= 0 THEN v ELSE v
  <2>1. /\ m.given[e] = l.given[e] + 1
        /\ \A d \in Endpoints : d # e => m.given[d] = l.given[d]
    BY <1>9 DEF Exchanged
  <2>2. "peer" \in Endpoints /\ "peer" # e
    BY PeerIs DEF e
  <2>3. \A i \in 1 .. a.ports : Port[i] \in Endpoints /\ Port[i] # e
    BY PortsAre DEF e
  <2> QED
    BY <1>2, <2>1, <2>2, <2>3 DEF e
<1>13. m.sent = 1 .. body
  BY <1>1, <1>2, <1>9 DEF Exchanged
<1>14. (1 .. 1 + a.ports) \X Shared(a) \subseteq m.shown
  BY <1>2, <1>9 DEF Exchanged
<1>15. ASSUME NEW b \in Inbound(a) .. body, b # ChannelMarker(a)
       PROVE  <<b, Peer>> \in m.shown
  <2>1. b = body \/ b \in Inbound(a) .. body - 1
    BY <1>1
  <2> QED
    BY <1>2, <1>9, <1>15, <2>1 DEF Exchanged, clients
<1>16. Level(a, m, body, n + 1, v)
  BY <1>11, <1>12, <1>13, <1>14, <1>15 DEF Level, Stands
<1> QED
  BY <1>9, <1>16 DEF body

\* The same with the sums named.
LEMMA PeerLeads ==
  ASSUME NEW a \in Settings, a.execute, NEW l, NEW n \in 0 .. 3, NEW v,
         NEW s, s = 1 + a.ports + n, NEW body, body = 2 + a.ports + n,
         NEW n1, n1 = n + 1, Level(a, l, s, n, v)
  PROVE  \E m : Leads(a, FromPeer(body), l, m) /\ Level(a, m, body, n1, v)
BY FromPeerLeads

\* e was given u messages now, and nothing else changed.
Gains(l, m, e, u) ==
  /\ m \in Ledgers /\ m.known = l.known /\ m.attached = l.attached
  /\ m.sent = l.sent /\ m.shown = l.shown
  /\ m.given[e] = u
  /\ \A d \in Endpoints : d # e => m.given[d] = l.given[d]

LEMMA MultiGains ==
  ASSUME NEW a \in Settings, NEW l, NEW s, NEW n, NEW k, NEW w, NEW v,
         Stands(a, l, s, n, k, w, v), NEW m, NEW u, Gains(l, m, "multi", u)
  PROVE  Stands(a, m, s, u, k, w, v)
<1>1. Ready(a, m)
  BY ReadyStays DEF Stands, Gains
<1>2. "peer" \in Endpoints /\ "peer" # "multi"
      /\ \A i \in 1 .. a.ports : Port[i] \in Endpoints /\ Port[i] # "multi"
  BY PortsAre, PeerIs
<1> QED
  BY <1>1, <1>2 DEF Stands, Gains

LEMMA PortGains ==
  ASSUME NEW a \in Settings, NEW l, NEW s, NEW n, NEW k \in Nat, NEW w, NEW v,
         NEW k1 \in 1 .. a.ports, k1 = k + 1,
         Stands(a, l, s, n, k, w, v), NEW m, Gains(l, m, Port[k1], w)
  PROVE  Stands(a, m, s, n, k1, w, v)
<1>1. Ready(a, m)
  BY ReadyStays DEF Stands, Gains
<1>2. /\ "peer" \in Endpoints /\ "multi" \in Endpoints
      /\ Port[k1] # "multi" /\ Port[k1] # "peer"
      /\ \A i \in 1 .. a.ports :
           Port[i] \in Endpoints /\ (Port[i] = Port[k1] => i = k1)
  BY PortsAre, PeerIs
<1>3. ASSUME NEW i \in 1 .. a.ports
      PROVE  m.given[Port[i]] = IF i <= k1 THEN w ELSE v
  <2>1. CASE i = k1
    BY <2>1 DEF Gains
  <2>2. CASE i # k1
    <3>1. m.given[Port[i]] = l.given[Port[i]]
      BY <1>2, <2>2 DEF Gains
    <3>2. l.given[Port[i]] = IF i <= k THEN w ELSE v
      BY DEF Stands
    <3>3. i <= k <=> i <= k1
      BY <2>2
    <3> QED
      BY <3>1, <3>2, <3>3
  <2> QED
    BY <2>1, <2>2
<1>4. m.given["peer"] = 1 + a.ports /\ m.given["multi"] = n
  BY <1>2 DEF Stands, Gains
<1> QED
  BY <1>1, <1>3, <1>4 DEF Stands, Gains

\* The bodies are the next ones after v.
NextBodies(a, v, kind, bodies) ==
  \A j \in 1 .. Len(bodies) :
    /\ v + j \in 1 .. 5 /\ (v + j = 5 => a.channel)
    /\ bodies[j] = 1 + a.ports + v + j
    /\ kind = IF v + j = 5 THEN "channel" ELSE "contact"

\* k messages are received on one of the listeners.
LEMMA ReceiveLeads ==
  ASSUME NEW a \in Settings, NEW l \in Ledgers,
         NEW e \in Served(a), NEW c, Endpoint(c) = e, NEW kind,
         NEW v \in Nat, l.given[e] = v,
         NEW bodies \in Seq(Nat), NEW k, k = Len(bodies),
         NextBodies(a, v, kind, bodies)
  PROVE  /\ Fits(a, Receive(c, kind, bodies), l)
         /\ Gains(l, After(Receive(c, kind, bodies), l), e, v + k)
<1> DEFINE m == Given(l, e, k)
<1>1. e \in Endpoints /\ k \in Nat
  BY PortsAre
<1>2. ASSUME NEW j \in 1 .. Len(bodies)
      PROVE  /\ l.given[e] + j <= Len(Expected(a, e))
             /\ bodies[j] = Expected(a, e)[l.given[e] + j]
             /\ kind = KindOf(a, bodies[j])
  <2>1. PICK w \in 0 .. 4 : w = v + j - 1 /\ w + 1 = v + j /\ (w = 4 <=> v + j = 5)
    <3>1. v + j \in 1 .. 5 /\ j \in Nat
      BY <1>2 DEF NextBodies
    <3> QED
      BY <3>1
  <2>2. /\ w = 4 => a.channel
        /\ bodies[j] = 1 + a.ports + v + j
        /\ kind = IF w = 4 THEN "channel" ELSE "contact"
    BY <1>2, <2>1 DEF NextBodies
  <2>3. 1 + a.ports + v + j = 2 + a.ports + w
    <3>1. a.ports \in Nat /\ j \in Nat
      BY MarkersAre
    <3> QED
      BY <2>1, <3>1
  <2>4. /\ w + 1 <= Len(Expected(a, e))
        /\ Expected(a, e)[w + 1] = 2 + a.ports + w
        /\ KindOf(a, 2 + a.ports + w) = IF w = 4 THEN "channel" ELSE "contact"
    BY <2>2, DueAre
  <2> QED
    BY <2>1, <2>2, <2>3, <2>4
<1>3. IsDue(a, e, l.given[e], kind, bodies)
  BY <1>2 DEF IsDue
<1>4. /\ Fits(a, Receive(c, kind, bodies), l)
      /\ After(Receive(c, kind, bodies), l) = m
  BY <1>1, <1>3, ReceiveStep
<1>5. GivenMore(l, m, e, k)
  BY <1>1, LedgerGivenMore
<1> HIDE DEF m
<1>6. Gains(l, m, e, v + k)
  BY <1>5 DEF GivenMore, Gains
<1> QED
  BY <1>4, <1>6

LEMMA ReceiveOneLeads ==
  ASSUME NEW a \in Settings, NEW l \in Ledgers,
         NEW e \in Served(a), NEW c, Endpoint(c) = e, NEW kind, NEW body,
         NEW v \in 0 .. 4, l.given[e] = v, body = 2 + a.ports + v,
         v = 4 => a.channel,
         kind = IF v = 4 THEN "channel" ELSE "contact"
  PROVE  /\ Fits(a, Receive(c, kind, <<body>>), l)
         /\ Gains(l, After(Receive(c, kind, <<body>>), l), e, v + 1)
<1> DEFINE bodies == <<body>>
<1>1. body \in Nat /\ a.ports \in Nat
  <2>1. a.ports \in Nat
    BY MarkersAre
  <2> QED
    BY <2>1
<1>2. bodies \in Seq(Nat) /\ Len(bodies) = 1 /\ bodies[1] = body
  BY <1>1
<1> HIDE DEF bodies
<1>3. PICK k : k = Len(bodies)
  OBVIOUS
<1>4. NextBodies(a, v, kind, bodies)
  <2> SUFFICES ASSUME NEW j \in 1 .. Len(bodies)
               PROVE  /\ v + j \in 1 .. 5 /\ (v + j = 5 => a.channel)
                      /\ bodies[j] = 1 + a.ports + v + j
                      /\ kind = IF v + j = 5 THEN "channel" ELSE "contact"
    BY DEF NextBodies
  <2>1. j = 1 /\ v \in Nat
    BY <1>2, <1>3
  <2>2. 1 + a.ports + v + j = body
    BY <1>1, <2>1
  <2>3. v + j = v + 1 /\ (v + j = 5 <=> v = 4) /\ v + j \in 1 .. 5
    BY <2>1
  <2> QED
    BY <1>2, <2>1, <2>2, <2>3
<1>5. /\ Fits(a, Receive(c, kind, bodies), l)
      /\ Gains(l, After(Receive(c, kind, bodies), l), e, v + k)
  <2>1. bodies \in Seq(Nat) /\ v \in Nat
    BY <1>2
  <2> QED
    BY <1>3, <1>4, <2>1, ReceiveLeads
<1> QED
  BY <1>2, <1>3, <1>5 DEF bodies

\* The next port is served.
LEMMA PortServed ==
  ASSUME NEW a \in Settings, NEW l, NEW s, NEW n, NEW v \in 0 .. 4, NEW w, w = v + 1,
         v = 4 => a.channel, NEW kind, kind = IF v = 4 THEN "channel" ELSE "contact",
         NEW body, body = 2 + a.ports + v,
         NEW k \in Nat, NEW k1 \in 1 .. a.ports, k1 = k + 1,
         Stands(a, l, s, n, k, w, v), NEW c, Endpoint(c) = Port[k1]
  PROVE  /\ Fits(a, Receive(c, kind, <<body>>), l)
         /\ Stands(a, After(Receive(c, kind, <<body>>), l), s, n, k1, w, v)
<1>1. l \in Ledgers /\ Port[k1] \in Served(a) /\ ~ (k1 <= k)
  BY StandsIs, PortsAre
<1>2. l.given[Port[k1]] = v
  BY <1>1, StandsIs
<1>3. /\ Fits(a, Receive(c, kind, <<body>>), l)
      /\ Gains(l, After(Receive(c, kind, <<body>>), l), Port[k1], w)
  <2> DEFINE e == Port[k1]
  <2>1. e \in Served(a) /\ Endpoint(c) = e /\ l.given[e] = v
    BY <1>1, <1>2
  <2> HIDE DEF e
  <2>2. /\ Fits(a, Receive(c, kind, <<body>>), l)
        /\ Gains(l, After(Receive(c, kind, <<body>>), l), e, v + 1)
    BY <1>1, <2>1, ReceiveOneLeads
  <2> QED
    BY <2>2 DEF e
<1> QED
  BY <1>3, PortGains

\* Each step of q receives the message on the next port after the first k0.
PortRow(q, k0, body) ==
  \A i \in 1 .. Len(q) : \E c : /\ Endpoint(c) = Port[k0 + i]
                                /\ q[i] = Receive(c, "contact", <<body>>)

LEMMA PortsReceive ==
  ASSUME NEW a \in Settings, NEW l, NEW s, NEW n, NEW v \in 0 .. 3, NEW w, w = v + 1,
         NEW body, body = 2 + a.ports + v, NEW k0 \in 0 .. a.ports,
         Stands(a, l, s, n, k0, w, v),
         NEW S, NEW q \in Seq(S), Len(q) = a.ports - k0, PortRow(q, k0, body)
  PROVE  \E m : Leads(a, q, l, m) /\ Level(a, m, s, n, w)
<1> DEFINE N == Len(q)
           P == {p \in (0 .. N) \X Ledgers : Stands(a, p[2], s, n, k0 + p[1], w, v)}
<1>1. a.ports \in Nat /\ N \in Nat /\ k0 + N = a.ports /\ k0 + 0 = k0 /\ k0 \in Nat
  BY PortsAre
<1>2. l \in Ledgers
  BY StandsIs
<1>3. <<0, l>> \in P
  BY <1>1, <1>2
<1>4. ASSUME NEW i \in 0 .. N - 1, NEW k \in Ledgers, <<i, k>> \in P
      PROVE  Fits(a, q[i + 1], k) /\ <<i + 1, After(q[i + 1], k)>> \in P
  <2> DEFINE j == k0 + i
             j1 == k0 + (i + 1)
  <2>1. /\ i + 1 \in 1 .. N /\ j1 = j + 1 /\ j \in Nat /\ j1 \in 1 .. a.ports
        /\ Stands(a, k, s, n, j, w, v)
    <3>1. i + 1 \in 1 .. N /\ j1 = j + 1 /\ j \in Nat /\ j1 \in 1 .. a.ports
      <4> HIDE DEF N
      <4> QED
        BY <1>1
    <3>2. Stands(a, k, s, n, j, w, v)
      BY <1>4
    <3> QED
      BY <3>1, <3>2
  <2>2. PICK c : Endpoint(c) = Port[j1] /\ q[i + 1] = Receive(c, "contact", <<body>>)
    BY <2>1 DEF PortRow
  <2>3. /\ v \in 0 .. 4 /\ (v = 4 => a.channel)
        /\ "contact" = IF v = 4 THEN "channel" ELSE "contact"
    OBVIOUS
  <2> HIDE DEF j, j1, P, N
  <2>4. /\ Fits(a, Receive(c, "contact", <<body>>), k)
        /\ Stands(a, After(Receive(c, "contact", <<body>>), k), s, n, j1, w, v)
    BY <2>1, <2>2, <2>3, PortServed
  <2>5. Fits(a, q[i + 1], k) /\ Stands(a, After(q[i + 1], k), s, n, j1, w, v)
    BY <2>2, <2>4
  <2>6. After(q[i + 1], k) \in Ledgers /\ i + 1 \in 0 .. N
    BY <1>1, <2>1, <2>5, StandsIs
  <2>7. <<i + 1, After(q[i + 1], k)>> \in P
    BY <2>5, <2>6 DEF j1, P
  <2> QED
    BY <2>5, <2>7
<1> HIDE DEF P
<1>5. PICK m \in Ledgers : Leads(a, q, l, m) /\ <<N, m>> \in P
  BY <1>2, <1>3, <1>4, RowLeads
<1>6. Stands(a, m, s, n, a.ports, w, v)
  BY <1>1, <1>5 DEF P
<1> QED
  BY <1>5, <1>6, LevelIs

LEMMA InboundFanoutLeads ==
  ASSUME NEW a \in Settings, a.execute, NEW l, Level(a, l, 1 + a.ports, 0, 0)
  PROVE  \E m : /\ Leads(a, InboundFanout(a), l, m)
                /\ Level(a, m, 2 + a.ports, 1, 1)
<1> DEFINE body == Inbound(a)
           q == Each(Ports(a), LAMBDA e : Receive(First(e), "contact", <<body>>))
           S == {q[i] : i \in 1 .. a.ports}
<1>1. PICK n \in 0 .. 3 : n = 0
  OBVIOUS
<1>2. PICK s : s = 1 + a.ports
  OBVIOUS
<1>3. /\ body = 2 + a.ports /\ body = 2 + a.ports + n /\ s = 1 + a.ports + n /\ 1 = n + 1
      /\ a.ports \in Nat /\ a.ports - n = a.ports /\ n \in 0 .. a.ports
  <2>1. a.ports \in Nat /\ body = 2 + a.ports
    BY MarkersAre
  <2> QED
    BY <1>1, <1>2, <2>1
<1>4. InboundFanout(a) = FromPeer(body) \o q
  BY DEF InboundFanout
<1>5. /\ q \in Seq(S) /\ Len(q) = a.ports - n
      /\ \A i \in 1 .. a.ports : q[i] = Receive(First(Port[i]), "contact", <<body>>)
  <2>1. q = [i \in 1 .. a.ports |-> Receive(First(Ports(a)[i]), "contact", <<body>>)]
    BY PortsAre DEF Each
  <2>2. q \in [1 .. a.ports -> S]
    BY <2>1
  <2>3. \A i \in 1 .. a.ports : q[i] = Receive(First(Ports(a)[i]), "contact", <<body>>)
    BY <2>1
  <2> HIDE DEF q, S, body
  <2>4. q \in Seq(S) /\ Len(q) = a.ports
    BY <1>3, <2>2, SequencesAre
  <2> QED
    BY <1>3, <2>3, <2>4, PortsAre
<1> HIDE DEF body, q, S
<1>6. PICK m : Leads(a, FromPeer(body), l, m) /\ Level(a, m, body, 1, 0)
  <2>1. Level(a, l, s, n, 0)
    BY <1>1, <1>2
  <2> QED
    BY <1>3, <2>1, PeerLeads
<1>7. Stands(a, m, body, 1, n, 1, n)
  BY <1>1, <1>6, LevelIs
<1>8. PortRow(q, n, body)
  <2> SUFFICES ASSUME NEW i \in 1 .. Len(q)
               PROVE  \E c : /\ Endpoint(c) = Port[n + i]
                             /\ q[i] = Receive(c, "contact", <<body>>)
    BY DEF PortRow
  <2>1. i \in 1 .. a.ports /\ n + i = i
    BY <1>1, <1>3, <1>5
  <2>2. Endpoint(First(Port[i])) = Port[i]
    BY PeerIs DEF First
  <2> QED
    BY <1>5, <2>1, <2>2
<1>9. PICK k : Leads(a, q, m, k) /\ Level(a, k, body, 1, 1)
  <2>1. PICK w : w = 1
    OBVIOUS
  <2>2. /\ body = 2 + a.ports + n /\ w = n + 1 /\ n \in 0 .. a.ports
        /\ Stands(a, m, body, w, n, w, n)
        /\ q \in Seq(S) /\ Len(q) = a.ports - n /\ PortRow(q, n, body)
    BY <1>1, <1>3, <1>5, <1>7, <1>8, <2>1
  <2>3. \E k : Leads(a, q, m, k) /\ Level(a, k, body, w, w)
    BY <2>2, PortsReceive
  <2> QED
    BY <2>1, <2>3
<1> QED
  BY <1>3, <1>4, <1>6, <1>9, LeadsOn

\* What a new client of a port is given of what was kept for it.
Refill(a, e) ==
  <<Open(Client(e, 2)), Receive(Client(e, 2), "contact", Retained(a))>>

LEMMA RefillLeads ==
  ASSUME NEW a \in Settings, NEW l, NEW s, NEW n,
         NEW j \in Nat, NEW j1 \in 1 .. a.ports, j1 = j + 1,
         Stands(a, l, s, n, j, 3, 1)
  PROVE  \E m : Leads(a, Refill(a, Port[j1]), l, m) /\ Stands(a, m, s, n, j1, 3, 1)
<1> DEFINE e == Port[j1]
           c == Client(e, 2)
           r == Receive(c, "contact", Retained(a))
           m == After(r, l)
<1>1. l \in Ledgers /\ e \in Served(a) /\ Endpoint(c) = e /\ c[2] # 1
  BY PeerIs, PortsAre, StandsIs
<1>2. PICK bodies : bodies = Retained(a) /\ bodies \in Seq(Nat)
  BY MarkersAre
<1>3. Len(bodies) = 2 /\ bodies[1] = 3 + a.ports /\ bodies[2] = 4 + a.ports
  BY <1>2, MarkersAre
<1>4. PICK k : k = Len(bodies)
  OBVIOUS
<1>5. PICK v \in Nat : v = 1
  OBVIOUS
<1>6. NextBodies(a, v, "contact", bodies)
  <2> SUFFICES ASSUME NEW i \in 1 .. Len(bodies)
               PROVE  /\ v + i \in 1 .. 5 /\ (v + i = 5 => a.channel)
                      /\ bodies[i] = 1 + a.ports + v + i
                      /\ "contact" = IF v + i = 5 THEN "channel" ELSE "contact"
    BY DEF NextBodies
  <2>1. a.ports \in Nat
    BY MarkersAre
  <2>2. i = 1 \/ i = 2
    BY <1>3
  <2>3. CASE i = 1
    BY <1>3, <1>5, <2>1, <2>3
  <2>4. CASE i = 2
    BY <1>3, <1>5, <2>1, <2>4
  <2> QED
    BY <2>2, <2>3, <2>4
<1>7. l.given[e] = v
  <2>1. ~ (j1 <= j)
    OBVIOUS
  <2>2. l.given[Port[j1]] = IF j1 <= j THEN 3 ELSE 1
    BY StandsIs
  <2> QED
    BY <1>5, <2>1, <2>2
<1>8. m = After(r, l) /\ Refill(a, e) = <<Open(c), r>>
  BY DEF Refill
<1> HIDE DEF c, e
<1>9. /\ Fits(a, Receive(c, "contact", bodies), l)
      /\ Gains(l, After(Receive(c, "contact", bodies), l), e, v + k)
  BY <1>1, <1>2, <1>4, <1>5, <1>6, <1>7, ReceiveLeads
<1>10. Fits(a, Open(c), l) /\ After(Open(c), l) = l
  BY <1>1, QuietSteps
<1>11. Fits(a, r, l) /\ Gains(l, m, e, 3)
  <2>1. v + k = 3
    BY <1>3, <1>4, <1>5
  <2> QED
    BY <1>2, <1>9, <2>1
<1>12. Stands(a, m, s, n, j1, 3, 1)
  <2> HIDE DEF m
  <2>1. Gains(l, m, Port[j1], 3)
    BY <1>11 DEF e
  <2> QED
    BY <2>1, PortGains
<1> HIDE DEF r, m
<1>13. Leads(a, <<Open(c), r>>, l, m)
  BY <1>1, <1>8, <1>10, <1>11, LeadsTuple2
<1> QED
  BY <1>8, <1>12, <1>13 DEF e

LEMMA BackfillLeads ==
  ASSUME NEW a \in Settings, a.execute, NEW l, Level(a, l, 2 + a.ports, 1, 1)
  PROVE  \E m : Leads(a, Backfill(a), l, m) /\ Level(a, m, 4 + a.ports, 3, 3)
<1> DEFINE closes == Each(Ports(a), LAMBDA e : Close(First(e)))
           q == Each(Ports(a), LAMBDA e :
                  <<Open(Client(e, 2)), Receive(Client(e, 2), "contact", Retained(a))>>)
           b1 == Retained(a)[1]
           b2 == Retained(a)[2]
           N == a.ports
           P == {p \in (0 .. N) \X Ledgers : Stands(a, p[2], b2, 3, p[1], 3, 1)}
<1>1. Backfill(a) = ((closes \o FromPeer(b1)) \o FromPeer(b2)) \o FlattenSeq(q)
  BY DEF Backfill
<1>2. /\ N \in Nat \ {0} /\ N \in Nat /\ N = a.ports
      /\ b1 = 3 + a.ports /\ b2 = 4 + a.ports
  BY PortsAre, MarkersAre
<1>3. l \in Ledgers
  BY StandsIs DEF Level
<1>4. Leads(a, closes, l, l)
  <2>1. closes = [i \in 1 .. N |-> Close(First(Ports(a)[i]))]
    BY PortsAre DEF Each
  <2>2. closes \in [1 .. N -> {closes[i] : i \in 1 .. N}]
    BY <2>1
  <2>3. closes \in Seq({closes[i] : i \in 1 .. N}) /\ Len(closes) = N
    <3> HIDE DEF closes, N
    <3> QED
      BY <1>2, <2>2, SequencesAre
  <2>4. \A i \in 1 .. Len(closes) : Fits(a, closes[i], l) /\ After(closes[i], l) = l
    <3>1. TAKE i \in 1 .. Len(closes)
    <3>2. PICK c : closes[i] = Close(c)
      BY <2>1, <2>3
    <3> HIDE DEF closes
    <3>3. Fits(a, Close(c), l) /\ After(Close(c), l) = l
      BY <1>3, QuietSteps
    <3> QED
      BY <3>2, <3>3
  <2> HIDE DEF closes
  <2> QED
    BY <1>3, <2>3, <2>4, LeadsStill
<1>5. PICK m1 : Leads(a, FromPeer(b1), l, m1) /\ Level(a, m1, b1, 2, 1)
  <2> HIDE DEF b1, b2
  <2>1. PICK s : s = 2 + a.ports
    OBVIOUS
  <2>2. PICK n \in 0 .. 3 : n = 1
    OBVIOUS
  <2>3. b1 = 2 + a.ports + n /\ s = 1 + a.ports + n /\ 2 = n + 1
    BY <1>2, <2>1, <2>2
  <2>4. Level(a, l, s, n, 1)
    BY <2>1, <2>2
  <2> QED
    BY <2>3, <2>4, PeerLeads
<1>6. PICK m2 : Leads(a, FromPeer(b2), m1, m2) /\ Level(a, m2, b2, 3, 1)
  <2> HIDE DEF b1, b2
  <2>1. PICK n \in 0 .. 3 : n = 2
    OBVIOUS
  <2>2. b2 = 2 + a.ports + n /\ b1 = 1 + a.ports + n /\ 3 = n + 1
    BY <1>2, <2>1
  <2>3. Level(a, m1, b1, n, 1)
    BY <1>5, <2>1
  <2> QED
    BY <2>2, <2>3, PeerLeads
<1>7. Len(q) = N /\ \A i \in 1 .. N : q[i] = Refill(a, Port[i])
  <2>1. q = [i \in 1 .. N |-> Refill(a, Ports(a)[i])]
    BY PortsAre DEF Each, Refill
  <2>2. q \in [1 .. N -> {q[i] : i \in 1 .. N}]
    BY <2>1
  <2>3. \A i \in 1 .. N : q[i] = Refill(a, Ports(a)[i])
    BY <2>1
  <2> HIDE DEF q
  <2>4. Len(q) = N
    <3> HIDE DEF N
    <3> QED
      BY <1>2, <2>2, SequencesAre
  <2> QED
    BY <2>3, <2>4, PortsAre
<1> HIDE DEF q, closes, b1, b2
<1>8. <<0, m2>> \in P
  <2>1. Stands(a, m2, b2, 3, 0, 3, 1)
    BY <1>6, LevelIs
  <2> QED
    BY <1>2, <2>1, StandsIs
<1>9. ASSUME NEW i \in 0 .. N - 1, NEW k, <<i, k>> \in P
      PROVE  \E m : Leads(a, q[i + 1], k, m) /\ <<i + 1, m>> \in P
  <2>1. i + 1 \in 1 .. a.ports /\ i \in Nat /\ Stands(a, k, b2, 3, i, 3, 1)
    BY <1>2, <1>9
  <2>2. PICK j : j = i + 1
    OBVIOUS
  <2>3. PICK m : Leads(a, Refill(a, Port[j]), k, m) /\ Stands(a, m, b2, 3, j, 3, 1)
    BY <2>1, <2>2, RefillLeads
  <2>4. m \in Ledgers /\ q[j] = Refill(a, Port[j]) /\ j \in 0 .. N
    BY <1>2, <1>7, <2>1, <2>2, <2>3, StandsIs
  <2>5. <<j, m>> \in P
    BY <2>3, <2>4
  <2> HIDE DEF P
  <2> QED
    BY <2>2, <2>3, <2>4, <2>5
<1> HIDE DEF P, N
<1>10. PICK m3 : Leads(a, FlattenSeq(q), m2, m3) /\ <<N, m3>> \in P
  BY <1>2, <1>7, <1>8, <1>9, RowsLead
<1>11. Level(a, m3, b2, 3, 3)
  <2>1. Stands(a, m3, b2, 3, N, 3, 1)
    BY <1>10 DEF P
  <2> QED
    BY <1>2, <2>1, LevelIs
<1>12. Leads(a, closes \o FromPeer(b1), l, m1)
  BY <1>4, <1>5, LeadsOn
<1>13. Leads(a, (closes \o FromPeer(b1)) \o FromPeer(b2), l, m2)
  BY <1>6, <1>12, LeadsOn
<1>14. Leads(a, Backfill(a), l, m3)
  BY <1>1, <1>10, <1>13, LeadsOn
<1> QED
  BY <1>2, <1>11, <1>14

LEMMA TakeoverLeads ==
  ASSUME NEW a \in Settings, a.execute, NEW l, Level(a, l, 4 + a.ports, 3, 3)
  PROVE  \E m : Leads(a, Takeover(a), l, m) /\ Level(a, m, 5 + a.ports, 4, 4)
<1> DEFINE body == TakeoverMarker(a)
           c2 == Client(Port[1], 2)
           c3 == Client(Port[1], 3)
           c4 == Client(Port[1], 4)
           r == Receive(c4, "contact", <<body>>)
           taken == <<Open(c3), Open(c4), Replaced(c3), r>>
           tail == Each(Tail(Ports(a)), LAMBDA e : Receive(Client(e, 2), "contact", <<body>>))
<1>1. Takeover(a) = ((<<Close(c2)>> \o FromPeer(body)) \o taken) \o tail
  BY DEF Takeover
<1>2. PICK v \in 0 .. 3 : v = 3
  OBVIOUS
<1>3. PICK s : s = 4 + a.ports
  OBVIOUS
<1>4. /\ a.ports \in Nat \ {0} /\ body = 5 + a.ports /\ body = 2 + a.ports + v
      /\ s = 1 + a.ports + v /\ 4 = v + 1
  <2>1. a.ports \in Nat \ {0} /\ body = 5 + a.ports
    BY PortsAre, MarkersAre
  <2> QED
    BY <1>2, <1>3, <2>1
<1>5. l \in Ledgers
  BY StandsIs DEF Level
<1>6. Leads(a, <<Close(c2)>>, l, l)
  <2> HIDE DEF c2
  <2>1. Fits(a, Close(c2), l) /\ After(Close(c2), l) = l
    BY <1>5, QuietSteps
  <2> QED
    BY <1>5, <2>1, LeadsTuple1
<1>7. PICK m1 : Leads(a, FromPeer(body), l, m1) /\ Level(a, m1, body, 4, v)
  <2> HIDE DEF body
  <2>1. Level(a, l, s, v, v)
    BY <1>2, <1>3
  <2> QED
    BY <1>4, <2>1, PeerLeads
<1> DEFINE m2 == After(r, m1)
<1>8. PICK j \in Nat : j = 0
  OBVIOUS
<1>9. PICK j1 \in 1 .. a.ports : j1 = 1 /\ j1 = j + 1
  BY <1>4, <1>8
<1>10. PICK w : w = v + 1 /\ w = 4
  BY <1>4
<1>11. Stands(a, m1, body, w, j, w, v)
  BY <1>7, <1>8, <1>10, LevelIs
<1>12. Fits(a, r, m1) /\ Stands(a, m2, body, w, j1, w, v)
  <2>1. /\ Endpoint(c4) = Port[j1] /\ v \in 0 .. 4 /\ (v = 4 => a.channel)
        /\ "contact" = IF v = 4 THEN "channel" ELSE "contact"
    BY <1>2, <1>9, PeerIs
  <2> HIDE DEF body, c4
  <2> QED
    BY <1>4, <1>9, <1>10, <1>11, <2>1, PortServed
<1>13. Leads(a, taken, m1, m2)
  <2>1. m1 \in Ledgers /\ c3[2] # 1 /\ c4[2] # 1
    BY <1>11, PeerIs, StandsIs
  <2> HIDE DEF c3, c4, r
  <2>2. /\ Fits(a, Open(c3), m1) /\ m1 = After(Open(c3), m1)
        /\ Fits(a, Open(c4), m1) /\ m1 = After(Open(c4), m1)
        /\ Fits(a, Replaced(c3), m1) /\ m1 = After(Replaced(c3), m1)
    BY <2>1, QuietSteps
  <2>3. m2 = After(r, m1)
    OBVIOUS
  <2> HIDE DEF m2
  <2> QED
    BY <1>12, <2>1, <2>2, <2>3, LeadsTuple4
<1> DEFINE S == {tail[i] : i \in 1 .. a.ports - 1}
<1>14. /\ tail \in Seq(S) /\ Len(tail) = a.ports - 1
       /\ \A i \in 1 .. a.ports - 1 :
            tail[i] = Receive(Client(Port[i + 1], 2), "contact", <<body>>)
  <2>1. /\ Len(Tail(Ports(a))) = a.ports - 1 /\ Tail(Ports(a)) \in Seq(Endpoints)
        /\ \A i \in 1 .. a.ports - 1 : Tail(Ports(a))[i] = Ports(a)[i + 1]
    <3>1. Ports(a) \in Seq(Endpoints) /\ Ports(a) # <<>> /\ Len(Ports(a)) = a.ports
      BY <1>4, PortsAre
    <3> QED
      BY <3>1, HeadTailProperties
  <2>2. tail = [i \in 1 .. a.ports - 1 |-> Receive(Client(Tail(Ports(a))[i], 2), "contact", <<body>>)]
    BY <2>1 DEF Each
  <2>3. tail \in [1 .. a.ports - 1 -> S]
    BY <2>2
  <2>4. ASSUME NEW i \in 1 .. a.ports - 1
        PROVE  tail[i] = Receive(Client(Port[i + 1], 2), "contact", <<body>>)
    <3>1. tail[i] = Receive(Client(Tail(Ports(a))[i], 2), "contact", <<body>>)
      BY <2>2
    <3>2. i + 1 \in 1 .. a.ports
      BY <1>4
    <3>3. Tail(Ports(a))[i] = Port[i + 1]
      BY <2>1, <3>2, PortsAre
    <3> HIDE DEF tail
    <3> QED
      BY <3>1, <3>3
  <2>5. a.ports - 1 \in Nat
    BY <1>4
  <2> HIDE DEF tail, S, body
  <2>6. tail \in Seq(S) /\ Len(tail) = a.ports - 1
    BY ONLY <2>3, <2>5, SequencesAre
  <2> QED
    BY ONLY <2>4, <2>6
<1> HIDE DEF c2, c3, c4, r, taken, tail, m2, body, S
<1>15. PortRow(tail, j1, body)
  <2> SUFFICES ASSUME NEW i \in 1 .. Len(tail)
               PROVE  \E c : /\ Endpoint(c) = Port[j1 + i]
                             /\ tail[i] = Receive(c, "contact", <<body>>)
    BY DEF PortRow
  <2>1. i \in 1 .. a.ports - 1 /\ i + 1 = j1 + i
    BY <1>9, <1>14
  <2>2. Endpoint(Client(Port[i + 1], 2)) = Port[i + 1]
    BY PeerIs
  <2> QED
    BY <1>14, <2>1, <2>2
<1>16. PICK m3 : Leads(a, tail, m2, m3) /\ Level(a, m3, body, w, w)
  <2>1. j1 \in 0 .. a.ports /\ Len(tail) = a.ports - j1
    BY <1>9, <1>14
  <2> QED
    BY <1>4, <1>10, <1>12, <1>14, <1>15, <2>1, PortsReceive
<1>17. Leads(a, <<Close(c2)>> \o FromPeer(body), l, m1)
  BY <1>6, <1>7, LeadsOn
<1>18. Leads(a, (<<Close(c2)>> \o FromPeer(body)) \o taken, l, m2)
  BY <1>13, <1>17, LeadsOn
<1>19. Leads(a, Takeover(a), l, m3)
  BY <1>1, <1>16, <1>18, LeadsOn
<1> QED
  BY <1>4, <1>10, <1>16, <1>19

LEMMA ChannelFanoutLeads ==
  ASSUME NEW a \in Settings, a.execute, a.channel, NEW l, Level(a, l, 5 + a.ports, 4, 4)
  PROVE  \E m : Leads(a, ChannelFanout(a), l, m) /\ Level(a, m, 6 + a.ports, 5, 5)
<1> DEFINE body == ChannelMarker(a)
           send == Send(Peer, "channel", body)
           R(e) == Receive(LastClient(e), "channel", <<body>>)
           q == Each(Listeners(a), LAMBDA e : Receive(LastClient(e), "channel", <<body>>))
           l1 == Sent(l, body)
           N == 1 + a.ports
           S == {q[i] : i \in 1 .. N}
<1>1. ChannelFanout(a) = <<send>> \o q
  BY DEF ChannelFanout
<1>2. /\ a.ports \in Nat /\ N \in Nat /\ N = 1 + a.ports /\ body = 6 + a.ports
      /\ Inbound(a) = 2 + a.ports
  BY PortsAre, MarkersAre
<1>3. /\ l \in Ledgers /\ Ready(a, l) /\ "channel" \in l.known
      /\ l.sent = 1 .. 5 + a.ports /\ body \in Nat \ l.sent
  BY <1>2 DEF Level, Stands, Ready
<1>4. Fits(a, send, l) /\ After(send, l) = l1
  <2> HIDE DEF body
  <2>1. (IF "channel" = "contact" THEN Radio(Peer) ELSE "channel") \in l.known
    BY <1>3
  <2>2. l \in Ledgers /\ body \in Nat \ l.sent
    BY <1>3
  <2> QED
    BY <2>1, <2>2, SendStep
<1>5. /\ l1 \in Ledgers /\ l1.known = l.known /\ l1.attached = l.attached
      /\ l1.sent = l.sent \cup {body} /\ l1.shown = l.shown /\ l1.given = l.given
  <2> HIDE DEF body
  <2> QED
    BY <1>3, LedgerSent
<1>6. Leads(a, <<send>>, l, l1)
  <2> HIDE DEF send, l1
  <2> QED
    BY <1>3, <1>4, LeadsTuple1
<1>7. PICK v \in 0 .. 4 : v = 4
  OBVIOUS
<1>8. PICK w : w = 5
  OBVIOUS
<1>9. /\ body = 2 + a.ports + v /\ w = v + 1 /\ (v = 4 => a.channel)
      /\ "channel" = IF v = 4 THEN "channel" ELSE "contact"
  BY <1>2, <1>7, <1>8
<1>10. Level(a, l1, body, v, v)
  <2> HIDE DEF l1
  <2>1. Ready(a, l1)
    BY <1>3, <1>5, ReadyStays
  <2>2. l1.sent = 1 .. body
    BY <1>2, <1>3, <1>5
  <2>3. ASSUME NEW b \in Inbound(a) .. body, b # ChannelMarker(a)
        PROVE  <<b, Peer>> \in l1.shown
    <3>1. b \in Inbound(a) .. 5 + a.ports
      BY <1>2, <2>3
    <3> QED
      BY <1>5, <2>3, <3>1 DEF Level, Stands
  <2>4. Level(a, l1, body, 4, 4)
    <3> HIDE DEF body
    <3> QED
      BY <1>5, <2>1, <2>2, <2>3 DEF Level, Stands
  <2> QED
    BY <1>7, <2>4
<1>11. /\ q \in Seq(S) /\ Len(q) = N
       /\ q[1] = R("multi") /\ \A i \in 1 .. a.ports : q[1 + i] = R(Port[i])
  <2>1. q = [i \in 1 .. N |-> R(Listeners(a)[i])]
    BY ListenersAre DEF Each
  <2>2. q \in [1 .. N -> S]
    BY <2>1
  <2>3. \A i \in 1 .. N : q[i] = R(Listeners(a)[i])
    BY <2>1
  <2> HIDE DEF q, S, R
  <2>4. q \in Seq(S) /\ Len(q) = N
    <3> HIDE DEF N
    <3> QED
      BY <1>2, <2>2, SequencesAre
  <2>5. 1 \in 1 .. N /\ \A i \in 1 .. a.ports : 1 + i \in 1 .. N
    BY <1>2
  <2> QED
    BY <2>3, <2>4, <2>5, ListenersAre
<1> DEFINE P == {p \in (0 .. N) \X Ledgers :
                   IF p[1] = 0 THEN p[2] = l1
                   ELSE Stands(a, p[2], body, w, p[1] - 1, w, v)}
<1> HIDE DEF body, q, l1, S, send
<1>12. <<0, l1>> \in P
  BY <1>2, <1>5
<1>13. \A e : Endpoint(LastClient(e)) = e
  BY PeerIs DEF LastClient
<1>14. ASSUME NEW i \in 0 .. N - 1, NEW k \in Ledgers, <<i, k>> \in P
       PROVE  Fits(a, q[i + 1], k) /\ <<i + 1, After(q[i + 1], k)>> \in P
  <2>1. CASE i = 0
    <3>1. k = l1 /\ i + 1 = 1
      BY <1>14, <2>1
    <3>2. "multi" \in Served(a) /\ k.given["multi"] = v
      BY <1>10, <3>1, PortsAre DEF Level, Stands
    <3>3. /\ Fits(a, R("multi"), k)
          /\ Gains(k, After(R("multi"), k), "multi", v + 1)
      <4>1. PICK c : c = LastClient("multi") /\ Endpoint(c) = "multi"
        BY <1>13
      <4>2. /\ Fits(a, Receive(c, "channel", <<body>>), k)
            /\ Gains(k, After(Receive(c, "channel", <<body>>), k), "multi", v + 1)
        BY <1>9, <3>2, <4>1, ReceiveOneLeads
      <4> QED
        BY <4>1, <4>2
    <3> HIDE DEF R
    <3>4. Stands(a, k, body, v, 0, w, v)
      BY <1>10, <3>1, LevelIs
    <3>5. Stands(a, After(R("multi"), k), body, w, 0, w, v)
      BY <1>9, <3>3, <3>4, MultiGains
    <3>6. After(R("multi"), k) \in Ledgers
      BY <3>5, StandsIs
    <3>7. q[i + 1] = R("multi")
      BY <1>11, <3>1
    <3>8. 1 \in 0 .. N /\ 1 # 0 /\ 1 - 1 = 0
      BY <1>2
    <3>9. <<1, After(R("multi"), k)>> \in P
      BY <3>5, <3>6, <3>8
    <3> HIDE DEF P
    <3> QED
      BY <3>1, <3>3, <3>7, <3>9
  <2>2. CASE i # 0
    <3>1. PICK j \in Nat : j = i - 1
      BY <1>2, <2>2
    <3>2. /\ i \in 1 .. a.ports /\ i = j + 1 /\ i + 1 = 1 + i /\ i + 1 \in 0 .. N
          /\ i + 1 # 0 /\ (i + 1) - 1 = i
      BY <1>2, <2>2, <3>1
    <3>3. Stands(a, k, body, w, j, w, v)
      BY <1>14, <2>2, <3>1
    <3>4. PICK c : c = LastClient(Port[i]) /\ Endpoint(c) = Port[i]
      BY <1>13
    <3>5. q[i + 1] = Receive(c, "channel", <<body>>)
      BY <1>11, <3>2, <3>4
    <3>6. /\ Fits(a, Receive(c, "channel", <<body>>), k)
          /\ Stands(a, After(Receive(c, "channel", <<body>>), k), body, w, i, w, v)
      BY <1>9, <3>2, <3>3, <3>4, PortServed
    <3>7. After(q[i + 1], k) \in Ledgers /\ Stands(a, After(q[i + 1], k), body, w, i, w, v)
      BY <3>5, <3>6, StandsIs
    <3>8. <<i + 1, After(q[i + 1], k)>> \in P
      BY <3>2, <3>7
    <3> HIDE DEF P
    <3> QED
      BY <3>5, <3>6, <3>8
  <2> QED
    BY <2>1, <2>2
<1> HIDE DEF P, R, N
<1>15. PICK m \in Ledgers : Leads(a, q, l1, m) /\ <<N, m>> \in P
  <2>1. \A i \in 0 .. Len(q) - 1 : \A k \in Ledgers : <<i, k>> \in P =>
          Fits(a, q[i + 1], k) /\ <<i + 1, After(q[i + 1], k)>> \in P
    BY <1>11, <1>14
  <2>2. l1 \in Ledgers /\ q \in Seq(S) /\ Len(q) = N
    BY <1>5, <1>11
  <2> QED
    BY <1>12, <2>1, <2>2, RowLeads
<1>16. Level(a, m, body, w, w)
  <2>1. Stands(a, m, body, w, N - 1, w, v) /\ N - 1 = a.ports
    BY <1>2, <1>15 DEF P
  <2> QED
    BY <2>1, LevelIs
<1>17. Leads(a, ChannelFanout(a), l, m)
  BY <1>1, <1>6, <1>15, LeadsOn
<1> QED
  BY <1>2, <1>8, <1>16, <1>17

LEMMA ReconnectLeads ==
  ASSUME NEW a, NEW l \in Ledgers
  PROVE  Leads(a, MultiReconnect, l, l)
<1> DEFINE c == Client("multi", 2)
<1>1. c[2] # 1
  BY PeerIs
<1> HIDE DEF c
<1>2. /\ Fits(a, Close(Multi), l) /\ l = After(Close(Multi), l)
      /\ Fits(a, Open(c), l) /\ l = After(Open(c), l)
      /\ Fits(a, Query, l) /\ l = After(Query, l)
  BY <1>1, QuietSteps
<1>3. Leads(a, <<Close(Multi), Open(c), Query>>, l, l)
  BY <1>2, LeadsTuple3
<1> QED
  BY <1>3 DEF MultiReconnect, c

-----------------------------------------------------------------------------
(* The program of any settings is in order                                 *)

\* At the end of a run that executes, all the evidence is in the ledger.
Complete(a, l) ==
  /\ l \in Ledgers
  /\ \A e \in {"multi", "peer"} \cup Range(Ports(a)) :
       l.given[e] = Len(Expected(a, e))
  /\ (1 .. 1 + a.ports) \X Shared(a) \subseteq l.shown
  /\ ({Inbound(a), TakeoverMarker(a)} \cup Range(Retained(a))) \X {Peer} \subseteq l.shown
  /\ l.sent = 1 .. 5 + a.ports + (IF a.channel THEN 1 ELSE 0)

LEMMA StandsComplete ==
  ASSUME NEW a \in Settings, NEW l, NEW n, n = (IF a.channel THEN 5 ELSE 4),
         Level(a, l, 1 + a.ports + n, n, n)
  PROVE  Complete(a, l)
<1>1. /\ a.ports \in Nat
      /\ Inbound(a) = 2 + a.ports /\ TakeoverMarker(a) = 5 + a.ports
      /\ ChannelMarker(a) = 6 + a.ports
      /\ Retained(a)[1] = 3 + a.ports /\ Retained(a)[2] = 4 + a.ports
      /\ Retained(a) \in Seq(Nat) /\ Len(Retained(a)) = 2
  BY PortsAre, MarkersAre
<1>2. l \in Ledgers
  BY StandsIs DEF Level
<1>3. ASSUME NEW e \in {"multi", "peer"} \cup Range(Ports(a))
      PROVE  l.given[e] = Len(Expected(a, e))
  <2>1. CASE e = "peer"
    BY <2>1, ExpectedIs DEF Level, Stands
  <2>2. CASE e = "multi"
    <3>1. e \in Endpoints \ {"peer"} /\ l.given[e] = n
      BY <2>2, PortsAre DEF Level, Stands
    <3> QED
      BY <3>1, ExpectedIs
  <2>3. CASE e \in Range(Ports(a))
    <3>1. PICK i \in 1 .. a.ports : e = Ports(a)[i]
      BY <2>3, PortsAre DEF Range
    <3>2. e = Port[i] /\ e \in Endpoints \ {"peer"}
      BY <3>1, PortsAre
    <3>3. l.given[Port[i]] = n
      BY StandsIs DEF Level
    <3> QED
      BY <3>2, <3>3, ExpectedIs
  <2> HIDE DEF Range
  <2> QED
    BY <2>1, <2>2, <2>3
<1>4. (1 .. 1 + a.ports) \X Shared(a) \subseteq l.shown
  BY DEF Level, Stands
<1>5. \A b \in 2 + a.ports .. 5 + a.ports : <<b, Peer>> \in l.shown
  <2>1. TAKE b \in 2 + a.ports .. 5 + a.ports
  <2>2. b \in Inbound(a) .. 1 + a.ports + n /\ b # ChannelMarker(a)
    BY <1>1
  <2> QED
    BY <2>2 DEF Level, Stands
<1>6. ({Inbound(a), TakeoverMarker(a)} \cup Range(Retained(a))) \X {Peer} \subseteq l.shown
  <2>1. Range(Retained(a)) = {Retained(a)[i] : i \in 1 .. 2}
    BY <1>1 DEF Range
  <2>2. \A i \in 1 .. 2 : i = 1 \/ i = 2
    OBVIOUS
  <2>3. {Inbound(a), TakeoverMarker(a)} \cup Range(Retained(a)) \subseteq 2 + a.ports .. 5 + a.ports
    BY <1>1, <2>1, <2>2
  <2> HIDE DEF Range
  <2> QED
    BY <1>5, <2>3
<1>7. l.sent = 1 .. 5 + a.ports + (IF a.channel THEN 1 ELSE 0)
  BY <1>1 DEF Level, Stands
<1> QED
  BY <1>2, <1>3, <1>4, <1>6, <1>7 DEF Complete

LEMMA ProgramLeads ==
  ASSUME NEW a \in Settings
  PROVE  \E m : Leads(a, Program(a), NothingYet, m) /\ (a.execute => Complete(a, m))
<1>1. PICK m1 \in Ledgers :
        /\ Leads(a, Preflight(a), NothingYet, m1)
        /\ {"multi", "peer"} \subseteq m1.known
        /\ a.channel => "channel" \in m1.known
        /\ m1.given = NothingYet.given /\ m1.sent = {}
  BY PreflightLeads
<1>2. Leads(a, Preflight(a) \o SharedQueries, NothingYet, m1)
  BY <1>1, QueryLeads, LeadsOn
<1>3. CASE ~ a.execute
  <2>1. Leads(a, (Preflight(a) \o SharedQueries) \o <<>>, NothingYet, m1)
    BY <1>1, <1>2, LeadsNowhere, LeadsOn
  <2>2. Program(a) = (Preflight(a) \o SharedQueries) \o <<>>
    BY <1>3 DEF Program
  <2> QED
    BY <1>3, <2>1, <2>2
<1>4. CASE a.execute
  <2>1. \A e \in Endpoints : m1.given[e] = 0
    BY <1>1, NothingYetIs
  <2>2. PICK m2 : Leads(a, ListenerSends(a), m1, m2) /\ Level(a, m2, 1 + a.ports, 0, 0)
    BY <1>1, <1>4, <2>1, ListenerSendsLeads
  <2>3. PICK m3 : /\ Leads(a, InboundFanout(a), m2, m3)
                  /\ Level(a, m3, 2 + a.ports, 1, 1)
    BY <1>4, <2>2, InboundFanoutLeads
  <2>4. PICK m4 : /\ Leads(a, Backfill(a), m3, m4)
                  /\ Level(a, m4, 4 + a.ports, 3, 3)
    BY <1>4, <2>3, BackfillLeads
  <2>5. PICK m5 : /\ Leads(a, Takeover(a), m4, m5)
                  /\ Level(a, m5, 5 + a.ports, 4, 4)
    BY <1>4, <2>4, TakeoverLeads
  <2>6. PICK m6 : Leads(a, ChannelFanout(a), m5, m6) /\ Complete(a, m6)
    <3>1. a.ports \in Nat
      BY PortsAre
    <3>2. CASE a.channel
      <4>1. PICK m6 : /\ Leads(a, ChannelFanout(a), m5, m6)
                      /\ Level(a, m6, 6 + a.ports, 5, 5)
        BY <1>4, <2>5, <3>2, ChannelFanoutLeads
      <4>2. PICK n : n = 5
        OBVIOUS
      <4>3. Level(a, m6, 1 + a.ports + n, n, n)
        <5>1. 1 + a.ports + n = 6 + a.ports
          BY <3>1, <4>2
        <5> QED
          BY <4>1, <4>2, <5>1
      <4>4. Complete(a, m6)
        BY <3>2, <4>2, <4>3, StandsComplete
      <4> QED
        BY <4>1, <4>4
    <3>3. CASE ~ a.channel
      <4>1. ChannelFanout(a) = <<>>
        BY <3>3 DEF ChannelFanout
      <4>2. m5 \in Ledgers
        BY <2>5, StandsIs DEF Level
      <4>3. Leads(a, ChannelFanout(a), m5, m5)
        BY <4>1, <4>2, LeadsNowhere
      <4>4. PICK n : n = 4
        OBVIOUS
      <4>5. Level(a, m5, 1 + a.ports + n, n, n)
        <5>1. 1 + a.ports + n = 5 + a.ports
          BY <3>1, <4>4
        <5> QED
          BY <2>5, <4>4, <5>1
      <4>6. Complete(a, m5)
        BY <3>3, <4>4, <4>5, StandsComplete
      <4> QED
        BY <4>3, <4>6
    <3> QED
      BY <3>2, <3>3
  <2>7. Leads(a, MultiReconnect, m6, m6)
    BY <2>6, ReconnectLeads DEF Complete
  <2> DEFINE p1 == ListenerSends(a)
             p2 == InboundFanout(a)
             p3 == Backfill(a)
             p4 == Takeover(a)
             p5 == ChannelFanout(a)
             p6 == MultiReconnect
             p0 == Preflight(a) \o SharedQueries
  <2>8. Program(a) = p0 \o (((((p1 \o p2) \o p3) \o p4) \o p5) \o p6)
    BY <1>4 DEF Program
  <2> HIDE DEF p0, p1, p2, p3, p4, p5, p6
  <2>9. /\ Leads(a, p0, NothingYet, m1) /\ Leads(a, p1, m1, m2) /\ Leads(a, p2, m2, m3)
        /\ Leads(a, p3, m3, m4) /\ Leads(a, p4, m4, m5) /\ Leads(a, p5, m5, m6)
        /\ Leads(a, p6, m6, m6)
    BY <1>2, <2>2, <2>3, <2>4, <2>5, <2>6, <2>7 DEF p0, p1, p2, p3, p4, p5, p6
  <2>10. Leads(a, p1 \o p2, m1, m3)
    BY <2>9, LeadsOn
  <2>11. Leads(a, (p1 \o p2) \o p3, m1, m4)
    BY <2>9, <2>10, LeadsOn
  <2>12. Leads(a, ((p1 \o p2) \o p3) \o p4, m1, m5)
    BY <2>9, <2>11, LeadsOn
  <2>13. Leads(a, (((p1 \o p2) \o p3) \o p4) \o p5, m1, m6)
    BY <2>9, <2>12, LeadsOn
  <2>14. Leads(a, ((((p1 \o p2) \o p3) \o p4) \o p5) \o p6, m1, m6)
    BY <2>9, <2>13, LeadsOn
  <2>15. Leads(a, Program(a), NothingYet, m6)
    BY <2>8, <2>9, <2>14, LeadsOn
  <2> QED
    BY <2>6, <2>15
<1> QED
  BY <1>3, <1>4

-----------------------------------------------------------------------------
(* The ledgers of a run                                                    *)

Labelling(a, L) ==
  /\ L \in [1 .. Len(Program(a)) + 1 -> Ledgers]
  /\ L[1] = NothingYet
  /\ \A i \in 1 .. Len(Program(a)) :
       Fits(a, Program(a)[i], L[i]) /\ L[i + 1] = After(Program(a)[i], L[i])
  /\ a.execute => Complete(a, L[Len(Program(a)) + 1])

Labels(a) == CHOOSE L : Labelling(a, L)

LEMMA LabelsExist ==
  ASSUME NEW a \in Settings
  PROVE  Labelling(a, Labels(a)) /\ Len(Program(a)) \in Nat
<1>1. PICK m : Leads(a, Program(a), NothingYet, m) /\ (a.execute => Complete(a, m))
  BY ProgramLeads
<1> DEFINE p == Program(a)
<1>2. PICK S : p \in Seq(S)
  BY <1>1 DEF Leads
<1>3. PICK L \in [1 .. Len(p) + 1 -> Ledgers] :
       /\ L[1] = NothingYet /\ L[Len(p) + 1] = m
       /\ \A i \in 1 .. Len(p) : Fits(a, p[i], L[i]) /\ L[i + 1] = After(p[i], L[i])
  BY <1>1 DEF Leads
<1>4. Labelling(a, L)
  BY <1>1, <1>3 DEF Labelling
<1>5. Len(p) \in Nat
  BY <1>2
<1> HIDE DEF p
<1> QED
  BY <1>4, <1>5 DEF Labels, p

\* What is established when the next step begins.
Now == Labels(args)[at]

\* The part of the program that is left, and the verdict.
Course ==
  /\ args \in Settings
  /\ at \in 1 .. Len(Program(args)) + 1
  /\ verdict \in {"none", "ok", "failed"}
  /\ verdict = "none" <=> pc = "run"
  /\ verdict = "ok" => at = Len(Program(args)) + 1

InRange == at \in 1 .. Len(Program(args))

LEMMA StepFits ==
  ASSUME SettingsAssumption, Course
  PROVE  /\ args \in Settings /\ args \in Arguments /\ Programs[args] = Program(args)
         /\ Len(Program(args)) \in Nat /\ at \in Nat
         /\ Now \in Ledgers
         /\ InProgram <=> pc = "run" /\ InRange
         /\ InRange => /\ Fits(args, Step, Now)
                       /\ Labels(args)[at + 1] = After(Step, Now)
                       /\ After(Step, Now) \in Ledgers
<1>1. args \in Settings /\ args \in Arguments
  BY SettingsAssumption DEF Course
<1>2. Programs[args] = Program(args)
  BY DEF Course, Programs
<1>3. Labelling(args, Labels(args)) /\ Len(Program(args)) \in Nat
  BY <1>1, LabelsExist
<1>4. at \in Nat /\ at \in 1 .. Len(Program(args)) + 1
  BY <1>3 DEF Course
<1>5. Now \in Ledgers
  BY <1>3, <1>4 DEF Now, Labelling
<1>6. InProgram <=> pc = "run" /\ InRange
  BY <1>2, <1>3, <1>4 DEF InProgram, InRange
<1>7. Step = Program(args)[at]
  BY <1>2 DEF Step
<1>8. InRange => /\ Fits(args, Step, Now)
                 /\ Labels(args)[at + 1] = After(Step, Now)
  BY <1>3, <1>7 DEF Labelling, InRange, Now
<1>9. InRange => After(Step, Now) \in Ledgers
  BY <1>5, <1>8, AfterType
<1> QED
  BY <1>1, <1>2, <1>3, <1>4, <1>5, <1>6, <1>8, <1>9

\* What a step does to the course of the run.
Goes == pc = "run" /\ InRange /\ at' = at + 1 /\ verdict' = verdict /\ pc' = pc
Stops == pc = "run" /\ at' = at /\ verdict' = "failed" /\ pc' = "finally"
Ends == /\ pc = "run" /\ at = Len(Program(args)) + 1 /\ at' = at
        /\ verdict' = "ok" /\ pc' = "finally"
Leaves == pc = "finally" /\ pc' = "end" /\ at' = at /\ verdict' = verdict
Waits == at' = at /\ verdict' = verdict /\ pc' = pc

Moves == args' = args /\ (Goes \/ Stops \/ Ends \/ Leaves \/ Waits)

\* The step that a step of the run carries out.
Doing(do) == pc = "run" /\ InRange /\ Step.do = do

LEMMA DoingIs ==
  ASSUME SettingsAssumption, Course, NEW do
  PROVE  AtStep(do) <=> Doing(do)
BY StepFits DEF AtStep, Doing

LEMMA AdvanceMoves ==
  ASSUME SettingsAssumption, Course, InProgram
  PROVE  /\ Advance => Moves /\ Goes
         /\ Raise => Moves /\ Stops
         /\ UNCHANGED <<at, pc, resultVars>> => Moves /\ Waits
<1>1. pc = "run" /\ InRange
  BY StepFits
<1> QED
  BY <1>1 DEF Advance, Raise, Moves, Goes, Stops, Waits, resultVars

LEMMA CourseStep ==
  ASSUME SettingsAssumption, Course, Moves
  PROVE  Course'
<1>1. Len(Program(args)) \in Nat
  BY StepFits
<1>2. Program(args)' = Program(args)
  BY DEF Moves
<1>3. args' \in Settings
  BY DEF Moves, Course
<1>4. CASE Goes
  BY <1>1, <1>2, <1>3, <1>4 DEF Course, Goes, InRange
<1>5. CASE Stops
  BY <1>1, <1>2, <1>3, <1>5 DEF Course, Stops
<1>6. CASE Ends
  BY <1>1, <1>2, <1>3, <1>6 DEF Course, Ends
<1>7. CASE Leaves
  BY <1>1, <1>2, <1>3, <1>7 DEF Course, Leaves
<1>8. CASE Waits
  BY <1>1, <1>2, <1>3, <1>8 DEF Course, Waits
<1> QED
  BY <1>4, <1>5, <1>6, <1>7, <1>8 DEF Moves

\* The next ledger: the same, or what the step adds to it.
LEMMA NowMoves ==
  ASSUME SettingsAssumption, Course, Moves
  PROVE  /\ verdict' # "failed" => verdict # "failed"
         /\ Goes => Now' = After(Step, Now)
         /\ ~ Goes => Now' = Now /\ at' = at
<1>1. Labels(args)' = Labels(args)
  BY DEF Moves
<1>2. Now' = Labels(args)[at']
  BY <1>1 DEF Now
<1>3. Goes => Now' = After(Step, Now)
  BY <1>2, StepFits DEF Goes
<1>4. ~ Goes => Now' = Now /\ at' = at
  BY <1>2 DEF Moves, Now, Stops, Ends, Leaves, Waits
<1>5. verdict' # "failed" => verdict # "failed"
  BY DEF Moves, Goes, Stops, Ends, Leaves, Waits, Course
<1> QED
  BY <1>3, <1>4, <1>5

\* Which steps add what.
LEMMA AfterAdds ==
  ASSUME NEW step, NEW l \in Ledgers
  PROVE  /\ step.do \notin {"contacts", "secrets"} => After(step, l).known = l.known
         /\ step.do # "attach" => After(step, l).attached = l.attached
         /\ step.do # "send" => After(step, l).sent = l.sent
         /\ step.do # "receive" => After(step, l).given = l.given
         /\ step.do # "ack" => After(step, l).shown = l.shown
<1>1. CASE step.do = "contacts" \/ step.do = "secrets"
  BY <1>1 DEF After, Known, Ledgers
<1>2. CASE step.do = "attach"
  BY <1>2 DEF After, Ledgers
<1>3. CASE step.do = "send"
  BY <1>3 DEF After, Sent, Ledgers
<1>4. CASE step.do = "receive"
  <2>1. After(step, l) = Given(l, Endpoint(step.who), Len(step.bodies))
    BY <1>4 DEF After
  <2> DEFINE given == [d \in Endpoints |-> IF d = Endpoint(step.who)
                         THEN l.given[d] + Len(step.bodies) ELSE l.given[d]]
  <2>2. After(step, l) = [l EXCEPT !.given = given]
    BY <2>1 DEF Given
  <2> HIDE DEF given
  <2> QED
    BY <1>4, <2>2 DEF Ledgers
<1>5. CASE step.do = "ack"
  BY <1>5 DEF After, Shown, Ledgers
<1>6. CASE step.do \notin {"contacts", "secrets", "attach", "send", "receive", "ack"}
  BY <1>6 DEF After
<1> QED
  BY <1>1, <1>2, <1>3, <1>4, <1>5, <1>6

\* What each action does to the course, and in which steps.
LEMMA QuietActions ==
  ASSUME SettingsAssumption, Course
  PROVE  /\ AwaitReplaced => Moves /\ Doing("replaced")
         /\ Identities => Moves /\ Doing("identities")
         /\ Queries => Moves /\ Doing("query")
         /\ Return => Moves /\ ~ Goes
         /\ Fail => Moves /\ ~ Goes
         /\ DisconnectAll => Moves /\ ~ Goes
         /\ Arrive => Moves /\ Waits /\ ~ Goes
         /\ Acknowledge => Moves /\ Waits /\ ~ Goes
         /\ UNCHANGED dedicatedVars => Moves /\ ~ Goes
<1>1. at \in Nat /\ Len(Program(args)) \in Nat
  BY StepFits
<1>2. AwaitReplaced => Moves /\ Doing("replaced")
  <2> SUFFICES ASSUME AwaitReplaced PROVE Moves /\ Doing("replaced")
    OBVIOUS
  <2>1. AtStep("replaced") /\ InProgram /\ Advance
    BY DEF AwaitReplaced, AtStep
  <2> QED
    BY <2>1, DoingIs, AdvanceMoves
<1>3. Identities => Moves /\ Doing("identities")
  <2> SUFFICES ASSUME Identities PROVE Moves /\ Doing("identities")
    OBVIOUS
  <2>1. AtStep("identities") /\ InProgram /\ (Advance \/ Raise)
    BY DEF Identities, AtStep, AdvanceIf
  <2> QED
    BY <2>1, DoingIs, AdvanceMoves
<1>4. Queries => Moves /\ Doing("query")
  <2> SUFFICES ASSUME Queries PROVE Moves /\ Doing("query")
    OBVIOUS
  <2>1. AtStep("query") /\ InProgram /\ Advance
    BY DEF Queries, AtStep
  <2> QED
    BY <2>1, DoingIs, AdvanceMoves
<1>5. Return => Moves /\ ~ Goes
  <2> SUFFICES ASSUME Return PROVE Moves /\ ~ Goes
    OBVIOUS
  <2>1. at = Len(Program(args)) + 1
    BY <1>1, StepFits DEF Return, Course
  <2> QED
    BY <1>1, <2>1 DEF Return, Moves, Ends, Goes
<1>6. Fail => Moves /\ ~ Goes
  <2> SUFFICES ASSUME Fail PROVE Moves /\ ~ Goes
    OBVIOUS
  <2>1. InProgram /\ Raise
    BY DEF Fail
  <2> QED
    BY <1>1, <2>1, AdvanceMoves DEF Stops, Goes
<1>7. DisconnectAll => Moves /\ ~ Goes
  BY DEF DisconnectAll, Moves, Leaves, Goes, resultVars
<1>8. Arrive => Moves /\ Waits /\ ~ Goes
  BY <1>1 DEF Arrive, Moves, Waits, Goes, resultVars
<1>9. Acknowledge => Moves /\ Waits /\ ~ Goes
  BY <1>1 DEF Acknowledge, Moves, Waits, Goes, resultVars
<1>10. UNCHANGED dedicatedVars => Moves /\ ~ Goes
  BY <1>1 DEF dedicatedVars, Moves, Waits, Goes, resultVars
<1> QED
  BY <1>2, <1>3, <1>4, <1>5, <1>6, <1>7, <1>8, <1>9, <1>10

LEMMA StepActions ==
  ASSUME SettingsAssumption, Course
  PROVE  /\ OpenClient => Moves /\ Doing("open")
         /\ CloseClient => Moves /\ Doing("close") /\ Goes
         /\ get_contacts => Moves /\ Doing("contacts")
         /\ resolve_channel => Moves /\ Doing("channel")
         /\ Secrets => Moves /\ Doing("secrets")
         /\ AttachCollector => Moves /\ Doing("attach") /\ Goes
         /\ SendMessage => Moves /\ Doing("send")
         /\ require_token => Moves /\ Doing("ack") /\ Goes
         /\ PushAny => Moves /\ Doing("ack") /\ Waits
<1>1. OpenClient => Moves /\ Doing("open")
  <2> SUFFICES ASSUME OpenClient PROVE Moves /\ Doing("open")
    OBVIOUS
  <2>1. AtStep("open") /\ InProgram /\ (Advance \/ Raise)
    BY DEF OpenClient, AtStep, AdvanceIf
  <2> QED
    BY <2>1, DoingIs, AdvanceMoves
<1>2. CloseClient => Moves /\ Doing("close") /\ Goes
  <2> SUFFICES ASSUME CloseClient PROVE Moves /\ Doing("close") /\ Goes
    OBVIOUS
  <2>1. AtStep("close") /\ InProgram /\ Advance
    BY DEF CloseClient, AtStep
  <2> QED
    BY <2>1, DoingIs, AdvanceMoves
<1>3. get_contacts => Moves /\ Doing("contacts")
  <2> SUFFICES ASSUME get_contacts PROVE Moves /\ Doing("contacts")
    OBVIOUS
  <2>1. AtStep("contacts") /\ InProgram /\ (Advance \/ Raise)
    BY DEF get_contacts, AtStep, AdvanceIf
  <2> QED
    BY <2>1, DoingIs, AdvanceMoves
<1>4. resolve_channel => Moves /\ Doing("channel")
  <2> SUFFICES ASSUME resolve_channel PROVE Moves /\ Doing("channel")
    OBVIOUS
  <2>1. AtStep("channel") /\ InProgram /\ (Advance \/ Raise)
    BY DEF resolve_channel, AtStep, AdvanceIf
  <2> QED
    BY <2>1, DoingIs, AdvanceMoves
<1>5. Secrets => Moves /\ Doing("secrets")
  <2> SUFFICES ASSUME Secrets PROVE Moves /\ Doing("secrets")
    OBVIOUS
  <2>1. AtStep("secrets") /\ InProgram /\ (Advance \/ Raise)
    BY DEF Secrets, AtStep, AdvanceIf
  <2> QED
    BY <2>1, DoingIs, AdvanceMoves
<1>6. AttachCollector => Moves /\ Doing("attach") /\ Goes
  <2> SUFFICES ASSUME AttachCollector PROVE Moves /\ Doing("attach") /\ Goes
    OBVIOUS
  <2>1. AtStep("attach") /\ InProgram /\ Advance
    BY DEF AttachCollector, AtStep
  <2> QED
    BY <2>1, DoingIs, AdvanceMoves
<1>7. SendMessage => Moves /\ Doing("send")
  <2> SUFFICES ASSUME SendMessage PROVE Moves /\ Doing("send")
    OBVIOUS
  <2>1. AtStep("send") /\ InProgram /\ (Advance \/ Raise)
    BY DEF SendMessage, AtStep
  <2> QED
    BY <2>1, DoingIs, AdvanceMoves
<1>8. require_token => Moves /\ Doing("ack") /\ Goes
  <2> SUFFICES ASSUME require_token PROVE Moves /\ Doing("ack") /\ Goes
    OBVIOUS
  <2>1. AtStep("ack") /\ InProgram /\ Advance
    BY DEF require_token, AtStep
  <2> QED
    BY <2>1, DoingIs, AdvanceMoves
<1>9. PushAny => Moves /\ Doing("ack") /\ Waits
  <2> SUFFICES ASSUME PushAny PROVE Moves /\ Doing("ack") /\ Waits
    OBVIOUS
  <2>1. AtStep("ack") /\ InProgram /\ UNCHANGED <<at, pc, resultVars>>
    BY DEF PushAny, AtStep
  <2> QED
    BY <2>1, DoingIs, AdvanceMoves
<1> QED
  BY <1>1, <1>2, <1>3, <1>4, <1>5, <1>6, <1>7, <1>8, <1>9

LEMMA ReceiveActions ==
  ASSUME SettingsAssumption, Course
  PROVE  /\ Received => Moves /\ Doing("receive") /\ (Waits \/ Stops) /\ ~ Goes
         /\ ReceivedLate => Moves /\ Doing("receive") /\ Waits
         /\ SequenceComplete => Moves /\ Doing("receive") /\ Goes
         /\ TrailingMessage => Moves /\ Doing("receive") /\ Stops
<1>1. at \in Nat
  BY StepFits
<1>2. Received => Moves /\ Doing("receive") /\ (Waits \/ Stops) /\ ~ Goes
  <2> SUFFICES ASSUME Received
               PROVE  Moves /\ Doing("receive") /\ (Waits \/ Stops) /\ ~ Goes
    OBVIOUS
  <2>1. AtStep("receive") /\ InProgram /\ (UNCHANGED <<at, pc, resultVars>> \/ Raise)
    BY DEF Received, AtStep, Handle
  <2> QED
    BY <1>1, <2>1, DoingIs, AdvanceMoves DEF Waits, Stops, Goes
<1>3. ReceivedLate => Moves /\ Doing("receive") /\ Waits
  <2> SUFFICES ASSUME ReceivedLate PROVE Moves /\ Doing("receive") /\ Waits
    OBVIOUS
  <2>1. AtStep("receive") /\ InProgram /\ UNCHANGED <<at, pc, resultVars>>
    BY DEF ReceivedLate, AtStep
  <2> QED
    BY <2>1, DoingIs, AdvanceMoves
<1>4. SequenceComplete => Moves /\ Doing("receive") /\ Goes
  <2> SUFFICES ASSUME SequenceComplete PROVE Moves /\ Doing("receive") /\ Goes
    OBVIOUS
  <2>1. AtStep("receive") /\ InProgram /\ Advance
    BY DEF SequenceComplete, AtStep
  <2> QED
    BY <2>1, DoingIs, AdvanceMoves
<1>5. TrailingMessage => Moves /\ Doing("receive") /\ Stops
  <2> SUFFICES ASSUME TrailingMessage PROVE Moves /\ Doing("receive") /\ Stops
    OBVIOUS
  <2>1. AtStep("receive") /\ InProgram /\ Raise
    BY DEF TrailingMessage, AtStep
  <2> QED
    BY <2>1, DoingIs, AdvanceMoves
<1> QED
  BY <1>2, <1>3, <1>4, <1>5

LEMMA NextMoves ==
  ASSUME SettingsAssumption, Course, [DedicatedNext]_dedicatedVars
  PROVE  Moves
BY QuietActions, StepActions, ReceiveActions DEF DedicatedNext, RunStep

-----------------------------------------------------------------------------
(* The connections                                                         *)

\* The client that connect() itself refused.
Refused == IF verdict = "failed" /\ Step.do = "open" THEN {Step.who} ELSE {}

Connections ==
  /\ connected \subseteq active \cup Refused
  /\ pc = "end" => connected \subseteq Refused

\* A step that leaves the clients alone.
LEMMA ConnectionsStay ==
  ASSUME SettingsAssumption, Course, Connections, Moves, ~ Leaves,
         UNCHANGED <<active, connected>>
  PROVE  Connections'
<1>1. Refused \subseteq Refused'
  BY DEF Moves, Refused, Course, Goes, Stops, Ends, Leaves, Waits, Step
<1>2. pc' = "end" => pc = "end"
  BY DEF Moves, Goes, Stops, Ends, Leaves, Waits
<1> QED
  BY <1>1, <1>2 DEF Connections

LEMMA ConnectionsStep ==
  ASSUME SettingsAssumption, Course, Connections, [DedicatedNext]_dedicatedVars
  PROVE  Connections'
<1>1. CASE OpenClient
  <2>1. Moves /\ Doing("open")
    BY <1>1, StepActions
  <2>2. PICK k, gone :
          /\ AdvanceIf(k # "malformed")
          /\ active' = Registered(Step.who, k)
          /\ connected' = {Step.who} \cup (connected \ gone)
    BY <1>1 DEF OpenClient
  <2>3. verdict = "none" /\ pc = "run" /\ connected \subseteq active
    BY <2>1 DEF Doing, Course, Connections, Refused
  <2>4. CASE k # "malformed"
    <3>1. active' = active \cup {Step.who} /\ pc' = "run"
      BY <2>2, <2>3, <2>4 DEF Registered, AdvanceIf, Advance
    <3> QED
      BY <2>2, <2>3, <3>1 DEF Connections
  <2>5. CASE k = "malformed"
    <3>1. Raise /\ active' = active
      BY <2>2, <2>5 DEF Registered, AdvanceIf
    <3>2. Step' = Step /\ verdict' = "failed" /\ pc' = "finally"
      BY <3>1 DEF Raise, Step
    <3>3. Refused' = {Step.who}
      BY <2>1, <3>2 DEF Refused, Doing
    <3> QED
      BY <2>2, <2>3, <3>1, <3>2, <3>3 DEF Connections
  <2> QED
    BY <2>4, <2>5
<1>2. CASE CloseClient
  <2>1. verdict = "none" /\ pc = "run" /\ pc' = "run"
    BY <1>2, StepActions DEF Doing, Course, Goes
  <2>2. connected \subseteq active
    BY <2>1 DEF Connections, Refused
  <2> QED
    BY <1>2, <2>1, <2>2 DEF CloseClient, Connections
<1>3. CASE DisconnectAll
  <2>1. Refused' = Refused
    BY <1>3 DEF DisconnectAll, Refused, Step, resultVars
  <2> QED
    BY <1>3, <2>1 DEF DisconnectAll, Connections
<1>4. CASE \/ AwaitReplaced \/ Identities \/ get_contacts \/ resolve_channel
           \/ Secrets \/ Queries \/ AttachCollector \/ SendMessage
           \/ require_token \/ PushAny
  <2>1. Moves /\ ~ Leaves
    BY <1>4, QuietActions, StepActions DEF Doing, Leaves
  <2>2. UNCHANGED <<active, connected>>
    BY <1>4 DEF AwaitReplaced, Identities, get_contacts, resolve_channel, Secrets,
      Queries, AttachCollector, SendMessage, require_token, PushAny, radioVars
  <2> QED
    BY <2>1, <2>2, ConnectionsStay
<1>5. CASE \/ Received \/ ReceivedLate \/ SequenceComplete \/ TrailingMessage
  <2>1. Moves /\ ~ Leaves
    BY <1>5, ReceiveActions DEF Doing, Leaves
  <2>2. UNCHANGED <<active, connected>>
    BY <1>5 DEF Received, ReceivedLate, SequenceComplete, TrailingMessage, radioVars
  <2> QED
    BY <2>1, <2>2, ConnectionsStay
<1>6. CASE \/ Return \/ Fail \/ Arrive \/ Acknowledge \/ UNCHANGED dedicatedVars
  <2>1. Moves
    BY <1>6, QuietActions
  <2>2. UNCHANGED <<active, connected>> /\ ~ Leaves
    BY <1>6 DEF Return, Fail, Arrive, Acknowledge, dedicatedVars, radioVars, Leaves,
      InProgram
  <2> QED
    BY <2>1, <2>2, ConnectionsStay
<1> QED
  BY <1>1, <1>2, <1>3, <1>4, <1>5, <1>6 DEF DedicatedNext, RunStep

-----------------------------------------------------------------------------
(* The fence: keys, contacts and secrets                                   *)

Fences ==
  /\ DOMAIN destination = {"multi", "peer"}
  /\ verdict # "failed" =>
       /\ \A e \in {"multi", "peer"} \cap Now.known : destination[e] = key[OtherRadio(e)]
       /\ "channel" \in Now.known => secret["multi"] = secret["peer"]

\* What a step makes known.
LEMMA KnownMoves ==
  ASSUME SettingsAssumption, Course, Moves,
         Goes => Step.do \notin {"contacts", "secrets"}
  PROVE  Now'.known = Now.known
BY NowMoves, StepFits, AfterAdds DEF Goes

LEMMA FencesStay ==
  ASSUME SettingsAssumption, Course, Fences, Moves,
         Goes => Step.do \notin {"contacts", "secrets"},
         UNCHANGED fenceVars
  PROVE  Fences'
<1>1. Now'.known = Now.known /\ (verdict' # "failed" => verdict # "failed")
  BY KnownMoves, NowMoves
<1> QED
  BY <1>1 DEF Fences, fenceVars

LEMMA FencesStep ==
  ASSUME SettingsAssumption, Course, Fences, [DedicatedNext]_dedicatedVars
  PROVE  Fences'
<1>1. CASE OpenClient
  <2>1. Moves /\ Doing("open")
    BY <1>1, StepActions
  <2>2. Now'.known = Now.known /\ (verdict' # "failed" => verdict # "failed")
    BY <2>1, KnownMoves, NowMoves DEF Doing
  <2>3. UNCHANGED <<destination, secret>> /\ (Step.who[2] # 1 => key' = key)
    BY <1>1 DEF OpenClient
  <2>4. Step.who[2] = 1 => Now.known = {}
    BY <2>1, StepFits DEF Doing, Fits
  <2> QED
    BY <2>2, <2>3, <2>4 DEF Fences
<1>2. CASE get_contacts
  <2>1. Moves /\ Doing("contacts")
    BY <1>2, StepActions
  <2> DEFINE e == Endpoint(Step.who)
  <2>2. PICK contacts : LET matches == resolve_contact(contacts, "expected", key[OtherRadio(e)]) IN
          /\ AdvanceIf(Cardinality(matches) = 1)
          /\ destination' = IF Cardinality(matches) = 1
                            THEN [destination EXCEPT ![e] = contacts[CHOOSE i \in matches : TRUE].key]
                            ELSE destination
    BY <1>2 DEF get_contacts
  <2> DEFINE matches == resolve_contact(contacts, "expected", key[OtherRadio(e)])
  <2>3. UNCHANGED <<key, secret>>
    BY <1>2 DEF get_contacts
  <2>4. e \in {"multi", "peer"}
    BY <2>1, StepFits DEF Doing, Fits
  <2>5. DOMAIN destination' = {"multi", "peer"}
    BY <2>2 DEF Fences
  <2>6. CASE Cardinality(matches) = 1
    <3>1. PICK i \in matches : i = CHOOSE j \in matches : TRUE
      <4> HIDE DEF matches, e
      <4>1. matches # {}
        BY <2>6, FS_EmptySet
      <4> QED
        BY <4>1
    <3>2. contacts[i].key = key[OtherRadio(e)]
      BY <3>1 DEF resolve_contact
    <3>3. destination' = [destination EXCEPT ![e] = key[OtherRadio(e)]]
      BY <2>2, <2>6, <3>1, <3>2
    <3>4. Goes
      BY <2>1, <2>2, <2>6, AdvanceMoves, StepFits DEF AdvanceIf, Doing
    <3>5. Now' = Known(Now, e) /\ verdict' = verdict
      BY <2>1, <3>4, NowMoves DEF Goes, Doing, After
    <3>6. Now'.known = Now.known \cup {e}
      BY <3>5, StepFits DEF Known, Ledgers
    <3> HIDE DEF e, matches
    <3>7. \A d \in {"multi", "peer"} : destination'[d] = IF d = e THEN key[OtherRadio(e)] ELSE destination[d]
      BY <3>3 DEF Fences
    <3> QED
      BY <2>3, <2>4, <2>5, <3>5, <3>6, <3>7 DEF Fences
  <2>7. CASE Cardinality(matches) # 1
    <3>1. verdict' = "failed"
      BY <2>2, <2>7 DEF AdvanceIf, Raise
    <3> QED
      BY <2>5, <3>1 DEF Fences
  <2> QED
    BY <2>6, <2>7
<1>3. CASE resolve_channel
  <2>1. Moves /\ Doing("channel")
    BY <1>3, StepActions
  <2>2. Now'.known = Now.known /\ (verdict' # "failed" => verdict # "failed")
    BY <2>1, KnownMoves, NowMoves DEF Doing
  <2>3. "channel" \notin Now.known
    BY <2>1, StepFits DEF Doing, Fits
  <2>4. UNCHANGED <<key, destination>>
    BY <1>3 DEF resolve_channel
  <2> QED
    BY <2>2, <2>3, <2>4 DEF Fences
<1>4. CASE Secrets
  <2>1. Moves /\ Doing("secrets")
    BY <1>4, StepActions
  <2>2. UNCHANGED fenceVars
    BY <1>4 DEF Secrets
  <2>3. CASE secret["multi"] = secret["peer"]
    <3>1. Goes
      BY <1>4, <2>1, <2>3, AdvanceMoves, StepFits DEF Secrets, AdvanceIf, Doing
    <3>2. Now' = Known(Now, "channel") /\ verdict' = verdict
      BY <2>1, <3>1, NowMoves DEF Goes, Doing, After
    <3>3. Now'.known = Now.known \cup {"channel"}
      BY <3>2, StepFits DEF Known, Ledgers
    <3> QED
      BY <2>2, <2>3, <3>2, <3>3 DEF Fences, fenceVars
  <2>4. CASE secret["multi"] # secret["peer"]
    <3>1. verdict' = "failed"
      BY <1>4, <2>4 DEF Secrets, AdvanceIf, Raise
    <3> QED
      BY <2>2, <3>1 DEF Fences, fenceVars
  <2> QED
    BY <2>3, <2>4
<1>5. CASE \/ CloseClient \/ AwaitReplaced \/ Identities \/ Queries
           \/ AttachCollector \/ SendMessage \/ require_token \/ PushAny
  <2>1. Moves /\ Step.do \notin {"contacts", "secrets"}
    BY <1>5, QuietActions, StepActions DEF Doing
  <2>2. UNCHANGED fenceVars
    BY <1>5 DEF CloseClient, AwaitReplaced, Identities, Queries, AttachCollector,
      SendMessage, require_token, PushAny
  <2> QED
    BY <2>1, <2>2, FencesStay
<1>6. CASE \/ Received \/ ReceivedLate \/ SequenceComplete \/ TrailingMessage
  <2>1. Moves /\ Step.do \notin {"contacts", "secrets"}
    BY <1>6, ReceiveActions DEF Doing
  <2>2. UNCHANGED fenceVars
    BY <1>6 DEF Received, ReceivedLate, SequenceComplete, TrailingMessage
  <2> QED
    BY <2>1, <2>2, FencesStay
<1>7. CASE \/ Return \/ Fail \/ Arrive \/ Acknowledge \/ DisconnectAll
           \/ UNCHANGED dedicatedVars
  <2>1. Moves /\ ~ Goes
    BY <1>7, QuietActions
  <2>2. UNCHANGED fenceVars
    BY <1>7 DEF Return, Fail, Arrive, Acknowledge, DisconnectAll, dedicatedVars, fenceVars
  <2> QED
    BY <2>1, <2>2, FencesStay
<1> QED
  BY <1>1, <1>2, <1>3, <1>4, <1>5, <1>6, <1>7 DEF DedicatedNext, RunStep

-----------------------------------------------------------------------------
(* The messages that were sent                                             *)

\* A message as the history keeps it.
Marked(body) == [body |-> body, fenced |-> TRUE]

Sends ==
  /\ IsFiniteSet(transmitted)
  /\ \A t \in transmitted : t.fenced
  /\ used \in Nat
  /\ Cardinality(transmitted) <= used
  /\ used <= args.max_radio_sends
  /\ ~ args.execute => transmitted = {}
  /\ verdict # "failed" =>
       /\ transmitted = {Marked(b) : b \in Now.sent}
       /\ IsFiniteSet(Now.sent)
       /\ used = Cardinality(transmitted) /\ used = Cardinality(Now.sent)

LEMMA SentMoves ==
  ASSUME SettingsAssumption, Course, Moves, Goes => Step.do # "send"
  PROVE  Now'.sent = Now.sent
BY NowMoves, StepFits, AfterAdds DEF Goes

LEMMA SendsStay ==
  ASSUME SettingsAssumption, Course, Sends, Moves, Goes => Step.do # "send",
         UNCHANGED <<used, transmitted>>
  PROVE  Sends'
<1>1. Now'.sent = Now.sent /\ (verdict' # "failed" => verdict # "failed") /\ args' = args
  BY SentMoves, NowMoves DEF Moves
<1>2. {Marked(b) : b \in Now'.sent} = {Marked(b) : b \in Now.sent}
  BY <1>1
<1> QED
  BY <1>1, <1>2 DEF Sends

\* The fence is up when something is sent.
LEMMA SendIsFenced ==
  ASSUME SettingsAssumption, Course, Fences, Doing("send")
  PROVE  Fenced(Step) = TRUE
<1>1. verdict # "failed"
  BY DEF Course, Doing
<1>2. (IF Step.kind = "contact" THEN Radio(Step.who) ELSE "channel") \in Now.known
  BY StepFits DEF Doing, Fits
<1>3. Radio(Step.who) \in {"multi", "peer"}
  BY DEF Radio
<1>4. Radio(Step.who) \in Now.known => destination[Radio(Step.who)] = key[OtherRadio(Radio(Step.who))]
  BY <1>1, <1>3 DEF Fences
<1>5. "channel" \in Now.known => secret["multi"] = secret["peer"]
  BY <1>1 DEF Fences
<1>6. Fenced(Step) = IF Step.kind = "contact"
                     THEN destination[Radio(Step.who)] = key[OtherRadio(Radio(Step.who))]
                     ELSE secret["multi"] = secret["peer"]
  BY DEF Fenced, Radio
<1> QED
  BY <1>2, <1>4, <1>5, <1>6

LEMMA OneMore ==
  ASSUME NEW S, NEW x, NEW T, IsFiniteSet(S), x \notin S, T = S \cup {x}
  PROVE  IsFiniteSet(T) /\ Cardinality(T) = Cardinality(S) + 1
BY FS_AddElement

LEMMA SendsStep ==
  ASSUME SettingsAssumption, Course, Fences, Sends, [DedicatedNext]_dedicatedVars
  PROVE  Sends'
<1>1. CASE SendMessage
  <2>1. Moves /\ Doing("send")
    BY <1>1, StepActions
  <2>2. verdict = "none" /\ args' = args
    BY <2>1 DEF Doing, Course, Moves
  <2>3. CASE ~ MayConsume
    <3>1. verdict' = "failed" /\ UNCHANGED <<used, transmitted>>
      BY <1>1, <2>3 DEF SendMessage, Raise
    <3> QED
      BY <2>2, <3>1 DEF Sends
  <2>4. CASE MayConsume
    <3>1. used' = used + 1 /\ transmitted' = transmitted \cup {Marked(Step.body)}
      BY <1>1, <2>1, <2>4, SendIsFenced DEF SendMessage, Marked
    <3>2. Step.body \notin Now.sent /\ Step.body \in Nat /\ args.execute
      BY <2>1, StepFits DEF Doing, Fits
    <3>3. Marked(Step.body) \notin transmitted
      BY <2>2, <3>2 DEF Sends, Marked
    <3>4. IsFiniteSet(transmitted') /\ Cardinality(transmitted') = Cardinality(transmitted) + 1
      <4>1. IsFiniteSet(transmitted)
        BY DEF Sends
      <4> QED
        BY <3>1, <3>3, <4>1, OneMore
    <3>5. \A t \in transmitted' : t.fenced
      BY <3>1 DEF Sends, Marked
    <3>6. used' \in Nat /\ used' = Cardinality(transmitted') /\ used' <= args.max_radio_sends
      <4>1. used = Cardinality(transmitted) /\ used \in Nat /\ used < args.max_radio_sends
        BY <2>2, <2>4 DEF Sends, MayConsume
      <4>2. args.max_radio_sends \in Nat
        BY StepFits DEF Arguments
      <4> QED
        BY <3>1, <3>4, <4>1, <4>2
    <3>7. ASSUME verdict' # "failed"
          PROVE  /\ transmitted' = {Marked(b) : b \in Now'.sent}
                 /\ IsFiniteSet(Now'.sent) /\ used' = Cardinality(Now'.sent)
      <4>1. Goes
        BY <1>1, <2>1, <2>4, <3>7, AdvanceMoves, StepFits DEF SendMessage, Doing, Raise
      <4>2. Now'.sent = Now.sent \cup {Step.body}
        BY <2>1, <3>2, <4>1, NowMoves, LedgerSent, StepFits DEF Doing, After
      <4>3. IsFiniteSet(Now'.sent) /\ Cardinality(Now'.sent) = Cardinality(Now.sent) + 1
        <5>1. IsFiniteSet(Now.sent)
          BY <2>2 DEF Sends
        <5> QED
          BY <3>2, <4>2, <5>1, OneMore
      <4>4. transmitted' = {Marked(b) : b \in Now'.sent}
        BY <2>2, <3>1, <4>2 DEF Sends
      <4> QED
        BY <2>2, <3>1, <4>3, <4>4 DEF Sends
    <3> QED
      BY <2>2, <3>2, <3>4, <3>5, <3>6, <3>7 DEF Sends
  <2> QED
    BY <2>3, <2>4
<1>2. CASE \/ OpenClient \/ CloseClient \/ AwaitReplaced \/ Identities \/ get_contacts
           \/ resolve_channel \/ Secrets \/ Queries \/ AttachCollector
           \/ require_token \/ PushAny
  <2>1. Moves /\ Step.do # "send"
    BY <1>2, QuietActions, StepActions DEF Doing
  <2>2. UNCHANGED <<used, transmitted>>
    BY <1>2 DEF OpenClient, CloseClient, AwaitReplaced, Identities, get_contacts,
      resolve_channel, Secrets, Queries, AttachCollector, require_token, PushAny, historyVars
  <2> QED
    BY <2>1, <2>2, SendsStay
<1>3. CASE \/ Received \/ ReceivedLate \/ SequenceComplete \/ TrailingMessage
  <2>1. Moves /\ Step.do # "send"
    BY <1>3, ReceiveActions DEF Doing
  <2>2. UNCHANGED <<used, transmitted>>
    BY <1>3 DEF Received, ReceivedLate, SequenceComplete, TrailingMessage, Give, historyVars
  <2> QED
    BY <2>1, <2>2, SendsStay
<1>4. CASE \/ Return \/ Fail \/ Arrive \/ Acknowledge \/ DisconnectAll
           \/ UNCHANGED dedicatedVars
  <2>1. Moves /\ ~ Goes
    BY <1>4, QuietActions
  <2>2. UNCHANGED <<used, transmitted>>
    BY <1>4 DEF Return, Fail, Arrive, Acknowledge, DisconnectAll, dedicatedVars, historyVars
  <2> QED
    BY <2>1, <2>2, SendsStay
<1> QED
  BY <1>1, <1>2, <1>3, <1>4 DEF DedicatedNext, RunStep

-----------------------------------------------------------------------------
(* The acknowledgements                                                    *)

\* What was pushed to a client, and what its queue holds of it.
Pushed(c) == {p[1] : p \in {q \in acked : q = <<q[1], c>>}}

Acks ==
  /\ \A c \in DOMAIN queues : queues[c] \in Seq(Pushed(c))
  /\ verdict # "failed" => Now.attached \subseteq DOMAIN queues /\ Now.shown \subseteq acked

LEMMA PushedIs ==
  ASSUME NEW c
  PROVE  /\ \A token : token \in Pushed(c) <=> <<token, c>> \in acked
         /\ \A token : token \in Pushed(c)' <=> <<token, c>> \in acked'
BY DEF Pushed

LEMMA WiderSeq ==
  ASSUME NEW S, NEW T, S \subseteq T, NEW s \in Seq(S)
  PROVE  s \in Seq(T)
<1>1. Len(s) \in Nat /\ s \in [1 .. Len(s) -> S]
  BY LenProperties
<1>2. s \in [1 .. Len(s) -> T]
  BY <1>1
<1> QED
  BY <1>1, <1>2

\* A set of numbers with an element has a least one.
LEMMA LeastNumber ==
  ASSUME NEW T \in SUBSET Nat, T # {}
  PROVE  Min(T) \in T
<1> DEFINE R == {p \in Nat \X Nat : p[1] < p[2]}
<1>1. OpToRel(<, Nat) = R
  BY DEF OpToRel
<1>2. IsWellFoundedOn(R, Nat)
  BY <1>1, NatLessThanWellFounded
<1>3. PICK x \in T : \A y \in T : <<y, x>> \notin R
  BY <1>2, WFMin
<1>4. ASSUME NEW y \in T PROVE x =< y
  <2>1. x \in Nat /\ y \in Nat
    OBVIOUS
  <2>2. ~ (y < x)
    BY <1>3, <2>1
  <2> QED
    BY <2>1, <2>2
<1> QED
  BY <1>4 DEF Min

\* A queue that is read up to a token.
LEMMA ReadUpTo ==
  ASSUME NEW S, NEW s \in Seq(S), NEW token, NEW n,
         n = LET I == {i \in 1 .. Len(s) : s[i] = token}
             IN IF I # {} THEN Min(I) ELSE 0
  PROVE  SubSeq(s, 1 + n, Len(s)) \in Seq(S)
<1> DEFINE I == {i \in 1 .. Len(s) : s[i] = token}
<1>1. Len(s) \in Nat /\ \A i \in 1 .. Len(s) : s[i] \in S
  BY LenProperties, ElementOfSeq
<1>2. n = IF I # {} THEN Min(I) ELSE 0
  OBVIOUS
<1>3. I \in SUBSET Nat
  OBVIOUS
<1> HIDE DEF I
<1>4. n \in Nat
  BY <1>2, <1>3, LeastNumber
<1>5. \A i \in 1 + n .. Len(s) : s[i] \in S
  BY <1>1, <1>4
<1>6. 1 + n \in Int /\ Len(s) \in Int
  BY <1>1, <1>4
<1> QED
  BY <1>5, <1>6, SubSeqProperties

LEMMA AcksStay ==
  ASSUME SettingsAssumption, Course, Acks, Moves,
         Goes => Step.do \notin {"attach", "ack"},
         UNCHANGED <<queues, acked>>
  PROVE  Acks'
<1>1. /\ Now'.attached = Now.attached /\ Now'.shown = Now.shown
      /\ verdict' # "failed" => verdict # "failed"
  BY NowMoves, StepFits, AfterAdds DEF Goes
<1>2. \A c : Pushed(c)' = Pushed(c)
  BY DEF Pushed
<1> QED
  BY <1>1, <1>2 DEF Acks

LEMMA PushKeeps ==
  ASSUME SettingsAssumption, Course, Acks, Moves, Waits, NEW token, NEW clients,
         Push(token, clients)
  PROVE  Acks'
<1>1. /\ queues' = [c \in DOMAIN queues |->
            IF c \in clients THEN Append(queues[c], token) ELSE queues[c]]
      /\ acked' = acked \cup ({token} \X clients)
  BY DEF Push
<1>2. ASSUME NEW c \in DOMAIN queues
      PROVE  queues'[c] \in Seq(Pushed(c)')
  <2>1. Pushed(c) \subseteq Pushed(c)'
    BY <1>1, PushedIs
  <2>2. queues[c] \in Seq(Pushed(c)')
    BY <2>1, WiderSeq DEF Acks
  <2>3. c \in clients => token \in Pushed(c)'
    BY <1>1, PushedIs
  <2>4. c \in clients => Append(queues[c], token) \in Seq(Pushed(c)')
    BY <2>2, <2>3, AppendProperties
  <2> QED
    BY <1>1, <2>2, <2>4
<1>3. DOMAIN queues' = DOMAIN queues
  BY <1>1
<1>4. ~ Goes
  BY StepFits DEF Goes, Waits
<1>5. Now' = Now /\ (verdict' # "failed" => verdict # "failed")
  BY <1>4, NowMoves
<1> QED
  BY <1>1, <1>2, <1>3, <1>5 DEF Acks

LEMMA AcksStep ==
  ASSUME SettingsAssumption, Course, Acks, [DedicatedNext]_dedicatedVars
  PROVE  Acks'
<1>1. CASE AttachCollector
  <2>1. Moves /\ Doing("attach") /\ Goes
    BY <1>1, StepActions
  <2>2. queues' = [c \in Step.who |-> <<>>] /\ acked' = acked
    BY <1>1 DEF AttachCollector, historyVars
  <2>3. Now'.attached = Step.who /\ Now'.shown = Now.shown
    BY <2>1, NowMoves, StepFits DEF Doing, After, Ledgers
  <2>4. verdict # "failed"
    BY <2>1 DEF Doing, Course
  <2>5. \A c \in DOMAIN queues' : queues'[c] \in Seq(Pushed(c)')
    BY <2>2, EmptySeq
  <2> QED
    BY <2>2, <2>3, <2>4, <2>5 DEF Acks
<1>2. CASE require_token
  <2>1. Moves /\ Doing("ack") /\ Goes
    BY <1>2, StepActions
  <2>2. /\ queues' = [c \in DOMAIN queues |->
             IF c \in Step.who
             THEN SubSeq(queues[c], 1 + SelectInSeq(queues[c], LAMBDA t : t = Step.body),
                         Len(queues[c]))
             ELSE queues[c]]
        /\ acked' = acked
        /\ \A c \in Step.who : Step.body \in Range(queues[c])
    BY <1>2 DEF require_token, historyVars, Satisfied
  <2>3. \A c : Pushed(c)' = Pushed(c)
    BY <2>2 DEF Pushed
  <2>4. ASSUME NEW c \in DOMAIN queues
        PROVE  queues'[c] \in Seq(Pushed(c)')
    <3>1. queues[c] \in Seq(Pushed(c))
      BY DEF Acks
    <3> DEFINE n == SelectInSeq(queues[c], LAMBDA t : t = Step.body)
    <3>2. n = LET I == {i \in 1 .. Len(queues[c]) : queues[c][i] = Step.body}
              IN IF I # {} THEN Min(I) ELSE 0
      BY DEF SelectInSeq
    <3>3. c \in Step.who => queues'[c] = SubSeq(queues[c], 1 + n, Len(queues[c]))
      BY <2>2
    <3>4. c \notin Step.who => queues'[c] = queues[c]
      BY <2>2
    <3> HIDE DEF n
    <3>5. SubSeq(queues[c], 1 + n, Len(queues[c])) \in Seq(Pushed(c))
      BY <3>1, <3>2, ReadUpTo
    <3> QED
      BY <2>3, <3>1, <3>3, <3>4, <3>5
  <2>5. verdict # "failed" /\ Step.who \subseteq Now.attached /\ Step.body \in Nat
    BY <2>1, StepFits DEF Doing, Course, Fits
  <2>6. Now.attached \in SUBSET Clients
    BY StepFits DEF Ledgers
  <2>7. Now' = Shown(Now, Step.body, Step.who)
    BY <2>1, NowMoves DEF Doing, After
  <2>8. /\ Now'.attached = Now.attached
        /\ Now'.shown = Now.shown \cup ({Step.body} \X Step.who)
    BY <2>5, <2>6, <2>7, LedgerShown, StepFits
  <2>9. ASSUME NEW c \in Step.who
        PROVE  <<Step.body, c>> \in acked
    <3>1. c \in DOMAIN queues
      BY <2>5 DEF Acks
    <3>2. queues[c] \in Seq(Pushed(c))
      BY <3>1 DEF Acks
    <3>3. PICK i \in DOMAIN queues[c] : queues[c][i] = Step.body
      BY <2>2 DEF Range
    <3>4. Step.body \in Pushed(c)
      BY <3>2, <3>3, LenProperties, ElementOfSeq
    <3> QED
      BY <3>4, PushedIs
  <2>10. DOMAIN queues' = DOMAIN queues
    BY <2>2
  <2>11. Now.attached \subseteq DOMAIN queues /\ Now.shown \subseteq acked
    BY <2>5 DEF Acks
  <2>12. Now'.attached \subseteq DOMAIN queues' /\ Now'.shown \subseteq acked'
    BY <2>2, <2>8, <2>9, <2>10, <2>11
  <2> QED
    BY <2>4, <2>10, <2>12 DEF Acks
<1>3. CASE PushAny
  <2>1. Moves /\ Waits
    BY <1>3, StepActions
  <2>2. PICK token, c : Push(token, {c})
    BY <1>3 DEF PushAny
  <2> QED
    BY <2>1, <2>2, PushKeeps
<1>4. CASE Acknowledge
  <2>1. Moves /\ Waits
    BY <1>4, QuietActions
  <2>2. PICK token, clients : Push(token, clients)
    BY <1>4 DEF Acknowledge
  <2> QED
    BY <2>1, <2>2, PushKeeps
<1>5. CASE \/ OpenClient \/ CloseClient \/ AwaitReplaced \/ Identities \/ get_contacts
           \/ resolve_channel \/ Secrets \/ Queries \/ SendMessage
  <2>1. Moves /\ Step.do \notin {"attach", "ack"}
    BY <1>5, QuietActions, StepActions DEF Doing
  <2>2. UNCHANGED <<queues, acked>>
    BY <1>5 DEF OpenClient, CloseClient, AwaitReplaced, Identities, get_contacts,
      resolve_channel, Secrets, Queries, SendMessage, historyVars
  <2> QED
    BY <2>1, <2>2, AcksStay
<1>6. CASE \/ Received \/ ReceivedLate \/ SequenceComplete \/ TrailingMessage
  <2>1. Moves /\ Step.do \notin {"attach", "ack"}
    BY <1>6, ReceiveActions DEF Doing
  <2>2. UNCHANGED <<queues, acked>>
    BY <1>6 DEF Received, ReceivedLate, SequenceComplete, TrailingMessage, Give, historyVars
  <2> QED
    BY <2>1, <2>2, AcksStay
<1>7. CASE \/ Return \/ Fail \/ Arrive \/ DisconnectAll \/ UNCHANGED dedicatedVars
  <2>1. Moves /\ ~ Goes
    BY <1>7, QuietActions
  <2>2. UNCHANGED <<queues, acked>>
    BY <1>7 DEF Return, Fail, Arrive, DisconnectAll, dedicatedVars, historyVars
  <2> QED
    BY <2>1, <2>2, AcksStay
<1> QED
  BY <1>1, <1>2, <1>3, <1>4, <1>5, <1>6, <1>7 DEF DedicatedNext, RunStep

-----------------------------------------------------------------------------
(* What the endpoints were given                                           *)

\* How much of Expected an endpoint was seen to receive.
Reached(e) ==
  Now.given[e] + (IF matched # 0 /\ Endpoint(Step.who) = e THEN matched ELSE 0)

Counts ==
  /\ progress \in [Endpoints -> Nat]
  /\ DOMAIN extra = Endpoints
  /\ matched \in Nat /\ unmatched \in Nat
  /\ \A e \in Endpoints : progress[e] <= Len(Expected(args, e))

Evidence ==
  /\ matched # 0 => InRange /\ Step.do = "receive" /\ matched <= Len(Step.bodies)
  /\ \A e \in Endpoints : progress[e] >= Reached(e)
  /\ args.max_unmatched = 0 /\ ~ late =>
       \A e \in Endpoints : progress[e] = Reached(e) /\ ~ extra[e]

Deliveries == Counts /\ (verdict # "failed" => Evidence)

LEMMA ExpectedLength ==
  ASSUME SettingsAssumption, Course, NEW e \in Endpoints
  PROVE  Len(Expected(args, e)) \in Nat
<1>1. args \in Arguments /\ args.ports \in Nat
  BY StepFits, PortsAre
<1>2. CASE e = "peer"
  BY <1>1, <1>2, ExpectedIs
<1>3. CASE e # "peer"
  BY <1>1, <1>3, ExpectedIs
<1> QED
  BY <1>2, <1>3

LEMMA DeliveriesStay ==
  ASSUME SettingsAssumption, Course, Deliveries, Moves,
         Goes => Step.do # "receive",
         UNCHANGED <<receiveVars, progress, extra, late>>
  PROVE  Deliveries'
<1>1. /\ matched' = matched /\ unmatched' = unmatched
      /\ progress' = progress /\ extra' = extra /\ late' = late
      /\ args' = args
      /\ \A e : Expected(args, e)' = Expected(args, e)
  BY DEF receiveVars, Moves
<1>2. Counts'
  BY <1>1 DEF Counts, Deliveries
<1>3. ASSUME verdict' # "failed"
      PROVE  Evidence'
  <2>1. verdict # "failed" /\ Evidence
    BY <1>3, NowMoves DEF Deliveries
  <2>2. Now'.given = Now.given
    BY NowMoves, StepFits, AfterAdds DEF Goes
  <2>3. CASE Goes
    <3>1. matched = 0
      BY <2>1, <2>3 DEF Evidence
    <3>2. \A e : Reached(e)' = Now'.given[e] + 0 /\ Reached(e) = Now.given[e] + 0
      BY <1>1, <3>1 DEF Reached
    <3>3. \A e : Reached(e)' = Reached(e)
      BY <2>2, <3>2
    <3> QED
      BY <1>1, <2>1, <3>1, <3>3 DEF Evidence
  <2>4. CASE ~ Goes
    <3>1. at' = at
      BY <2>4, NowMoves
    <3>2. InRange' = InRange /\ Step' = Step
      BY <1>1, <3>1 DEF InRange, Step
    <3>3. \A e : Reached(e)' = Reached(e)
      BY <1>1, <2>2, <3>2 DEF Reached
    <3> QED
      BY <1>1, <2>1, <3>2, <3>3 DEF Evidence
  <2> QED
    BY <2>3, <2>4
<1> QED
  BY <1>2, <1>3 DEF Deliveries

\* The message that the endpoint is to be given next.
IsNext(e, message) ==
  /\ progress[e] + 1 <= Len(Expected(args, e))
  /\ Genuine(message)
  /\ message.body = Expected(args, e)[progress[e] + 1]

LEMMA GiveIs ==
  ASSUME SettingsAssumption, Course, Counts, NEW e \in Endpoints, NEW message,
         Give(e, message)
  PROVE  /\ progress' \in [Endpoints -> Nat] /\ DOMAIN extra' = Endpoints
         /\ late' = late
         /\ \A d \in Endpoints : progress'[d] <= Len(Expected(args, d))
         /\ \A d \in Endpoints : progress'[d] >= progress[d]
         /\ \A d \in Endpoints : d # e => progress'[d] = progress[d] /\ extra'[d] = extra[d]
         /\ IsNext(e, message) => progress'[e] = progress[e] + 1 /\ (extra'[e] <=> extra[e])
<1>1. /\ progress' = IF IsNext(e, message)
                     THEN [progress EXCEPT ![e] = progress[e] + 1] ELSE progress
      /\ extra' = [extra EXCEPT ![e] = extra[e] \/ ~ IsNext(e, message)]
      /\ late' = late
  BY DEF Give, IsNext
<1>2. progress[e] \in Nat /\ progress \in [Endpoints -> Nat]
  BY DEF Counts
<1>3. DOMAIN extra' = Endpoints
      /\ \A d \in Endpoints : d # e => extra'[d] = extra[d]
  BY <1>1 DEF Counts
<1>4. extra'[e] = (extra[e] \/ ~ IsNext(e, message))
  BY <1>1 DEF Counts
<1>5. CASE IsNext(e, message)
  <2>1. progress' = [progress EXCEPT ![e] = progress[e] + 1]
    BY <1>1, <1>5
  <2>2. progress' \in [Endpoints -> Nat] /\ progress'[e] = progress[e] + 1
        /\ \A d \in Endpoints : d # e => progress'[d] = progress[d]
    BY <1>2, <2>1
  <2>3. progress[e] + 1 <= Len(Expected(args, e))
    BY <1>5 DEF IsNext
  <2>4. \A d \in Endpoints : progress'[d] <= Len(Expected(args, d))
    BY <2>2, <2>3 DEF Counts
  <2>5. \A d \in Endpoints : progress'[d] >= progress[d]
    BY <1>2, <2>2
  <2>6. extra'[e] <=> extra[e]
    BY <1>4, <1>5
  <2> QED
    BY <1>1, <1>3, <2>2, <2>4, <2>5, <2>6
<1>6. CASE ~ IsNext(e, message)
  <2>1. progress' = progress
    BY <1>1, <1>6
  <2>2. \A d \in Endpoints : progress'[d] >= progress[d]
    BY <1>2, <2>1
  <2> QED
    BY <1>1, <1>3, <1>6, <2>1, <2>2 DEF Counts
<1> QED
  BY <1>5, <1>6

LEMMA ReceiveIs ==
  ASSUME SettingsAssumption, Course, Doing("receive")
  PROVE  /\ Endpoint(Step.who) \in Endpoints
         /\ Len(Step.bodies) \in Nat
         /\ IsDue(args, Endpoint(Step.who), Now.given[Endpoint(Step.who)],
                  Step.kind, Step.bodies)
         /\ Now.given \in [Endpoints -> Nat]
<1>1. Due(args, Step, Now)
  BY StepFits DEF Doing, Fits
<1>2. Now.given \in [Endpoints -> Nat]
  BY StepFits DEF Ledgers
<1> QED
  BY <1>1, <1>2 DEF Due

\* A marker that the loop accepts is the one that is due.
LEMMA AcceptedIsNext ==
  ASSUME SettingsAssumption, Course, Doing("receive"), Counts,
         matched < Len(Step.bodies),
         NEW message,
         message.kind = Step.kind,
         inbox_text_matches(message, Step.bodies[matched + 1]),
         progress[Endpoint(Step.who)] = Now.given[Endpoint(Step.who)] + matched
  PROVE  IsNext(Endpoint(Step.who), message)
<1> DEFINE w == Endpoint(Step.who)
           j == matched + 1
<1>1. j \in 1 .. Len(Step.bodies)
  BY ReceiveIs DEF Counts
<1>2. /\ Now.given[w] + j <= Len(Expected(args, w))
      /\ Step.bodies[j] = Expected(args, w)[Now.given[w] + j]
      /\ Step.kind = KindOf(args, Step.bodies[j])
  BY <1>1, ReceiveIs DEF IsDue
<1>3. progress[w] + 1 = Now.given[w] + j
  <2>1. matched \in Nat /\ Now.given[w] \in Nat
    BY ReceiveIs DEF Counts
  <2>2. progress[w] = Now.given[w] + matched
    OBVIOUS
  <2>3. \A given, taken \in Nat : given + taken + 1 = given + (taken + 1)
    OBVIOUS
  <2>4. Now.given[w] + matched + 1 = Now.given[w] + j
    BY <2>1, <2>3
  <2> QED
    BY <2>2, <2>4
<1>4. message.body = Step.bodies[j] /\ message.form = Form(message.kind)
  BY DEF inbox_text_matches
<1>5. Genuine(message)
  BY <1>2, <1>4 DEF Genuine, KindOf
<1> QED
  BY <1>2, <1>3, <1>4, <1>5 DEF IsNext

\* One get_msg of the loop.
LEMMA ReceivedCounts ==
  ASSUME SettingsAssumption, Course, Deliveries, Received
  PROVE  Deliveries'
<1> DEFINE w == Endpoint(Step.who)
<1>1. Moves /\ Doing("receive") /\ ~ Goes /\ (Waits \/ Stops)
  BY ReceiveActions
<1>2. PICK message : Handle(message) /\ Give(w, message)
  BY DEF Received
<1>3. verdict = "none" /\ args' = args /\ at' = at /\ Step' = Step /\ InRange'
  BY <1>1, NowMoves DEF Doing, Course, Moves, Step, InRange
<1>4. Counts /\ Evidence
  BY <1>3 DEF Deliveries
<1>5. w \in Endpoints /\ Now.given \in [Endpoints -> Nat] /\ Len(Step.bodies) \in Nat
  BY <1>1, ReceiveIs
<1>6. /\ progress' \in [Endpoints -> Nat] /\ DOMAIN extra' = Endpoints
      /\ late' = late
      /\ \A d \in Endpoints : progress'[d] <= Len(Expected(args, d))
      /\ \A d \in Endpoints : progress'[d] >= progress[d]
      /\ \A d \in Endpoints : d # w => progress'[d] = progress[d] /\ extra'[d] = extra[d]
      /\ IsNext(w, message) => progress'[w] = progress[w] + 1 /\ (extra'[w] <=> extra[w])
  BY <1>2, <1>4, <1>5, GiveIs
<1>7. matched \in Nat /\ unmatched \in Nat /\ progress \in [Endpoints -> Nat]
      /\ \A d \in Endpoints : progress[d] \in Nat /\ progress'[d] \in Nat /\ Now.given[d] \in Nat
  BY <1>4, <1>5, <1>6 DEF Counts
<1>8. matched < Len(Step.bodies)
  <2>1. matched # Len(Step.bodies)
    BY DEF Received, AllMatched
  <2>2. matched = 0 \/ matched <= Len(Step.bodies)
    BY <1>4 DEF Evidence
  <2> QED
    BY <1>5, <1>7, <2>1, <2>2
<1>9. Now' = Now
  BY <1>1, NowMoves
<1>10. \A d \in Endpoints : Reached(d) = Now.given[d] + (IF w = d THEN matched ELSE 0)
  BY <1>7 DEF Reached
<1>11. /\ \A e : Expected(args, e)' = Expected(args, e)
       /\ Step.do = "receive"
  BY <1>1, <1>3 DEF Doing
<1>12. CASE /\ message.kind = Step.kind
            /\ inbox_text_matches(message, Step.bodies[matched + 1])
  <2>1. matched' = matched + 1 /\ unmatched' = unmatched
    BY <1>2, <1>12 DEF Handle
  <2>2. \A d \in Endpoints : Reached(d)' = Now.given[d] + (IF w = d THEN matched + 1 ELSE 0)
    BY <1>3, <1>7, <1>9, <2>1 DEF Reached
  <2>3. progress[w] = Now.given[w] + matched => IsNext(w, message)
    BY <1>1, <1>4, <1>8, <1>12, AcceptedIsNext
  <2>4. progress[w] >= Now.given[w] + matched
    BY <1>4, <1>5, <1>10 DEF Evidence
  <2> HIDE DEF w
  <2>5. progress'[w] >= Now.given[w] + (matched + 1)
    <3>1. progress[w] \in Nat /\ progress'[w] \in Nat /\ Now.given[w] \in Nat
      BY <1>5, <1>7
    <3>2. CASE progress[w] = Now.given[w] + matched
      <4>1. progress'[w] = progress[w] + 1
        BY <1>6, <2>3, <3>2
      <4> QED
        BY <1>7, <3>1, <3>2, <4>1
    <3>3. CASE progress[w] # Now.given[w] + matched
      <4>1. progress'[w] >= progress[w]
        BY <1>5, <1>6
      <4> QED
        BY <1>7, <2>4, <3>1, <3>3, <4>1
    <3> QED
      BY <3>2, <3>3
  <2>6. \A d \in Endpoints : d # w => progress[d] >= Now.given[d]
    BY <1>4, <1>7, <1>10 DEF Evidence
  <2>7. \A d \in Endpoints : progress'[d] >= Reached(d)'
    <3>1. TAKE d \in Endpoints
    <3>2. CASE d = w
      BY <1>5, <2>2, <2>5, <3>2
    <3>3. CASE d # w
      BY <1>6, <1>7, <2>2, <2>6, <3>3
    <3> QED
      BY <3>2, <3>3
  <2>8. ASSUME args.max_unmatched = 0, ~ late, NEW d \in Endpoints
        PROVE  progress'[d] = Reached(d)' /\ ~ extra'[d]
    <3>1. progress[d] = Reached(d) /\ ~ extra[d]
      BY <1>4, <2>8 DEF Evidence
    <3>2. CASE d = w
      <4>1. progress[w] = Now.given[w] + matched
        BY <1>10, <3>1, <3>2
      <4>2. progress'[w] = progress[w] + 1 /\ ~ extra'[w]
        BY <1>6, <2>3, <3>1, <3>2, <4>1
      <4> QED
        BY <1>7, <2>2, <3>2, <4>1, <4>2
    <3>3. CASE d # w
      BY <1>6, <1>7, <1>10, <2>2, <3>1, <3>3
    <3> QED
      BY <3>2, <3>3
  <2>9. matched' <= Len(Step.bodies) /\ matched' \in Nat /\ unmatched' \in Nat
    BY <1>5, <1>7, <1>8, <2>1
  <2>10. Counts'
    BY <1>6, <1>11, <2>9, <1>3 DEF Counts
  <2>11. Evidence'
    BY <1>3, <1>6, <1>11, <2>7, <2>8, <2>9 DEF Evidence
  <2> QED
    BY <2>10, <2>11 DEF Deliveries
<1>13. CASE ~ (/\ message.kind = Step.kind
               /\ inbox_text_matches(message, Step.bodies[matched + 1]))
  <2>1. /\ matched' = matched /\ unmatched' = unmatched + 1
        /\ TooMany(unmatched') => Raise
    BY <1>2, <1>13 DEF Handle
  <2>2. matched' \in Nat /\ unmatched' \in Nat
    BY <1>7, <2>1
  <2>3. Counts'
    BY <1>3, <1>6, <1>11, <2>2 DEF Counts
  <2>4. ASSUME verdict' # "failed"
        PROVE  Evidence'
    <3>1. ~ TooMany(unmatched')
      BY <2>1, <2>4 DEF Raise
    <3>2. args.max_unmatched # 0
      BY <1>7, <2>1, <3>1 DEF TooMany
    <3>3. \A d \in Endpoints : Reached(d)' = Reached(d)
      BY <1>3, <1>9, <2>1 DEF Reached
    <3>4. \A d \in Endpoints : Reached(d) \in Nat /\ progress[d] >= Reached(d)
      BY <1>4, <1>7, <1>10 DEF Evidence
    <3>5. \A d \in Endpoints : progress'[d] >= Reached(d)'
      <4>1. TAKE d \in Endpoints
      <4> QED
        BY <1>6, <1>7, <3>3, <3>4
    <3> QED
      BY <1>3, <1>4, <1>11, <2>1, <3>2, <3>5 DEF Evidence
  <2> QED
    BY <2>3, <2>4 DEF Deliveries
<1> QED
  BY <1>12, <1>13

\* The end of a receive_sequence.
LEMMA SequenceCounts ==
  ASSUME SettingsAssumption, Course, Deliveries, SequenceComplete
  PROVE  Deliveries'
<1> DEFINE w == Endpoint(Step.who)
<1>1. Moves /\ Doing("receive") /\ Goes
  BY ReceiveActions
<1>2. /\ matched = Len(Step.bodies) /\ matched' = 0 /\ unmatched' = 0
      /\ progress' = progress /\ extra' = extra /\ late' = late
  BY DEF SequenceComplete, AllMatched, historyVars
<1>3. verdict = "none" /\ verdict' = "none" /\ args' = args
  BY <1>1 DEF Doing, Course, Goes, Moves
<1>4. Counts /\ Evidence
  BY <1>3 DEF Deliveries
<1>5. w \in Endpoints /\ Now.given \in [Endpoints -> Nat] /\ Len(Step.bodies) \in Nat
      /\ Now \in Ledgers
  BY <1>1, ReceiveIs, StepFits
<1>6. Now' = Given(Now, w, Len(Step.bodies))
  BY <1>1, NowMoves DEF Doing, After
<1>7. GivenMore(Now, Now', w, Len(Step.bodies))
  BY <1>5, <1>6, LedgerGivenMore
<1>8. \A d \in Endpoints : Reached(d) = Now.given[d] + (IF w = d THEN matched ELSE 0)
  BY <1>4, <1>5 DEF Reached, Counts
<1> HIDE DEF w
<1>9. \A d \in Endpoints : Reached(d)' = Now'.given[d] + 0
  BY <1>2 DEF Reached
<1>10. \A d \in Endpoints : Reached(d)' = Reached(d)
  <2>1. TAKE d \in Endpoints
  <2>2. Now.given[d] \in Nat
    BY <1>5
  <2>3. CASE d = w
    BY <1>2, <1>5, <1>7, <1>8, <1>9, <2>2, <2>3 DEF GivenMore
  <2>4. CASE d # w
    BY <1>7, <1>8, <1>9, <2>2, <2>4 DEF GivenMore
  <2> QED
    BY <2>3, <2>4
<1>11. \A e : Expected(args, e)' = Expected(args, e)
  BY <1>3
<1>12. Counts'
  BY <1>2, <1>3, <1>4, <1>11 DEF Counts
<1>13. Evidence'
  BY <1>2, <1>3, <1>4, <1>10 DEF Evidence
<1> QED
  BY <1>12, <1>13 DEF Deliveries

LEMMA DeliveriesStep ==
  ASSUME SettingsAssumption, Course, Deliveries, [DedicatedNext]_dedicatedVars
  PROVE  Deliveries'
<1>1. CASE Received
  BY <1>1, ReceivedCounts
<1>2. CASE SequenceComplete
  BY <1>2, SequenceCounts
<1>3. CASE ReceivedLate
  <2>1. Moves /\ Doing("receive") /\ Waits
    BY <1>3, ReceiveActions
  <2>2. /\ matched' = matched /\ unmatched' = unmatched /\ progress' = progress
        /\ late' = TRUE /\ extra' = [extra EXCEPT ![Endpoint(Step.who)] = TRUE]
    BY <1>3 DEF ReceivedLate, receiveVars
  <2>3. args' = args /\ at' = at /\ Step' = Step /\ InRange' = InRange /\ verdict' = verdict
    BY <2>1 DEF Moves, Waits, Step, InRange
  <2>4. Now' = Now
    BY <2>1, <2>3, NowMoves, StepFits DEF Goes
  <2>5. \A e : Expected(args, e)' = Expected(args, e)
    BY <2>3
  <2>6. \A e : Reached(e)' = Reached(e)
    BY <2>2, <2>3, <2>4 DEF Reached
  <2>7. Counts'
    BY <2>2, <2>3, <2>5 DEF Counts, Deliveries
  <2>8. verdict # "failed" => Evidence'
    BY <2>2, <2>3, <2>6 DEF Evidence, Deliveries
  <2> QED
    BY <2>3, <2>7, <2>8 DEF Deliveries
<1>4. CASE TrailingMessage
  <2>1. Moves /\ Doing("receive") /\ Stops
    BY <1>4, ReceiveActions
  <2>2. PICK message : Give(Endpoint(Step.who), message)
    BY <1>4 DEF TrailingMessage
  <2>3. matched' = matched /\ unmatched' = unmatched /\ args' = args /\ verdict' = "failed"
    BY <1>4, <2>1 DEF TrailingMessage, receiveVars, Moves, Stops
  <2>4. /\ progress' \in [Endpoints -> Nat] /\ DOMAIN extra' = Endpoints
        /\ \A d \in Endpoints : progress'[d] <= Len(Expected(args, d))
    BY <2>1, <2>2, ReceiveIs, GiveIs DEF Deliveries
  <2>5. \A e : Expected(args, e)' = Expected(args, e)
    BY <2>3
  <2>6. Counts'
    BY <2>3, <2>4, <2>5 DEF Counts, Deliveries
  <2> QED
    BY <2>3, <2>6 DEF Deliveries
<1>5. CASE \/ OpenClient \/ CloseClient \/ AwaitReplaced \/ Identities \/ get_contacts
           \/ resolve_channel \/ Secrets \/ Queries
  <2>1. Moves /\ Step.do # "receive"
    BY <1>5, QuietActions, StepActions DEF Doing
  <2>2. UNCHANGED <<receiveVars, progress, extra, late>>
    BY <1>5 DEF OpenClient, CloseClient, AwaitReplaced, Identities, get_contacts,
      resolve_channel, Secrets, Queries, historyVars
  <2> QED
    BY <2>1, <2>2, DeliveriesStay
<1>6. CASE AttachCollector \/ SendMessage \/ require_token \/ PushAny
  <2>1. Moves /\ Step.do # "receive"
    BY <1>6, StepActions DEF Doing
  <2>2. UNCHANGED <<receiveVars, progress, extra, late>>
    BY <1>6 DEF AttachCollector, SendMessage, require_token, PushAny, historyVars
  <2> QED
    BY <2>1, <2>2, DeliveriesStay
<1>7. CASE \/ Return \/ Fail \/ Arrive \/ Acknowledge \/ DisconnectAll
           \/ UNCHANGED dedicatedVars
  <2>1. Moves /\ ~ Goes
    BY <1>7, QuietActions
  <2>2. UNCHANGED <<receiveVars, progress, extra, late>>
    BY <1>7 DEF Return, Fail, Arrive, Acknowledge, DisconnectAll, dedicatedVars, historyVars
  <2> QED
    BY <2>1, <2>2, DeliveriesStay
<1> QED
  BY <1>1, <1>2, <1>3, <1>4, <1>5, <1>6, <1>7 DEF DedicatedNext, RunStep

-----------------------------------------------------------------------------
(* The theorems                                                            *)

DedicatedInvariant ==
  Course /\ Connections /\ Fences /\ Sends /\ Acks /\ Deliveries

LEMMA DedicatedInvariantInit ==
  ASSUME SettingsAssumption, DedicatedInit
  PROVE  DedicatedInvariant
<1>1. args \in Settings /\ args \in Arguments
  BY DEF DedicatedInit, SettingsAssumption
<1>2. Course
  BY <1>1, LabelsExist DEF DedicatedInit, Course
<1>3. Now = NothingYet
  BY <1>1, LabelsExist DEF DedicatedInit, Now, Labelling
<1>4. /\ Now.known = {} /\ Now.attached = {} /\ Now.sent = {} /\ Now.shown = {}
      /\ \A e \in Endpoints : Now.given[e] = 0
  BY <1>3, NothingYetIs DEF NothingYet
<1>5. Connections
  BY DEF DedicatedInit, Connections
<1>6. Fences
  BY <1>4 DEF DedicatedInit, Fences
<1>7. Sends
  <2>1. transmitted = {} /\ used = 0 /\ IsFiniteSet({}) /\ Cardinality({}) = 0
    BY FS_EmptySet DEF DedicatedInit
  <2>2. {Marked(b) : b \in Now.sent} = {}
    BY <1>4
  <2>3. args.max_radio_sends \in Nat
    BY <1>1 DEF Arguments
  <2> QED
    BY <1>4, <2>1, <2>2, <2>3 DEF Sends
<1>8. Acks
  <2>1. DOMAIN queues = {}
    BY DEF DedicatedInit
  <2> QED
    BY <1>4, <2>1 DEF Acks
<1>9. Deliveries
  <2>1. /\ matched = 0 /\ unmatched = 0
        /\ progress \in [Endpoints -> Nat] /\ DOMAIN extra = Endpoints
        /\ \A e \in Endpoints : progress[e] = 0 /\ ~ extra[e]
    BY DEF DedicatedInit
  <2>2. \A e \in Endpoints : progress[e] <= Len(Expected(args, e))
    BY <1>2, <2>1, ExpectedLength
  <2>3. \A e \in Endpoints : Reached(e) = 0
    BY <1>4, <2>1 DEF Reached
  <2> QED
    BY <2>1, <2>2, <2>3 DEF Deliveries, Counts, Evidence
<1> QED
  BY <1>2, <1>5, <1>6, <1>7, <1>8, <1>9 DEF DedicatedInvariant

LEMMA DedicatedInvariantStep ==
  ASSUME SettingsAssumption, DedicatedInvariant, [DedicatedNext]_dedicatedVars
  PROVE  DedicatedInvariant'
<1>1. Course'
  BY NextMoves, CourseStep DEF DedicatedInvariant
<1>2. Connections'
  BY ConnectionsStep DEF DedicatedInvariant
<1>3. Fences'
  BY FencesStep DEF DedicatedInvariant
<1>4. Sends'
  BY SendsStep DEF DedicatedInvariant
<1>5. Acks'
  BY AcksStep DEF DedicatedInvariant
<1>6. Deliveries'
  BY DeliveriesStep DEF DedicatedInvariant
<1> QED
  BY <1>1, <1>2, <1>3, <1>4, <1>5, <1>6 DEF DedicatedInvariant

\* A run of the script keeps to its course and its ledgers: what a ledger says
\* of keys, messages and acknowledgements when a step of run() begins is true.
THEOREM LedgersAreTrue == DedicatedSpec => []DedicatedInvariant
<1>1. DedicatedInit => DedicatedInvariant
  BY SettingsAssumption, DedicatedInvariantInit
<1>2. DedicatedInvariant /\ [DedicatedNext]_dedicatedVars => DedicatedInvariant'
  BY SettingsAssumption, DedicatedInvariantStep
<1> QED
  BY <1>1, <1>2, PTL DEF DedicatedSpec

\* When the script says "ok" after an executed run, all the evidence is in its
\* last ledger.
LEMMA OkIsComplete ==
  ASSUME SettingsAssumption, DedicatedInvariant, Executed
  PROVE  Complete(args, Now) /\ matched = 0
<1>1. Course /\ at = Len(Program(args)) + 1 /\ args.execute /\ verdict = "ok"
  BY DEF DedicatedInvariant, Course, Executed
<1>2. args \in Settings /\ Len(Program(args)) \in Nat
  BY <1>1, StepFits
<1>3. Complete(args, Now)
  BY <1>1, <1>2, LabelsExist DEF Labelling, Now
<1>4. ~ InRange
  BY <1>1, <1>2 DEF InRange
<1> QED
  BY <1>1, <1>3, <1>4 DEF DedicatedInvariant, Deliveries, Evidence

LEMMA ClientsLeft ==
  DedicatedInvariant => LeavesNothing
BY DEF DedicatedInvariant, Connections, Refused, LeavesNothing

LEMMA SendsCounted ==
  ASSUME SettingsAssumption, DedicatedInvariant
  PROVE  SendsAreFenced
<1>1. Sends /\ Course
  BY DEF DedicatedInvariant
<1>2. args \in Settings /\ args \in Arguments
  BY <1>1, StepFits
<1>3. Cardinality(transmitted) <= args.max_radio_sends
  <2>1. Cardinality(transmitted) \in Nat
    BY <1>1, FS_CardinalityType DEF Sends
  <2>2. args.max_radio_sends \in Nat
    BY <1>2 DEF Arguments
  <2> QED
    BY <1>1, <2>1, <2>2 DEF Sends
<1>4. ASSUME Executed
      PROVE  /\ used = Cardinality(transmitted)
             /\ used = RadioSends(args)
  <2>1. Now.sent = 1 .. 5 + args.ports + (IF args.channel THEN 1 ELSE 0)
    BY <1>4, OkIsComplete DEF Complete
  <2>2. used = Cardinality(transmitted) /\ used = Cardinality(Now.sent)
    BY <1>1, <1>4 DEF Sends, Executed
  <2>3. args.ports \in Nat
    BY <1>2, PortsAre
  <2> DEFINE n == 5 + args.ports + (IF args.channel THEN 1 ELSE 0)
  <2>4. n \in Nat /\ n >= 1
    BY <2>3
  <2>5. n = RadioSends(args)
    BY <2>3 DEF RadioSends
  <2> HIDE DEF n
  <2>6. Cardinality(1 .. n) = n
    BY <2>4, FS_Interval
  <2> QED
    BY <2>1, <2>2, <2>5, <2>6 DEF n
<1> QED
  BY <1>1, <1>3, <1>4 DEF Sends, SendsAreFenced

LEMMA EvidenceComplete ==
  ASSUME SettingsAssumption, DedicatedInvariant, Executed
  PROVE  \A e \in UsedEndpoints :
           /\ e \in Endpoints
           /\ Reached(e) = Len(Expected(args, e))
           /\ progress[e] = Len(Expected(args, e))
<1>1. Complete(args, Now) /\ matched = 0 /\ Course /\ Evidence /\ Counts
  BY OkIsComplete DEF DedicatedInvariant, Deliveries, Executed
<1>2. TAKE e \in UsedEndpoints
<1>3. e \in Endpoints
  <2>1. args \in Settings
    BY <1>1, StepFits
  <2>2. Range(Ports(args)) \subseteq Endpoints
    BY <2>1, PortsAre DEF Range
  <2> QED
    BY <1>2, <2>2 DEF UsedEndpoints, Endpoints
<1>4. Now.given[e] = Len(Expected(args, e)) /\ Len(Expected(args, e)) \in Nat
  BY <1>1, <1>2, <1>3, ExpectedLength DEF Complete, UsedEndpoints
<1>5. Reached(e) = Len(Expected(args, e))
  BY <1>1, <1>4 DEF Reached
<1>6. progress[e] \in Nat /\ progress[e] >= Reached(e) /\ progress[e] <= Len(Expected(args, e))
  BY <1>1, <1>3 DEF Evidence, Counts
<1> QED
  BY <1>3, <1>4, <1>5, <1>6

\* However the script ends, close_client and disconnect leave no connection
\* behind but one that connect() refused for the identity of the other side.
THEOREM NothingIsLeft == DedicatedSpec => []LeavesNothing
BY LedgersAreTrue, ClientsLeft, PTL

\* send_dm and send_channel never exceed the SendBudget and never transmit to
\* anyone but the other radio of the run, whatever contacts and channels the
\* radios list; without --execute nothing is transmitted; "ok" counts them all.
THEOREM OnlyFencedSends == DedicatedSpec => []SendsAreFenced
<1>1. DedicatedInvariant => SendsAreFenced
  BY SettingsAssumption, SendsCounted
<1> QED
  BY <1>1, LedgersAreTrue, PTL

\* "ok" of the script is evidence: receive_sequence saw every marked message
\* handed to each endpoint, genuine and in order, and require_token saw the
\* acknowledgements, whatever the multiplexer and the radios did.
THEOREM OkIsEvidence == DedicatedSpec => []EvidenceInOrder
<1>1. DedicatedInvariant => EvidenceInOrder
  <2>1. ASSUME DedicatedInvariant, Executed
        PROVE  Complete(args, Now) /\ Now.shown \subseteq acked
    BY <2>1, SettingsAssumption, OkIsComplete DEF DedicatedInvariant, Acks, Executed
  <2>2. ASSUME DedicatedInvariant, Executed
        PROVE  \A e \in UsedEndpoints : progress[e] = Len(Expected(args, e))
    BY <2>2, SettingsAssumption, EvidenceComplete
  <2>3. ASSUME DedicatedInvariant, Executed
        PROVE  /\ (1 .. 1 + args.ports) \X Shared(args) \subseteq acked
               /\ ({Inbound(args), TakeoverMarker(args)} \cup Range(Retained(args)))
                    \X {Peer} \subseteq acked
    <3> HIDE DEF Range, Shared
    <3> QED
      BY <2>1, <2>3 DEF Complete
  <2> QED
    BY <2>2, <2>3 DEF EvidenceInOrder
<1> QED
  BY <1>1, LedgersAreTrue, PTL

\* In a strict run the checks of receive_sequence (no unmatched message, and
\* nothing after the last one) leave no room for a copy or a foreign message.
THEOREM StrictIsExact == DedicatedSpec => []NothingElse
<1>1. DedicatedInvariant => NothingElse
  <2> SUFFICES ASSUME DedicatedInvariant, Executed, args.max_unmatched = 0, ~ late
               PROVE  \A e \in UsedEndpoints : ~ extra[e]
    BY DEF NothingElse
  <2>1. Evidence
    BY DEF DedicatedInvariant, Deliveries, Executed
  <2>2. \A e \in UsedEndpoints : e \in Endpoints
    BY SettingsAssumption, EvidenceComplete
  <2> QED
    BY <2>1, <2>2 DEF Evidence
<1> QED
  BY <1>1, LedgersAreTrue, PTL
=============================================================================
