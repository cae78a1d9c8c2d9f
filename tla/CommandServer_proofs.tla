------------------------ MODULE CommandServer_proofs ------------------------
(***************************************************************************)
(* Proofs about module CommandServer, for any number of connections and of *)
(* requests, pipelined or not: type correctness, that whole requests are   *)
(* executed in order, and what holds of the first connection.              *)
(***************************************************************************)
EXTENDS CommandServer, SequenceTheorems, WellFoundedInduction, TLAPS

USE DEF Beginning, Whole, Spoilt

(* The place of a fragment on its connection, counted from 1; a run of     *)
(* fragments of one connection, from the place after t on.                 *)
Pos(f) == IF f.part = Beginning THEN 2 * f.of[2] - 1 ELSE 2 * f.of[2]
IsRun(q, s, t) == \A i \in 1..Len(q) : q[i].of[1] = s /\ Pos(q[i]) = t + i

LEMMA FragmentPos ==
  ASSUME NEW f \in Fragment
  PROVE  /\ f.of \in Request /\ f.of[1] \in Session /\ f.of[2] \in 1..Requests
         /\ f.part \in {Beginning, Whole, Spoilt} /\ Pos(f) \in Nat
         /\ f.part = Beginning => Pos(f) = 2 * f.of[2] - 1
         /\ f.part # Beginning => Pos(f) = 2 * f.of[2]
         /\ f.part = Whole => f.of \notin Damaged
         /\ f.part = Spoilt => f.of \in Damaged
BY ServerAssumption DEF Fragment, Request, Session, Pos, Rest

LEMMA SuffixOfRun ==
  ASSUME NEW q \in Seq(Fragment), NEW k \in 0..Len(q), NEW s, NEW t \in Int
  PROVE  LET r == SubSeq(q, k + 1, Len(q))
         IN /\ r \in Seq(Fragment) /\ Len(r) = Len(q) - k
            /\ \A i \in 1..Len(r) : r[i] = q[k + i]
            /\ IsRun(q, s, t) => IsRun(r, s, t + k)
<1> DEFINE r == SubSeq(q, k + 1, Len(q))
<1>1. Len(q) \in Nat /\ \A i \in 1..Len(q) : q[i] \in Fragment
  BY LenProperties, ElementOfSeq
<1>2. /\ r \in Seq(Fragment) /\ Len(r) = Len(q) - k
      /\ \A i \in 1..(Len(q) - k) : r[i] = q[k + i]
  <2>1. \A i \in (k + 1)..Len(q) : q[i] \in Fragment
    BY <1>1
  <2>2. /\ r \in Seq(Fragment)
        /\ Len(r) = IF k + 1 <= Len(q) THEN Len(q) - (k + 1) + 1 ELSE 0
        /\ \A i \in 1..(Len(q) - (k + 1) + 1) : r[i] = q[(k + 1) + i - 1]
    BY <1>1, <2>1, SubSeqProperties
  <2> QED
    BY <1>1, <2>2
<1> HIDE DEF r
<1>3. IsRun(q, s, t) => IsRun(r, s, t + k)
  <2> SUFFICES ASSUME IsRun(q, s, t), NEW i \in 1..Len(r)
               PROVE  r[i].of[1] = s /\ Pos(r[i]) = t + k + i
    BY DEF IsRun
  <2>1. k + i \in 1..Len(q) /\ r[i] = q[k + i]
    BY <1>1, <1>2
  <2> QED
    BY <1>1, <2>1 DEF IsRun
<1> QED
  BY <1>2, <1>3 DEF r

LEMMA PrefixOfRun ==
  ASSUME NEW q \in Seq(Fragment), NEW k \in 0..Len(q), NEW s, NEW t
  PROVE  LET r == SubSeq(q, 1, k)
         IN /\ r \in Seq(Fragment) /\ Len(r) = k
            /\ IsRun(q, s, t) => IsRun(r, s, t)
<1> DEFINE r == SubSeq(q, 1, k)
<1>1. Len(q) \in Nat /\ \A i \in 1..Len(q) : q[i] \in Fragment
  BY LenProperties, ElementOfSeq
<1>2. r \in Seq(Fragment) /\ Len(r) = k /\ \A i \in 1..k : r[i] = q[i]
  BY <1>1, SubSeqProperties
<1> HIDE DEF r
<1>3. IsRun(q, s, t) => IsRun(r, s, t)
  BY <1>1, <1>2 DEF IsRun
<1> QED
  BY <1>2, <1>3 DEF r

LEMMA RunsJoined ==
  ASSUME NEW q \in Seq(Fragment), NEW r \in Seq(Fragment), NEW s, NEW t \in Int
  PROVE  /\ q \o r \in Seq(Fragment) /\ Len(q \o r) = Len(q) + Len(r)
         /\ IsRun(q, s, t) /\ IsRun(r, s, t + Len(q)) => IsRun(q \o r, s, t)
<1> DEFINE b == q \o r
<1>1. /\ b \in Seq(Fragment) /\ Len(b) = Len(q) + Len(r)
      /\ \A i \in 1..(Len(q) + Len(r)) : b[i] = IF i <= Len(q) THEN q[i] ELSE r[i - Len(q)]
      /\ Len(q) \in Nat /\ Len(r) \in Nat
  BY ConcatProperties, LenProperties
<1> HIDE DEF b
<1>2. ASSUME IsRun(q, s, t), IsRun(r, s, t + Len(q)) PROVE IsRun(b, s, t)
  <2> SUFFICES ASSUME NEW i \in 1..Len(b)
               PROVE  b[i].of[1] = s /\ Pos(b[i]) = t + i
    BY DEF IsRun
  <2>1. CASE i <= Len(q)
    BY <1>1, <1>2, <2>1 DEF IsRun
  <2>2. CASE i > Len(q)
    <3>1. i - Len(q) \in 1..Len(r) /\ b[i] = r[i - Len(q)]
      BY <1>1, <2>2
    <3>2. Pos(r[i - Len(q)]) = (t + Len(q)) + (i - Len(q))
      BY <1>2, <3>1 DEF IsRun
    <3> QED
      BY <1>1, <1>2, <3>1, <3>2 DEF IsRun
  <2> QED
    BY <1>1, <2>1, <2>2
<1> QED
  BY <1>1, <1>2 DEF b

(* A set of numbers has a least one.                                       *)
LEMMA Least ==
  ASSUME NEW T, T \subseteq Nat, T # {}
  PROVE  \E x \in T : \A y \in T : x <= y
<1> DEFINE Less == {d \in Nat \X Nat : d[1] < d[2]}
<1>1. IsWellFoundedOn(Less, Nat)
  <2>1. Less = OpToRel(<, Nat)
    BY DEF OpToRel
  <2> HIDE DEF Less
  <2> QED
    BY <2>1, NatLessThanWellFounded
<1> HIDE DEF Less
<1>2. PICK x \in T : \A y \in T : ~(<<y, x>> \in Less)
  BY <1>1, WFMin
<1>3. ASSUME NEW y \in T PROVE x <= y
  <2>1. ~(<<y, x>> \in Less) /\ x \in Nat /\ y \in Nat
    BY <1>2
  <2> QED
    BY <2>1 DEF Less
<1> QED
  BY <1>3

(* Beginnings are at odd places.                                           *)
LEMMA OddIsNotEven == ASSUME NEW m \in Int, NEW n \in Int PROVE 2 * m # 2 * n - 1
OBVIOUS

(* A packet that ends where the buffer goes on takes every fragment until  *)
(* a request is whole: what it passes over was spoilt or only begun.       *)
LEMMA DrainedRun ==
  ASSUME NEW b \in Seq(Fragment), b # <<>>, NEW p \in Fragment \cup {Blank},
         NEW s, NEW t \in Int, IsRun(b, s, t),
         p.part # 0 => Pos(p) = t, p.part = 0 => \E m \in Int : t = 2 * m
  PROVE  \E n \in 1..Len(b) :
           /\ Drained(b, p) = [packet |-> b[n], rest |-> SubSeq(b, n + 1, Len(b)),
                               received |-> b[n].part = Whole]
           /\ \A i \in 1..(n - 1) : b[i].part # Whole
<1> DEFINE whole == {i \in 1..Len(b) : b[i].part = Whole /\ Push(p, b, i)}
<1>1. /\ DOMAIN b = 1..Len(b) /\ Len(b) \in Nat \ {0}
      /\ \A i \in 1..Len(b) : b[i] \in Fragment
  BY EmptySeq, LenProperties, ElementOfSeq
<1>2. \A i \in 1..Len(b) : Push(p, b, i)
  <2>1. ASSUME b[1].part # Beginning PROVE p.part = Beginning
    <3>1. b[1] \in Fragment /\ Pos(b[1]) = t + 1
      BY <1>1 DEF IsRun
    <3>2. b[1].of[2] \in Int /\ t + 1 = 2 * b[1].of[2]
      BY <2>1, <3>1, FragmentPos, ServerAssumption
    <3>3. ASSUME NEW m \in Int, t = 2 * m PROVE FALSE
      <4>1. 2 * m = 2 * b[1].of[2] - 1
        BY <3>2, <3>3
      <4> QED
        BY <3>2, <4>1, OddIsNotEven
    <3>4. p.part # 0 /\ p \in Fragment
      <4>1. p.part # 0
        BY <3>3
      <4> QED
        BY <4>1 DEF Blank
    <3>5. p.part # Beginning => p.of[2] \in Int /\ t = 2 * p.of[2]
      BY <3>4, FragmentPos, ServerAssumption
    <3> QED
      BY <3>3, <3>5
  <2> QED
    BY <1>1, <2>1 DEF Push
<1>3. whole = {i \in 1..Len(b) : b[i].part = Whole}
  BY <1>2
<1>4. CASE whole = {}
  <2>1. Len(b) \in 1..Len(b) /\ \A i \in 1..Len(b) : b[i].part # Whole
    BY <1>1, <1>3, <1>4
  <2>2. Drained(b, p) = [packet |-> b[Len(b)], rest |-> SubSeq(b, Len(b) + 1, Len(b)),
                         received |-> FALSE]
    BY <1>1, <1>2, <1>4, <2>1 DEF Drained
  <2>3. Drained(b, p) = [packet |-> b[Len(b)], rest |-> SubSeq(b, Len(b) + 1, Len(b)),
                         received |-> b[Len(b)].part = Whole]
    BY <2>1, <2>2
  <2>4. \A i \in 1..(Len(b) - 1) : b[i].part # Whole
    BY <1>1, <2>1
  <2> QED
    BY <2>1, <2>3, <2>4
<1>5. CASE whole # {}
  <2>1. PICK n \in whole : \A j \in whole : n <= j
    <3>1. whole \subseteq Nat
      BY <1>1
    <3> HIDE DEF whole
    <3> QED
      BY <1>5, <3>1, Least
  <2>2. n \in 1..Len(b) /\ b[n].part = Whole
    BY <2>1
  <2>3. (CHOOSE i \in whole : \A j \in whole : i <= j) = n
    BY <1>1, <2>1
  <2>4. Drained(b, p) = [packet |-> b[n], rest |-> SubSeq(b, n + 1, Len(b)),
                         received |-> TRUE]
    BY <1>1, <1>2, <1>5, <2>2, <2>3 DEF Drained
  <2>5. \A i \in 1..(n - 1) : b[i].part # Whole
    BY <1>1, <1>3, <2>1, <2>2
  <2>6. Drained(b, p) = [packet |-> b[n], rest |-> SubSeq(b, n + 1, Len(b)),
                         received |-> b[n].part = Whole]
    BY <2>2, <2>4
  <2> QED
    BY <2>2, <2>5, <2>6
<1> QED
  BY <1>4, <1>5

-----------------------------------------------------------------------------
(* The network: type correctness, and where the fragments are.             *)

(* How many of the connection's fragments have been pushed into the packet. *)
Pushed == 2 * sent[session] - Len(wire[session]) - Len(rxBuffer)

(* What is on the wire is what was sent last.                              *)
OnTheWire ==
  \A s \in Session :
    /\ IsRun(wire[s], s, 2 * sent[s] - Len(wire[s]))
    /\ s > session => Len(wire[s]) = 2 * sent[s] /\ got[s] = <<>>

(* Before the first connection.                                            *)
Untouched ==
  session = 0 => /\ state = "listening" /\ txBuffer = <<>> /\ executed = <<>>
                 /\ requestPacket = Blank /\ ~requestReceived
                 /\ at = "poll" /\ request = Blank

(* What has arrived goes on where the packet ends.                         *)
Arrived ==
  session > 0 =>
    /\ IsRun(rxBuffer, session, Pushed)
    /\ requestPacket.part = 0 => \E m \in Int : Pushed = 2 * m
    /\ requestPacket.part > 0
         => requestPacket.of[1] = session /\ Pos(requestPacket) = Pushed
    /\ requestReceived <=> requestPacket.part = Whole

Network == TypeOK /\ OnTheWire /\ Untouched /\ Arrived

LEMMA NetworkInit == Init => Network
<1> SUFFICES ASSUME Init PROVE Network
  OBVIOUS
<1>1. /\ <<>> \in Seq(Fragment) /\ <<>> \in Seq(Request \cup {None})
      /\ <<>> \in Seq(Fragment \cup {Blank}) /\ Len(<<>>) = 0
  BY EmptySeq
<1>2. TypeOK
  <2>1. wire \in [Session -> Seq(Fragment)] /\ got \in [Session -> Seq(Request \cup {None})]
    BY <1>1 DEF Init
  <2>2. sent \in [Session -> 0..Requests] /\ connected \in 0..Sessions /\ session \in 0..Sessions
    BY ServerAssumption DEF Init
  <2> QED
    BY <1>1, <2>1, <2>2 DEF Init, TypeOK
<1>3. OnTheWire
  BY <1>1 DEF Init, OnTheWire, IsRun
<1> QED
  BY <1>2, <1>3 DEF Network, Init, Untouched, Arrived

(* What the network looks like to a session that has begun.                *)
LEMMA PushedInt ==
  ASSUME TypeOK, session # 0
  PROVE  /\ session \in Session /\ wire[session] \in Seq(Fragment)
         /\ sent[session] \in Nat /\ Len(wire[session]) \in Nat
         /\ Len(rxBuffer) \in Nat /\ Pushed \in Int
<1>1. session \in Session
  BY ServerAssumption DEF TypeOK, Session
<1> QED
  BY <1>1, ServerAssumption, LenProperties DEF TypeOK, Pushed

(* The clients.                                                            *)
LEMMA SendRequestNetwork ==
  ASSUME Network, NEW s \in Session, SendRequest(s)
  PROVE  Network' /\ (session # 0 => Pushed' = Pushed)
<1> DEFINE r == <<s, sent[s] + 1>>
           f == [of |-> r, part |-> Beginning]
           g == [of |-> r, part |-> Rest(r)]
           w == wire[s]
           two == <<f, g>>
<1>1. /\ wire' = [wire EXCEPT ![s] = w \o two] /\ sent' = [sent EXCEPT ![s] = @ + 1]
      /\ UNCHANGED <<connected, closed, got, server, manager>>
      /\ sent[s] \in 0..Requests /\ sent[s] + 1 \in 1..Requests /\ w \in Seq(Fragment)
      /\ wire \in [Session -> Seq(Fragment)] /\ sent \in [Session -> 0..Requests]
  BY ServerAssumption DEF SendRequest, Network, TypeOK
<1>2. f \in Fragment /\ g \in Fragment
  <2>1. r \in Request /\ Rest(r) \in 1..3
    BY <1>1 DEF Request, Rest
  <2> HIDE DEF r
  <2>2. /\ f \in [of: Request, part: 1..3] /\ f.of = r /\ f.part = Beginning
        /\ g \in [of: Request, part: 1..3] /\ g.of = r /\ g.part = Rest(r)
    BY <2>1
  <2> QED
    BY <2>2 DEF Fragment
<1>3. /\ two \in Seq(Fragment) /\ Len(two) = 2 /\ Len(w) \in Nat
      /\ two[1] = f /\ two[2] = g
  BY <1>1, <1>2, LenProperties
<1>4. IsRun(two, s, 2 * sent[s])
  <2>1. /\ sent[s] \in Nat /\ f.of[1] = s /\ g.of[1] = s
        /\ Pos(f) = 2 * sent[s] + 1 /\ Pos(g) = 2 * sent[s] + 2
    <3>1. sent[s] \in Nat
      BY <1>1, ServerAssumption
    <3>2. f.of = r /\ g.of = r /\ f.part = Beginning /\ g.part # Beginning
      BY DEF Rest
    <3>3. r[1] = s /\ r[2] = sent[s] + 1
      OBVIOUS
    <3> HIDE DEF f, g, r
    <3> QED
      BY <3>1, <3>2, <3>3 DEF Pos
  <2> HIDE DEF f, g, two
  <2> QED
    BY <1>3, <2>1 DEF IsRun
<1>5. /\ w \o two \in Seq(Fragment) /\ Len(w \o two) = Len(w) + 2
      /\ IsRun(w \o two, s, 2 * sent[s] - Len(w))
  <2>1. IsRun(w, s, 2 * sent[s] - Len(w)) /\ 2 * sent[s] - Len(w) \in Int
    BY <1>1, <1>3, ServerAssumption DEF Network, OnTheWire
  <2>2. (2 * sent[s] - Len(w)) + Len(w) = 2 * sent[s]
    BY <1>1, <1>3, ServerAssumption
  <2> QED
    BY <1>1, <1>3, <1>4, <2>1, <2>2, RunsJoined
<1> HIDE DEF two, w
<1>6. /\ wire'[s] = w \o two /\ sent'[s] = sent[s] + 1
      /\ \A q \in Session : q # s => wire'[q] = wire[q] /\ sent'[q] = sent[q]
      /\ 2 * sent'[s] - Len(wire'[s]) = 2 * sent[s] - Len(w)
  BY <1>1, <1>3, <1>5, ServerAssumption
<1>7. TypeOK'
  <2>1. wire' \in [Session -> Seq(Fragment)] /\ sent' \in [Session -> 0..Requests]
    BY <1>1, <1>5
  <2> QED
    BY <1>1, <2>1 DEF Network, TypeOK, server, manager
<1>8. OnTheWire'
  BY <1>1, <1>3, <1>5, <1>6, ServerAssumption, SMTT(30) DEF Network, OnTheWire, server, w
<1>9. session # 0 => Pushed' = Pushed
  BY <1>1, <1>6, PushedInt DEF Network, Pushed, server, w
<1>10. Untouched' /\ Arrived'
  BY <1>1, <1>9 DEF Network, Untouched, Arrived, server, manager
<1> QED
  BY <1>7, <1>8, <1>9, <1>10 DEF Network

LEMMA ConnectionsNetwork ==
  ASSUME Network, Connect \/ \E s \in Session : Disconnect(s)
  PROVE  Network' /\ (session # 0 => Pushed' = Pushed)
<1>1. UNCHANGED <<wire, sent, got, server, manager>>
  BY DEF Connect, Disconnect
<1>2. connected' \in 0..Sessions /\ closed' \subseteq Session
  BY ServerAssumption DEF Connect, Disconnect, Network, TypeOK
<1>3. TypeOK'
  BY <1>1, <1>2 DEF Network, TypeOK, server, manager
<1>4. Pushed' = Pushed
  BY <1>1 DEF Pushed, server
<1> QED
  BY <1>1, <1>3, <1>4 DEF Network, OnTheWire, Untouched, Arrived, server, manager

(* The server thread.                                                      *)
LEMMA AcceptNetwork ==
  ASSUME Network, Accept
  PROVE  Network' /\ Pushed' = 0
<1>1. /\ session' = session + 1 /\ state' = "session"
      /\ rxBuffer' = <<>> /\ txBuffer' = <<>>
      /\ requestPacket' = Blank /\ requestReceived' = FALSE
      /\ UNCHANGED <<clients, manager>>
      /\ session \in 0..Sessions /\ session < connected /\ connected \in 0..Sessions
  BY DEF Accept, Network, TypeOK
<1>2. /\ <<>> \in Seq(Fragment) /\ <<>> \in Seq(Request \cup {None}) /\ Len(<<>>) = 0
  BY EmptySeq
<1>3. session' \in Session /\ session' > session /\ session' > 0
  BY <1>1, ServerAssumption DEF Session
<1>4. TypeOK'
  <2>1. session' \in 0..Sessions /\ state' \in {"listening", "session"}
    BY <1>1, ServerAssumption
  <2>2. requestPacket' \in Fragment \cup {Blank} /\ requestReceived' \in BOOLEAN
    BY <1>1
  <2> QED
    BY <1>1, <1>2, <2>1, <2>2 DEF Network, TypeOK, clients, manager
<1>5. OnTheWire'
  <2> SUFFICES ASSUME NEW s \in Session
               PROVE  /\ IsRun(wire[s], s, 2 * sent[s] - Len(wire[s]))
                      /\ s > session' => Len(wire[s]) = 2 * sent[s] /\ got[s] = <<>>
    BY <1>1 DEF OnTheWire, clients
  <2>1. s > session' => s > session
    BY <1>1, ServerAssumption DEF Session
  <2> QED
    BY <2>1 DEF Network, OnTheWire
<1>6. Pushed' = 0
  <2>1. /\ Len(wire[session']) = 2 * sent[session'] /\ sent[session'] \in Nat
    BY <1>3, ServerAssumption DEF Network, OnTheWire, TypeOK
  <2> QED
    BY <1>1, <1>2, <2>1 DEF Pushed, clients
<1>7. Arrived'
  <2>1. IsRun(rxBuffer', session', Pushed')
    BY <1>1, <1>2 DEF IsRun
  <2>2. requestPacket'.part = 0 /\ Pushed' = 2 * 0 /\ requestReceived' = FALSE
    BY <1>1, <1>6 DEF Blank
  <2> QED
    BY <2>1, <2>2 DEF Arrived
<1>8. Untouched'
  BY <1>3 DEF Untouched
<1> QED
  BY <1>4, <1>5, <1>6, <1>7, <1>8 DEF Network

LEMMA DisconnectedNetwork ==
  ASSUME Network, Disconnected
  PROVE  Network' /\ (session # 0 => Pushed' = Pushed)
BY DEF Disconnected, Hangup, Network, TypeOK, OnTheWire, Untouched, Arrived, Pushed,
       clients, manager

(* What doSend puts on the connection.                                     *)
LEMMA TransmitNetwork ==
  ASSUME TypeOK, session \in Session, NEW n \in 0..Len(txBuffer), Transmit(n)
  PROVE  /\ txBuffer' \in Seq(Request \cup {None})
         /\ got' \in [Session -> Seq(Request \cup {None})]
         /\ \A s \in Session : s # session => got'[s] = got[s]
<1>1. /\ txBuffer \in Seq(Request \cup {None}) /\ got \in [Session -> Seq(Request \cup {None})]
      /\ Len(txBuffer) \in Nat /\ \A i \in 1..Len(txBuffer) : txBuffer[i] \in Request \cup {None}
  BY LenProperties, ElementOfSeq DEF TypeOK
<1>2. /\ SubSeq(txBuffer, n + 1, Len(txBuffer)) \in Seq(Request \cup {None})
      /\ SubSeq(txBuffer, 1, n) \in Seq(Request \cup {None})
  BY <1>1, SubSeqProperties
<1>3. got[session] \o SubSeq(txBuffer, 1, n) \in Seq(Request \cup {None})
  BY <1>1, <1>2, ConcatProperties
<1> QED
  BY <1>1, <1>2, <1>3 DEF Transmit

(* A turn with the connection up: what comes off the wire goes through     *)
(* rxBuffer into the packet, which goes on by what is pushed.              *)
LEMMA ServeNetwork ==
  ASSUME Network, Serve
  PROVE  /\ Network' /\ session \in Session /\ Pushed' \in Int
         /\ \/ Pushed' = Pushed /\ UNCHANGED <<requestPacket, requestReceived>>
            \/ /\ ~requestReceived /\ requestPacket' \in Fragment /\ Pushed' > Pushed
               /\ \A q \in Request :
                    q[1] = session /\ 2 * q[2] > Pushed /\ 2 * q[2] < Pushed' => q \in Damaged
<1>1. session # 0 /\ UNCHANGED <<connected, closed, sent, state, session, manager>>
  BY DEF Serve, Network, Untouched
<1>2. /\ session \in Session /\ wire[session] \in Seq(Fragment)
      /\ sent[session] \in Nat /\ Len(wire[session]) \in Nat
      /\ Len(rxBuffer) \in Nat /\ Pushed \in Int
  BY <1>1, PushedInt DEF Network
<1> DEFINE w == wire[session]
<1>3. PICK k \in 0..Len(w) : \E n \in 0..Len(txBuffer) :
        /\ k > 0 \/ n > 0
        /\ wire' = [wire EXCEPT ![session] = SubSeq(@, k + 1, Len(@))]
        /\ LET buffer == rxBuffer \o SubSeq(w, 1, k)
               d == Drained(buffer, requestPacket)
           IN IF k > 0 /\ ~requestReceived
              THEN /\ rxBuffer' = d.rest /\ requestPacket' = d.packet
                   /\ requestReceived' = d.received
              ELSE rxBuffer' = buffer /\ UNCHANGED <<requestPacket, requestReceived>>
        /\ Transmit(n)
  BY DEF Serve
<1> DEFINE rest == SubSeq(w, k + 1, Len(w))
           b == rxBuffer \o SubSeq(w, 1, k)
           t == 2 * sent[session] - Len(w)
<1>4. /\ wire' = [wire EXCEPT ![session] = rest]
      /\ IF k > 0 /\ ~requestReceived
         THEN /\ rxBuffer' = Drained(b, requestPacket).rest
              /\ requestPacket' = Drained(b, requestPacket).packet
              /\ requestReceived' = Drained(b, requestPacket).received
         ELSE rxBuffer' = b /\ UNCHANGED <<requestPacket, requestReceived>>
      /\ \E n \in 0..Len(txBuffer) : Transmit(n)
  BY <1>3
<1>5. /\ txBuffer' \in Seq(Request \cup {None})
      /\ got' \in [Session -> Seq(Request \cup {None})]
      /\ \A s \in Session : s # session => got'[s] = got[s]
  BY <1>2, <1>4, TransmitNetwork DEF Network
<1>6. IsRun(w, session, t) /\ IsRun(rxBuffer, session, Pushed)
      /\ rxBuffer \in Seq(Fragment) /\ t \in Int /\ Pushed + Len(rxBuffer) = t
  BY <1>1, <1>2 DEF Network, OnTheWire, Arrived, TypeOK, Pushed
<1>7. /\ rest \in Seq(Fragment) /\ Len(rest) = Len(w) - k
      /\ IsRun(rest, session, t + k)
  BY <1>2, <1>6, SuffixOfRun
<1>8. b \in Seq(Fragment) /\ Len(b) = Len(rxBuffer) + k /\ IsRun(b, session, Pushed)
  <2>1. /\ SubSeq(w, 1, k) \in Seq(Fragment) /\ Len(SubSeq(w, 1, k)) = k
        /\ IsRun(SubSeq(w, 1, k), session, Pushed + Len(rxBuffer))
    BY <1>2, <1>6, PrefixOfRun
  <2> HIDE DEF w
  <2> QED
    BY <1>2, <1>6, <2>1, RunsJoined
<1> HIDE DEF w, rest, b
<1>9. /\ wire'[session] = rest /\ sent' = sent /\ session' = session
      /\ \A s \in Session : s # session => wire'[s] = wire[s]
      /\ wire' \in [Session -> Seq(Fragment)]
  BY <1>1, <1>2, <1>4, <1>7 DEF Network, TypeOK
<1>10. OnTheWire'
  <2>1. 2 * sent[session] - Len(rest) = t + k
    BY <1>2, <1>7 DEF w
  <2>2. IsRun(wire'[session], session, 2 * sent'[session] - Len(wire'[session]))
    BY <1>7, <1>9, <2>1
  <2>3. \A s \in Session : s # session =>
          /\ IsRun(wire'[s], s, 2 * sent'[s] - Len(wire'[s]))
          /\ s > session' => Len(wire'[s]) = 2 * sent'[s] /\ got'[s] = <<>>
    BY <1>5, <1>9 DEF Network, OnTheWire
  <2>4. ~(session > session)
    BY <1>2 DEF Session
  <2> QED
    BY <1>9, <2>2, <2>3, <2>4 DEF OnTheWire
<1>11. /\ requestPacket \in Fragment \cup {Blank}
       /\ requestPacket.part = 0 => \E m \in Int : Pushed = 2 * m
       /\ requestPacket.part > 0
            => requestPacket.of[1] = session /\ Pos(requestPacket) = Pushed
       /\ requestReceived <=> requestPacket.part = Whole
  <2>1. session > 0
    BY <1>1 DEF Network, TypeOK
  <2> QED
    BY <2>1 DEF Network, TypeOK, Arrived
<1>a. Pushed' = t + k - Len(rxBuffer') /\ Pushed = t - Len(rxBuffer)
  <2>1. 2 * sent[session] - Len(rest) = t + k
    BY <1>2, <1>7 DEF w
  <2> QED
    BY <1>6, <1>2, <1>9, <2>1 DEF Pushed, w
<1> HIDE DEF t
<1> DEFINE
  Same == Pushed' = Pushed /\ Pushed' \in Int /\ UNCHANGED <<requestPacket, requestReceived>>
  More == /\ ~requestReceived /\ requestPacket' \in Fragment
          /\ Pushed' > Pushed /\ Pushed' \in Int
          /\ \A q \in Request :
               q[1] = session /\ 2 * q[2] > Pushed /\ 2 * q[2] < Pushed' => q \in Damaged
<1>12. ASSUME k > 0 /\ ~requestReceived PROVE TypeOK' /\ Arrived' /\ More
  <2>1. b # <<>>
    BY <1>2, <1>8, <1>12, EmptySeq
  <2>2. PICK j \in 1..Len(b) :
          /\ Drained(b, requestPacket)
               = [packet |-> b[j], rest |-> SubSeq(b, j + 1, Len(b)),
                  received |-> b[j].part = Whole]
          /\ \A i \in 1..(j - 1) : b[i].part # Whole
    <3>1. /\ requestPacket.part # 0 => Pos(requestPacket) = Pushed
          /\ requestPacket.part = 0 => \E m \in Int : Pushed = 2 * m
      BY <1>11, FragmentPos DEF Blank
    <3> QED
      BY <1>2, <1>8, <1>11, <2>1, <3>1, DrainedRun
  <2>3. /\ rxBuffer' = SubSeq(b, j + 1, Len(b)) /\ requestPacket' = b[j]
        /\ requestReceived' = (b[j].part = Whole)
    BY <1>4, <1>12, <2>2
  <2>4. b[j] \in Fragment /\ b[j].of[1] = session /\ Pos(b[j]) = Pushed + j
    BY <1>8, ElementOfSeq DEF IsRun
  <2>5. /\ rxBuffer' \in Seq(Fragment) /\ Len(rxBuffer') = Len(b) - j
        /\ IsRun(rxBuffer', session, Pushed + j)
    <3>1. j \in 0..Len(b)
      BY <1>2, <1>8
    <3> QED
      BY <1>2, <1>8, <2>3, <3>1, SuffixOfRun
  <2>6. Pushed' = Pushed + j
    BY <1>2, <1>6, <1>8, <1>a, <2>5
  <2>7. requestPacket'.part \in 1..3
    BY <2>3, <2>4, FragmentPos
  <2>8. Arrived'
    <3>1. IsRun(rxBuffer', session', Pushed')
      BY <1>9, <2>5, <2>6
    <3>2. requestPacket'.of[1] = session' /\ Pos(requestPacket') = Pushed'
      BY <1>9, <2>3, <2>4, <2>6
    <3>3. requestReceived' <=> requestPacket'.part = Whole
      BY <2>3, Zenon
    <3>4. requestPacket'.part # 0
      BY <2>7
    <3> QED
      BY <3>1, <3>2, <3>3, <3>4 DEF Arrived
  <2>9. More
    <3>1. ASSUME NEW q \in Request, q[1] = session, 2 * q[2] > Pushed, 2 * q[2] < Pushed'
          PROVE  q \in Damaged
      <4> DEFINE i == 2 * q[2] - Pushed
      <4>1. q[2] \in Int /\ i \in 1..(j - 1) /\ i \in 1..Len(b) /\ Pushed + i = 2 * q[2]
        BY <1>2, <1>8, <2>6, <3>1, ServerAssumption DEF Request
      <4> HIDE DEF i
      <4>2. b[i] \in Fragment /\ b[i].of[1] = session /\ Pos(b[i]) = 2 * q[2]
        BY <1>8, <4>1, ElementOfSeq DEF IsRun
      <4>3. b[i].of[2] \in Int /\ b[i].of \in Request
        BY <4>2, FragmentPos, ServerAssumption
      <4>4. b[i].part # Beginning
        BY <4>1, <4>2, <4>3, FragmentPos, OddIsNotEven
      <4>5. b[i].part = Spoilt /\ b[i].of[2] = q[2]
        BY <2>2, <4>1, <4>2, <4>3, <4>4, FragmentPos
      <4>6. b[i].of = q
        BY <3>1, <4>2, <4>3, <4>5 DEF Request
      <4> QED
        BY <4>2, <4>5, <4>6, FragmentPos
    <3>2. Pushed' > Pushed /\ Pushed' \in Int
      BY <1>2, <2>6
    <3> QED
      BY <1>12, <2>3, <2>4, <3>1, <3>2
  <2>10. TypeOK'
    <3>1. requestPacket' \in Fragment \cup {Blank} /\ requestReceived' \in BOOLEAN
      BY <2>3, <2>4
    <3> QED
      BY <1>1, <1>5, <1>9, <2>5, <3>1 DEF Network, TypeOK, manager
  <2> QED
    BY <2>8, <2>9, <2>10
<1>13. ASSUME ~(k > 0 /\ ~requestReceived) PROVE TypeOK' /\ Arrived' /\ Same
  <2>1. rxBuffer' = b /\ UNCHANGED <<requestPacket, requestReceived>>
    BY <1>4, <1>13
  <2>2. Pushed' = Pushed
    <3>1. Len(rxBuffer') = Len(rxBuffer) + k
      BY <1>8, <2>1
    <3> QED
      BY <1>2, <1>6, <1>a, <3>1
  <2>3. Arrived'
    BY <1>8, <1>9, <1>11, <2>1, <2>2 DEF Arrived
  <2>4. TypeOK'
    BY <1>1, <1>5, <1>8, <1>9, <2>1 DEF Network, TypeOK, manager
  <2> QED
    BY <1>2, <2>1, <2>2, <2>3, <2>4
<1>14. Untouched'
  BY <1>1 DEF Untouched
<1>15. (TypeOK' /\ Arrived' /\ More) \/ (TypeOK' /\ Arrived' /\ Same)
  BY <1>12, <1>13
<1> QED
  BY <1>2, <1>10, <1>14, <1>15 DEF Network

(* The command thread.                                                     *)
LEMMA CommandNetwork ==
  ASSUME Network, CommandThread
  PROVE  /\ Network' /\ session # 0 /\ UNCHANGED session /\ Pushed' = Pushed
<1>1. session # 0
  BY DEF CommandThread, Available, GetRequest, ProcessRequest, IgnoreRequest,
         SendResponse, EnableRequest, Network, Untouched
<1>2. /\ UNCHANGED <<clients, state, session, rxBuffer>>
      /\ Pushed' = Pushed
  BY DEF CommandThread, Available, GetRequest, ProcessRequest, IgnoreRequest,
         SendResponse, EnableRequest, clients, server, Pushed
<1>3. OnTheWire' /\ Untouched'
  BY <1>1, <1>2 DEF Network, OnTheWire, Untouched, clients
<1>4. CASE Available \/ GetRequest \/ IgnoreRequest
  BY <1>1, <1>2, <1>3, <1>4 DEF Available, GetRequest, IgnoreRequest, Network, TypeOK, Arrived, clients, server
<1>5. CASE ProcessRequest
  <2>1. executed' \in Seq(Fragment \cup {Blank})
    BY <1>5 DEF ProcessRequest, Network, TypeOK
  <2> QED
    BY <1>1, <1>2, <1>3, <1>5, <2>1 DEF ProcessRequest, Network, TypeOK, Arrived, clients, server
<1>6. CASE SendResponse
  <2>1. request.of \in Request \cup {None}
    BY DEF Network, TypeOK, Fragment, Blank
  <2>2. txBuffer' \in Seq(Request \cup {None})
    BY <1>6, <2>1 DEF SendResponse, Network, TypeOK
  <2> QED
    BY <1>1, <1>2, <1>3, <1>6, <2>2 DEF SendResponse, Network, TypeOK, Arrived, clients
<1>7. CASE EnableRequest
  <2>1. /\ requestReceived' = FALSE
        /\ requestPacket' = IF requestReceived THEN Blank ELSE requestPacket
        /\ UNCHANGED <<txBuffer, request, executed>> /\ at' = "poll"
    BY <1>7 DEF EnableRequest
  <2>2. TypeOK'
    BY <1>2, <2>1 DEF Network, TypeOK, clients
  <2>3. Arrived'
    <3>1. CASE requestReceived
      <4>1. requestPacket.part = Whole /\ requestPacket \in Fragment /\ Pos(requestPacket) = Pushed
        BY <1>1, <3>1 DEF Network, TypeOK, Arrived, Blank
      <4>2. requestPacket.of[2] \in Int /\ Pushed = 2 * requestPacket.of[2]
        BY <4>1, FragmentPos
      <4>3. requestPacket'.part = 0 /\ ~requestReceived'
        BY <2>1, <3>1 DEF Blank
      <4> QED
        BY <1>2, <4>2, <4>3 DEF Network, Arrived
    <3>2. CASE ~requestReceived
      BY <1>2, <2>1, <3>2 DEF Network, TypeOK, Arrived
    <3> QED
      BY <3>1, <3>2
  <2> QED
    BY <1>1, <1>2, <1>3, <2>2, <2>3 DEF Network
<1> QED
  BY <1>4, <1>5, <1>6, <1>7 DEF CommandThread

LEMMA NetworkInductive == Network /\ [Next]_vars => Network'
<1> SUFFICES ASSUME Network, [Next]_vars PROVE Network'
  OBVIOUS
<1>1. CASE Client
  BY <1>1, SendRequestNetwork, ConnectionsNetwork DEF Client
<1>2. CASE ServerThread
  BY <1>2, AcceptNetwork, ServeNetwork, DisconnectedNetwork DEF ServerThread
<1>3. CASE CommandThread
  BY <1>3, CommandNetwork
<1>4. CASE UNCHANGED vars
  BY <1>4 DEF vars, clients, server, manager, Network, TypeOK, OnTheWire, Untouched,
              Arrived, Pushed
<1> QED
  BY <1>1, <1>2, <1>3, <1>4 DEF Next

(* Type correctness, for every number of connections and requests.         *)
THEOREM TypeCorrect == Spec => []TypeOK
<1>1. Network => TypeOK
  BY DEF Network
<1> QED
  BY <1>1, NetworkInit, NetworkInductive, PTL DEF Spec

LEMMA NetworkInvariant == Spec => []Network
BY NetworkInit, NetworkInductive, PTL DEF Spec

-----------------------------------------------------------------------------
(* The order of execution, across connections.                             *)

(* A request whose fragments have been pushed, of a connection or of one   *)
(* before it.                                                              *)
Reached(r, ses, pushed) == r[1] <= ses /\ (r[1] = ses => 2 * r[2] <= pushed)

(* A request that comes after all that were executed.                      *)
Latest(r, done) == \A i \in DOMAIN done : done[i].part = Whole => Before(done[i].of, r)

InOrder ==
  /\ ExecutedInOrder
  /\ \A i \in DOMAIN executed : ExecutedWhole(i) => Reached(executed[i].of, session, Pushed)
  /\ at = "execute" /\ request.part = Whole
       => Reached(request.of, session, Pushed) /\ Latest(request.of, executed)
  /\ at \in {"poll", "get"} /\ requestPacket.part = Whole
       => Latest(requestPacket.of, executed)

LEMMA InOrderInit == Init => InOrder
BY DEF Init, InOrder, ExecutedInOrder, Blank

(* What has been reached stays so.                                         *)
Onward ==
  \/ session' = session /\ (session # 0 => Pushed' \in Int /\ Pushed' >= Pushed)
  \/ session' > session

LEMMA ReachedStays ==
  ASSUME Network, session' \in Nat, Onward, NEW r \in Request,
         Reached(r, session, Pushed)
  PROVE  Reached(r, session', Pushed')
<1>1. r[1] \in Nat \ {0} /\ r[2] \in Nat /\ session \in Nat
  BY ServerAssumption DEF Request, Session, Network, TypeOK
<1>2. session # 0 => Pushed \in Int
  BY PushedInt DEF Network
<1>3. CASE session' > session
  BY <1>1, <1>3 DEF Reached
<1>4. CASE session' = session /\ (session # 0 => Pushed' \in Int /\ Pushed' >= Pushed)
  BY <1>1, <1>2, <1>4 DEF Reached
<1> QED
  BY <1>3, <1>4 DEF Onward

LEMMA WholeIsRequest ==
  ASSUME TypeOK
  PROVE  /\ \A i \in DOMAIN executed : ExecutedWhole(i) => executed[i].of \in Request
         /\ request.part = Whole => request.of \in Request
<1>1. \A f \in Fragment \cup {Blank} : f.part = Whole => f.of \in Request
  BY FragmentPos DEF Blank
<1>2. \A i \in DOMAIN executed : executed[i] \in Fragment \cup {Blank}
  BY DEF TypeOK
<1>3. request \in Fragment \cup {Blank}
  BY DEF TypeOK
<1> QED
  BY <1>1, <1>2, <1>3 DEF ExecutedWhole

(* The command thread aside, only what is pushed may have to be the latest. *)
LEMMA ServerInOrder ==
  ASSUME Network, Network', InOrder, Onward, UNCHANGED manager,
         \/ requestPacket' = requestPacket \/ requestPacket'.part # Whole
         \/ session # 0 /\ session' = session /\ Pushed' > Pushed
  PROVE  InOrder'
<1>0. session \in Nat /\ session' \in Nat
  BY ServerAssumption DEF Network, TypeOK
<1>1. at' = at /\ request' = request /\ executed' = executed
  BY DEF manager
<1>2. ExecutedInOrder'
  BY <1>1 DEF InOrder, ExecutedInOrder, ExecutedWhole
<1>3. \A i \in DOMAIN executed : ExecutedWhole(i) => Reached(executed[i].of, session', Pushed')
  BY <1>0, ReachedStays, WholeIsRequest DEF InOrder, Network
<1>4. at = "execute" /\ request.part = Whole
        => Reached(request.of, session', Pushed') /\ Latest(request.of, executed)
  BY <1>0, ReachedStays, WholeIsRequest DEF InOrder, Network
<1>5. ASSUME at \in {"poll", "get"}, requestPacket'.part = Whole
      PROVE  Latest(requestPacket'.of, executed)
  <2>1. CASE requestPacket' = requestPacket
    BY <1>5, <2>1 DEF InOrder
  <2>2. CASE session # 0 /\ session' = session /\ Pushed' > Pushed
    <3> DEFINE q == requestPacket'.of
    <3>1. Pushed \in Int /\ Pushed' \in Int /\ session' > 0
      BY <1>0, <2>2, PushedInt DEF Network, Onward
    <3>2. q[1] = session /\ 2 * q[2] = Pushed' /\ q[2] \in Nat
      <4>1. q[1] = session' /\ Pos(requestPacket') = Pushed'
        BY <1>5, <3>1 DEF Network, Arrived
      <4>2. requestPacket' \in Fragment
        BY <1>5 DEF Network, TypeOK, Blank
      <4> QED
        BY <1>5, <2>2, <4>1, <4>2, FragmentPos, ServerAssumption
    <3>3. ASSUME NEW i \in DOMAIN executed, executed[i].part = Whole
          PROVE  Before(executed[i].of, q)
      <4> DEFINE e == executed[i].of
      <4>1. e \in Request /\ Reached(e, session, Pushed)
        BY <3>3, WholeIsRequest DEF InOrder, Network, ExecutedWhole
      <4> HIDE DEF e, q
      <4>2. e[1] \in Nat /\ e[2] \in Nat
        BY <4>1, ServerAssumption DEF Request, Session
      <4>3. Before(e, q)
        BY <1>0, <2>2, <3>1, <3>2, <4>1, <4>2 DEF Reached, Before
      <4> QED
        BY <4>3 DEF e
    <3> QED
      BY <3>3 DEF Latest
  <2> QED
    BY <1>5, <2>1, <2>2
<1> QED
  BY <1>1, <1>2, <1>3, <1>4, <1>5 DEF InOrder, ExecutedWhole

LEMMA CommandInOrder ==
  ASSUME Network, Network', InOrder, CommandThread
  PROVE  InOrder'
<1>1. session # 0 /\ session' = session /\ Pushed' = Pushed
  BY CommandNetwork
<1>2. executed' = executed =>
        /\ ExecutedInOrder'
        /\ \A i \in DOMAIN executed' :
             ExecutedWhole(i)' => Reached(executed'[i].of, session', Pushed')
  BY <1>1 DEF InOrder, ExecutedInOrder, ExecutedWhole
<1>3. CASE Available
  <2>1. UNCHANGED <<requestPacket, request, executed>> /\ at = "poll" /\ at' = "get"
    BY <1>3 DEF Available, server
  <2> QED
    BY <1>2, <2>1 DEF InOrder
<1>4. CASE GetRequest
  <2>1. /\ request' = requestPacket /\ at = "get" /\ at' = "execute"
        /\ executed' = executed
    BY <1>4 DEF GetRequest
  <2>2. ASSUME requestPacket.part = Whole
        PROVE  /\ Reached(requestPacket.of, session, Pushed)
               /\ Latest(requestPacket.of, executed)
    <3>1. requestPacket \in Fragment /\ session > 0 /\ session \in Nat
      BY <1>1, <2>2, ServerAssumption DEF Network, TypeOK, Blank
    <3>2. requestPacket.of[1] = session /\ 2 * requestPacket.of[2] = Pushed
      BY <2>2, <3>1, FragmentPos DEF Network, Arrived
    <3>3. Pushed \in Int
      BY <1>1, PushedInt DEF Network
    <3>4. Latest(requestPacket.of, executed)
      BY <2>1, <2>2 DEF InOrder
    <3> QED
      BY <3>1, <3>2, <3>3, <3>4 DEF Reached
  <2> QED
    BY <1>1, <1>2, <2>1, <2>2 DEF InOrder
<1>5. CASE ProcessRequest
  <2>1. /\ executed' = Append(executed, request) /\ at = "execute" /\ at' = "respond"
        /\ executed \in Seq(Fragment \cup {Blank}) /\ request \in Fragment \cup {Blank}
    BY <1>5 DEF ProcessRequest, Network, TypeOK
  <2>2. /\ Len(executed) \in Nat /\ DOMAIN executed = 1..Len(executed)
        /\ DOMAIN executed' = 1..(Len(executed) + 1)
        /\ \A i \in 1..Len(executed) : executed'[i] = executed[i]
        /\ executed'[Len(executed) + 1] = request
    BY <2>1, LenProperties
  <2>3. \A i \in DOMAIN executed' : \/ i \in DOMAIN executed
                                   \/ i = Len(executed) + 1
    BY <2>2
  <2>4. ExecutedInOrder'
    <3> SUFFICES ASSUME NEW i \in DOMAIN executed', NEW j \in DOMAIN executed',
                        i < j, executed'[i].part = Whole, executed'[j].part = Whole
                 PROVE  Before(executed'[i].of, executed'[j].of)
      BY DEF ExecutedInOrder, ExecutedWhole
    <3>1. i \in DOMAIN executed /\ executed'[i] = executed[i]
      BY <2>2, <2>3
    <3>2. CASE j \in DOMAIN executed
      <4>1. executed'[j] = executed[j]
        BY <2>2, <3>2
      <4> QED
        BY <3>1, <3>2, <4>1 DEF InOrder, ExecutedInOrder, ExecutedWhole
    <3>3. CASE j = Len(executed) + 1
      <4>1. executed'[j] = request
        BY <2>2, <3>3
      <4> QED
        BY <2>1, <3>1, <4>1 DEF InOrder, Latest
    <3> QED
      BY <2>3, <3>2, <3>3
  <2>5. ASSUME NEW i \in DOMAIN executed', executed'[i].part = Whole
        PROVE  Reached(executed'[i].of, session, Pushed)
    <3>1. CASE i \in DOMAIN executed
      BY <2>2, <2>5, <3>1 DEF InOrder, ExecutedWhole
    <3>2. CASE i = Len(executed) + 1
      BY <2>1, <2>2, <2>5, <3>2 DEF InOrder
    <3> QED
      BY <2>3, <3>1, <3>2
  <2> QED
    BY <1>1, <2>1, <2>4, <2>5 DEF InOrder, ExecutedWhole
<1>6. CASE SendResponse \/ IgnoreRequest
  <2>1. executed' = executed /\ at' = "enable"
    BY <1>6 DEF SendResponse, IgnoreRequest
  <2> QED
    BY <1>2, <2>1 DEF InOrder
<1>7. CASE EnableRequest
  <2>1. executed' = executed /\ at' = "poll"
    BY <1>7 DEF EnableRequest
  <2>2. requestPacket'.part # Whole
    <3>1. session > 0
      BY <1>1, ServerAssumption DEF Network, TypeOK
    <3> QED
      BY <1>7, <3>1 DEF EnableRequest, Network, Arrived, Blank
  <2> QED
    BY <1>2, <2>1, <2>2 DEF InOrder
<1> QED
  BY <1>3, <1>4, <1>5, <1>6, <1>7 DEF CommandThread

LEMMA InOrderInductive == Network /\ Network' /\ InOrder /\ [Next]_vars => InOrder'
<1> SUFFICES ASSUME Network, Network', InOrder, [Next]_vars PROVE InOrder'
  OBVIOUS
<1>0. session \in Nat /\ (session # 0 => Pushed \in Int)
  BY PushedInt, ServerAssumption DEF Network, TypeOK
<1>1. ASSUME UNCHANGED <<session, requestPacket, manager>>,
             session # 0 => Pushed' = Pushed
      PROVE  InOrder'
  <2>1. Onward
    BY <1>0, <1>1 DEF Onward
  <2> QED
    BY <1>1, <2>1, ServerInOrder
<1>2. CASE Client
  <2>1. UNCHANGED <<session, requestPacket, manager>>
    BY <1>2 DEF Client, Connect, Disconnect, SendRequest, server
  <2>2. session # 0 => Pushed' = Pushed
    BY <1>2, SendRequestNetwork, ConnectionsNetwork DEF Client
  <2> QED
    BY <1>1, <2>1, <2>2
<1>3. CASE Accept
  <2>1. session' > session /\ requestPacket'.part # Whole /\ UNCHANGED manager
    BY <1>0, <1>3 DEF Accept, Blank
  <2> QED
    BY <2>1, ServerInOrder DEF Onward
<1>4. CASE Serve
  <2>1. /\ session # 0 /\ Pushed' \in Int
        /\ (requestPacket' = requestPacket /\ Pushed' = Pushed) \/ Pushed' > Pushed
    BY <1>4, ServeNetwork DEF Session
  <2>2. UNCHANGED <<session, manager>>
    BY <1>4 DEF Serve
  <2>3. Onward
    BY <1>0, <2>1, <2>2 DEF Onward
  <2> QED
    BY <2>1, <2>2, <2>3, ServerInOrder
<1>5. CASE Disconnected
  <2>1. UNCHANGED <<session, requestPacket, manager>> /\ (session # 0 => Pushed' = Pushed)
    BY <1>5, DisconnectedNetwork DEF Disconnected, Hangup
  <2> QED
    BY <1>1, <2>1
<1>6. CASE CommandThread
  BY <1>6, CommandInOrder
<1>7. CASE UNCHANGED vars
  BY <1>1, <1>7 DEF vars, clients, server, Pushed
<1> QED
  BY <1>2, <1>3, <1>4, <1>5, <1>6, <1>7 DEF Next, ServerThread

(* Whole requests are executed in the order they were sent, each at most   *)
(* once, however often clients come and go (execute, enableRequest).       *)
THEOREM ExecutesInOrder == Spec => []ExecutedInOrder
<1>1. InOrder => ExecutedInOrder
  BY DEF InOrder
<1> QED
  BY <1>1, InOrderInit, InOrderInductive, NetworkInvariant, PTL DEF Spec

-----------------------------------------------------------------------------
(* The first connection.                                                   *)

(* What is executed is in the packet until it has been answered.           *)
Unswapped ==
  session <= 1 =>
    /\ at # "poll" => requestReceived
    /\ at \in {"execute", "respond", "enable"} => request = requestPacket
    /\ at = "respond" => request.of \notin Unknown
    /\ OnlyWholeExecuted

LEMMA UnswappedInit == Init => Unswapped
BY DEF Init, Unswapped, OnlyWholeExecuted

LEMMA UnswappedInductive == Network /\ Network' /\ Unswapped /\ [Next]_vars => Unswapped'
<1> SUFFICES ASSUME Network, Network', Unswapped, [Next]_vars, session' <= 1
             PROVE  /\ at' # "poll" => requestReceived'
                    /\ at' \in {"execute", "respond", "enable"} => request' = requestPacket'
                    /\ at' = "respond" => request'.of \notin Unknown
                    /\ OnlyWholeExecuted'
  BY DEF Unswapped
<1>0. session \in Nat
  BY ServerAssumption DEF Network, TypeOK
<1>1. ASSUME UNCHANGED <<session, requestPacket, requestReceived, manager>>
      PROVE  Unswapped'
  BY <1>1 DEF Unswapped, OnlyWholeExecuted, ExecutedWhole, manager
<1>2. CASE Client \/ UNCHANGED vars \/ Disconnected
  BY <1>1, <1>2 DEF Client, Connect, Disconnect, SendRequest, Disconnected, Hangup,
                    vars, server, manager, Unswapped
<1>3. CASE Accept
  <2>1. session = 0 /\ UNCHANGED manager
    BY <1>0, <1>3 DEF Accept
  <2> QED
    BY <2>1 DEF Network, Untouched, manager, OnlyWholeExecuted
<1>4. CASE Serve
  <2>1. UNCHANGED <<session, manager>>
    BY <1>4 DEF Serve
  <2>2. CASE UNCHANGED <<requestPacket, requestReceived>>
    BY <1>1, <2>1, <2>2 DEF Unswapped
  <2>3. CASE ~requestReceived
    BY <2>1, <2>3 DEF Unswapped, OnlyWholeExecuted, ExecutedWhole, manager
  <2> QED
    BY <1>4, <2>2, <2>3, ServeNetwork
<1>5. CASE CommandThread
  <2>1. session > 0 /\ session' = session /\ session <= 1
    BY <1>0, <1>5, CommandNetwork
  <2>2. CASE Available
    BY <2>1, <2>2 DEF Available, Unswapped, OnlyWholeExecuted, ExecutedWhole, server
  <2>3. CASE GetRequest
    BY <2>1, <2>3 DEF GetRequest, Unswapped, OnlyWholeExecuted, ExecutedWhole, server
  <2>4. CASE ProcessRequest
    <3>1. /\ executed' = Append(executed, request) /\ at = "execute"
          /\ at' = "respond" /\ UNCHANGED <<server, request>> /\ request.of \notin Unknown
      BY <2>4 DEF ProcessRequest
    <3>2. request = requestPacket /\ requestReceived /\ request.part = Whole
      BY <2>1, <3>1 DEF Unswapped, Network, Arrived
    <3>3. OnlyWholeExecuted'
      BY <2>1, <3>1, <3>2 DEF Unswapped, OnlyWholeExecuted, ExecutedWhole, Network, TypeOK
    <3> QED
      BY <3>1, <3>2, <3>3 DEF server
  <2>5. CASE SendResponse \/ IgnoreRequest
    BY <2>1, <2>5 DEF SendResponse, IgnoreRequest, Unswapped, OnlyWholeExecuted,
                      ExecutedWhole, server
  <2>6. CASE EnableRequest
    BY <2>1, <2>6 DEF EnableRequest, Unswapped, OnlyWholeExecuted, ExecutedWhole
  <2> QED
    BY <1>5, <2>2, <2>3, <2>4, <2>5, <2>6 DEF CommandThread
<1> QED
  BY <1>2, <1>3, <1>4, <1>5 DEF Next, ServerThread

(* As long as nobody has reconnected, what is executed is a request        *)
(* received to its last byte, although available() looks at the flag       *)
(* without the mutex (getRequest).                                         *)
THEOREM FirstSessionOnlyWhole == Spec => []FirstSessionWhole
<1>1. Unswapped => FirstSessionWhole
  BY DEF Unswapped, FirstSessionWhole
<1> QED
  BY <1>1, UnswappedInit, UnswappedInductive, NetworkInvariant, PTL DEF Spec

(* The requests of the first connection that are due an answer: they have  *)
(* been pushed, and none is in the packet to be executed or answered yet.  *)
Waiting == requestPacket.part = Whole /\ at # "enable"
Due == {q \in Answerable : /\ q[1] = 1 /\ 2 * q[2] <= Pushed
                           /\ Waiting => q # requestPacket.of}

(* What has been answered, whether received or still queued.               *)
Given == got[1] \o txBuffer
Members(responses) == {responses[n] : n \in DOMAIN responses}

Queued ==
  session = 1 =>
    /\ InTurn(got[1], 1) /\ \A n \in DOMAIN got[1] : got[1][n][2] <= sent[1]
    /\ 1 \notin closed => InTurn(Given, 1) /\ Members(Given) = Due

LEMMA PrefixInTurn ==
  ASSUME NEW S, NEW q \in Seq(S), NEW r \in Seq(S), NEW s
  PROVE  /\ InTurn(q \o r, s) => InTurn(q, s)
         /\ \A n \in DOMAIN q : q[n] \in Members(q \o r)
<1> DEFINE b == q \o r
<1>1. /\ DOMAIN q = 1..Len(q) /\ Len(q) \in Nat /\ Len(r) \in Nat
      /\ DOMAIN b = 1..(Len(q) + Len(r))
      /\ \A n \in 1..Len(q) : n \in DOMAIN b /\ b[n] = q[n]
  <2>1. /\ b \in Seq(S) /\ Len(b) = Len(q) + Len(r)
        /\ \A n \in 1..(Len(q) + Len(r)) : b[n] = IF n <= Len(q) THEN q[n] ELSE r[n - Len(q)]
    BY ConcatProperties
  <2>2. DOMAIN b = 1..Len(b)
    BY <2>1, LenProperties
  <2> HIDE DEF b
  <2>3. Len(q) \in Nat /\ Len(r) \in Nat /\ DOMAIN q = 1..Len(q)
    BY LenProperties
  <2> QED
    BY <2>1, <2>2, <2>3
<1> HIDE DEF b
<1>2. ASSUME InTurn(b, s), NEW n \in DOMAIN q
      PROVE  /\ q[n] \in Answerable /\ q[n][1] = s
             /\ \A a \in Answerable : a[1] = s =>
                  (a[2] < q[n][2] <=> \E m \in 1..(n - 1) : q[m] = a)
  <2>1. n \in DOMAIN b /\ b[n] = q[n] /\ \A m \in 1..(n - 1) : b[m] = q[m]
    BY <1>1
  <2> QED
    BY <1>2, <2>1 DEF InTurn
<1>3. \A n \in DOMAIN q : q[n] \in Members(b)
  BY <1>1 DEF Members
<1> QED
  BY <1>2, <1>3 DEF InTurn, b

LEMMA AppendInTurn ==
  ASSUME NEW S, NEW q \in Seq(S), NEW s, InTurn(q, s),
         NEW e \in S, e \in Answerable, e[1] = s,
         \A a \in Answerable : a[1] = s => (a[2] < e[2] <=> a \in Members(q))
  PROVE  InTurn(Append(q, e), s) /\ Members(Append(q, e)) = Members(q) \cup {e}
<1> DEFINE b == Append(q, e)
<1>1. /\ Len(q) \in Nat /\ DOMAIN q = 1..Len(q) /\ DOMAIN b = 1..(Len(q) + 1)
      /\ \A n \in 1..Len(q) : b[n] = q[n]
      /\ b[Len(q) + 1] = e
  BY LenProperties
<1> HIDE DEF b
<1>2. Members(b) = Members(q) \cup {e}
  BY <1>1 DEF Members
<1>3. ASSUME NEW n \in DOMAIN b
      PROVE  /\ b[n] \in Answerable /\ b[n][1] = s
             /\ \A a \in Answerable : a[1] = s =>
                  (a[2] < b[n][2] <=> \E m \in 1..(n - 1) : b[m] = a)
  <2>1. CASE n \in 1..Len(q)
    <3>1. n \in DOMAIN q /\ b[n] = q[n] /\ \A m \in 1..(n - 1) : b[m] = q[m]
      BY <1>1, <2>1
    <3> QED
      BY <3>1 DEF InTurn
  <2>2. CASE n = Len(q) + 1
    <3>1. b[n] = e /\ 1..(n - 1) = DOMAIN q /\ \A m \in DOMAIN q : b[m] = q[m]
      BY <1>1, <2>2
    <3> QED
      BY <3>1 DEF Members
  <2> QED
    BY <1>1, <2>1, <2>2
<1> QED
  BY <1>2, <1>3 DEF InTurn, b

(* What doSend takes off the queue and the client receives is the same.    *)
LEMMA MovedOn ==
  ASSUME NEW S, NEW q \in Seq(S), NEW t \in Seq(S), NEW n \in 0..Len(t)
  PROVE  (q \o SubSeq(t, 1, n)) \o SubSeq(t, n + 1, Len(t)) = q \o t
<1>1. Len(t) \in Nat /\ \A i \in 1..Len(t) : t[i] \in S
  BY LenProperties, ElementOfSeq
<1>2. SubSeq(t, 1, n) \in Seq(S) /\ SubSeq(t, n + 1, Len(t)) \in Seq(S)
  BY <1>1, SubSeqProperties
<1>3. SubSeq(t, 1, n) \o SubSeq(t, n + 1, Len(t)) = t
  <2>1. 1 \in 1..(Len(t) + 1) /\ n \in (1 - 1)..Len(t) /\ Len(t) \in n..Len(t)
    BY <1>1
  <2> QED
    BY <2>1, ConcatAdjacentSubSeq, SubSeqFull
<1> DEFINE u == SubSeq(t, 1, n)
           v == SubSeq(t, n + 1, Len(t))
<1> HIDE DEF u, v
<1>4. (q \o u) \o v = q \o (u \o v)
  <2>1. u \in Seq(S) /\ v \in Seq(S)
    BY <1>2 DEF u, v
  <2> QED
    BY <2>1, ConcatAssociative
<1> QED
  BY <1>3, <1>4 DEF u, v

LEMMA AppendToJoined ==
  ASSUME NEW S, NEW q \in Seq(S), NEW t \in Seq(S), NEW e \in S
  PROVE  q \o Append(t, e) = Append(q \o t, e)
<1>1. q \o t \in Seq(S) /\ <<e>> \in Seq(S)
  BY ConcatProperties
<1>2. Append(t, e) = t \o <<e>> /\ Append(q \o t, e) = (q \o t) \o <<e>>
  BY <1>1, AppendIsConcat
<1> QED
  BY <1>1, <1>2, ConcatAssociative

LEMMA QueuedInit == Init => Queued
BY DEF Init, Queued

(* What is due was sent.                                                   *)
LEMMA DueIsSent ==
  ASSUME Network, session = 1
  PROVE  \A q \in Due : q[2] <= sent[1]
<1>1. /\ sent[1] \in Nat /\ Len(wire[1]) \in Nat /\ Len(rxBuffer) \in Nat
      /\ \A q \in Due : q[2] \in Nat /\ 2 * q[2] <= Pushed
  BY PushedInt, ServerAssumption DEF Network, Due, Answerable, Request
<1> QED
  BY <1>1 DEF Pushed

LEMMA GivenTypes ==
  ASSUME Network, session = 1
  PROVE  /\ got[1] \in Seq(Request \cup {None}) /\ txBuffer \in Seq(Request \cup {None})
         /\ Given \in Seq(Request \cup {None})
BY PushedInt, ConcatProperties DEF Network, TypeOK, Given

(* doSend: what was queued is received, in its order.                      *)
LEMMA ServeQueued ==
  ASSUME Network, Network', Unswapped, Queued, Serve, session = 1 PROVE Queued'
<1>1. /\ UNCHANGED <<connected, closed, sent, session, manager>>
      /\ 1 \in Session /\ Pushed \in Int
  BY PushedInt DEF Serve, Network
<1>2. PICK n \in 0..Len(txBuffer) : Transmit(n)
  BY DEF Serve
<1>3. /\ txBuffer' = SubSeq(txBuffer, n + 1, Len(txBuffer))
      /\ got'[1] = IF 1 \in closed THEN got[1] ELSE got[1] \o SubSeq(txBuffer, 1, n)
  BY <1>1, <1>2 DEF Transmit, Network, TypeOK
<1>4. CASE 1 \in closed
  BY <1>1, <1>3, <1>4 DEF Queued
<1>5. CASE 1 \notin closed
  <2>1. Given' = Given
    BY <1>3, <1>5, GivenTypes, MovedOn DEF Given
  <2>2. Due' = Due
    <3>1. CASE Pushed' = Pushed /\ UNCHANGED <<requestPacket, requestReceived>>
      BY <1>1, <3>1 DEF Due, Waiting, manager
    <3>2. CASE /\ ~requestReceived /\ requestPacket' \in Fragment /\ Pushed' > Pushed
               /\ \A q \in Request :
                    q[1] = session /\ 2 * q[2] > Pushed /\ 2 * q[2] < Pushed' => q \in Damaged
      <4>1. ~Waiting
        BY <3>2 DEF Waiting, Network, Arrived
      <4>2. /\ Pushed' \in Int
            /\ requestPacket'.of[1] = 1 /\ Pos(requestPacket') = Pushed'
        <5>1. requestPacket'.part > 0
          BY <3>2, FragmentPos
        <5> QED
          BY <1>1, <5>1, ServeNetwork DEF Network, Arrived
      <4>3. at' # "enable"
        BY <1>1, <3>2 DEF Unswapped, manager
      <4>4. ASSUME NEW q \in Answerable, q[1] = 1
            PROVE  2 * q[2] <= Pushed <=>
                     2 * q[2] <= Pushed' /\ (Waiting' => q # requestPacket'.of)
        <5> DEFINE p == requestPacket'
        <5>1. /\ q \in Request /\ q[2] \in Int /\ q = <<1, q[2]>> /\ q \notin Damaged
          BY <4>4, ServerAssumption DEF Answerable, Request
        <5>2. /\ p.of \in Request /\ p.of[2] \in Int /\ p.of = <<1, p.of[2]>>
          BY <3>2, <4>2, FragmentPos, ServerAssumption DEF Request
        <5>3. CASE 2 * q[2] <= Pushed
          <6>1. Waiting' => Pushed' = 2 * p.of[2]
            BY <3>2, <4>2, FragmentPos DEF Waiting
          <6> HIDE DEF p
          <6>2. Waiting' => q # p.of
            BY <1>1, <3>2, <4>2, <5>1, <5>2, <5>3, <6>1
          <6> QED
            BY <1>1, <3>2, <4>2, <5>1, <5>3, <6>2 DEF p
        <5>4. CASE 2 * q[2] > Pushed /\ 2 * q[2] < Pushed'
          BY <1>1, <3>2, <4>4, <5>1, <5>4
        <5>5. CASE 2 * q[2] = Pushed'
          <6>1. p.part # Beginning
            BY <3>2, <4>2, <5>1, <5>2, <5>5, FragmentPos, OddIsNotEven
          <6>2. 2 * p.of[2] = 2 * q[2]
            BY <3>2, <4>2, <5>5, <6>1, FragmentPos
          <6>3. p.of = q
            <7>1. p.of[2] = q[2]
              BY <5>1, <5>2, <6>2
            <7> QED
              BY <5>1, <5>2, <7>1
          <6>4. p.part = Whole
            BY <3>2, <5>1, <6>1, <6>3, FragmentPos
          <6>5. Waiting' /\ q = p.of
            BY <4>3, <6>3, <6>4 DEF Waiting
          <6>6. ~(2 * q[2] <= Pushed)
            BY <1>1, <3>2, <4>2, <5>1, <5>5
          <6> QED
            BY <6>5, <6>6
        <5>6. CASE 2 * q[2] > Pushed'
          BY <1>1, <3>2, <4>2, <5>1, <5>6
        <5> QED
          BY <1>1, <4>2, <5>1, <5>3, <5>4, <5>5, <5>6
      <4> QED
        BY <4>1, <4>4 DEF Due
    <3> QED
      BY <3>1, <3>2, ServeNetwork
  <2>3. InTurn(Given', 1) /\ Members(Given') = Due'
    BY <1>5, <2>1, <2>2 DEF Queued
  <2>4. got'[1] \in Seq(Request \cup {None}) /\ txBuffer' \in Seq(Request \cup {None})
    BY <1>1 DEF Network, TypeOK
  <2>5. InTurn(got'[1], 1) /\ \A m \in DOMAIN got'[1] : got'[1][m] \in Due
    BY <2>2, <2>3, <2>4, PrefixInTurn DEF Given
  <2> QED
    BY <1>1, <2>3, <2>5, DueIsSent DEF Queued
<1> QED
  BY <1>4, <1>5

(* The response that is queued is the next.                                *)
LEMMA SendResponseQueued ==
  ASSUME Network, Network', Unswapped, Queued, SendResponse, session = 1
  PROVE  Queued'
<1>1. /\ txBuffer' = Append(txBuffer, request.of) /\ at = "respond" /\ at' = "enable"
      /\ UNCHANGED <<clients, session, requestPacket>> /\ Pushed' = Pushed
  BY DEF SendResponse, Pushed, clients
<1>2. /\ request = requestPacket /\ requestPacket \in Fragment
      /\ requestPacket.part = Whole /\ Pos(requestPacket) = Pushed
      /\ requestPacket.of[1] = 1 /\ request.of \notin Unknown
  BY <1>1 DEF Unswapped, Network, Arrived, TypeOK, Blank
<1>3. CASE 1 \in closed
  BY <1>1, <1>3 DEF Queued, clients
<1>4. CASE 1 \notin closed
  <2> DEFINE e == request.of
  <2>1. /\ e \in Answerable /\ e \in Request \cup {None} /\ e[1] = 1
        /\ e[2] \in Int /\ Pushed = 2 * e[2] /\ e = <<1, e[2]>>
    BY <1>2, FragmentPos, ServerAssumption DEF Answerable, Request
  <2>2. Given' = Append(Given, e)
    <3>1. Given' = got[1] \o Append(txBuffer, e)
      BY <1>1 DEF Given, clients
    <3> HIDE DEF e
    <3>2. got[1] \in Seq(Request \cup {None}) /\ txBuffer \in Seq(Request \cup {None})
      BY GivenTypes
    <3>3. got[1] \o Append(txBuffer, e) = Append(got[1] \o txBuffer, e)
      <4> DEFINE S == Request \cup {None}
                 q == got[1]
                 t == txBuffer
      <4>1. e \in S /\ q \in Seq(S) /\ t \in Seq(S)
        BY <2>1, <3>2
      <4> HIDE DEF S, q, t
      <4>2. q \o Append(t, e) = Append(q \o t, e)
        BY <4>1, AppendToJoined
      <4> QED
        BY <4>2 DEF q, t
    <3> QED
      BY <3>1, <3>3 DEF Given
  <2>3. Due = {q \in Answerable : q[1] = 1 /\ 2 * q[2] <= Pushed /\ q # e}
    BY <1>1, <1>2 DEF Due, Waiting
  <2>4. Due' = {q \in Answerable : q[1] = 1 /\ 2 * q[2] <= Pushed}
    BY <1>1 DEF Due, Waiting
  <2>5. InTurn(Given, 1) /\ Members(Given) = Due
    BY <1>4 DEF Queued
  <2> HIDE DEF e
  <2>6. \A q \in Answerable : q[1] = 1 => (q[2] < e[2] <=> q \in Due)
    <3> SUFFICES ASSUME NEW q \in Answerable, q[1] = 1 PROVE q[2] < e[2] <=> q \in Due
      OBVIOUS
    <3>1. q[2] \in Int /\ q = <<1, q[2]>>
      BY ServerAssumption DEF Answerable, Request
    <3>2. q # e <=> q[2] # e[2]
      BY <2>1, <3>1
    <3>3. q \in Due <=> 2 * q[2] <= 2 * e[2] /\ q[2] # e[2]
      BY <2>1, <2>3, <3>2
    <3> QED
      BY <2>1, <3>1, <3>3
  <2>7. InTurn(Given', 1) /\ Members(Given') = Members(Given) \cup {e}
    <3>1. \A a \in Answerable : a[1] = 1 => (a[2] < e[2] <=> a \in Members(Given))
      BY <2>5, <2>6
    <3>2. InTurn(Append(Given, e), 1) /\ Members(Append(Given, e)) = Members(Given) \cup {e}
      <4>1. Given \in Seq(Request \cup {None}) /\ e \in Request \cup {None}
        BY <2>1, GivenTypes
      <4> QED
        BY <2>1, <2>5, <3>1, <4>1, AppendInTurn
    <3> QED
      BY <2>2, <3>2
  <2>8. Due' = Due \cup {e}
    BY <2>1, <2>3, <2>4
  <2> QED
    BY <1>1, <1>4, <2>5, <2>7, <2>8 DEF Queued, clients
<1> QED
  BY <1>3, <1>4

LEMMA QueuedInductive ==
  Network /\ Network' /\ Unswapped /\ Queued /\ [Next]_vars => Queued'
<1> SUFFICES ASSUME Network, Network', Unswapped, Queued, [Next]_vars, session' = 1
             PROVE  Queued'
  BY DEF Queued
<1>0. session \in Nat
  BY ServerAssumption DEF Network, TypeOK
<1>1. ASSUME UNCHANGED <<session, txBuffer, got>>, Due' = Due,
             session = 1, sent'[1] >= sent[1], closed \subseteq closed'
      PROVE  Queued'
  <2>1. sent[1] \in Nat /\ sent'[1] \in Nat
    BY <1>1, PushedInt, ServerAssumption DEF Network, TypeOK, Session
  <2>2. \A n \in DOMAIN got[1] : got[1][n][2] \in Int
    BY <1>1, ServerAssumption DEF Queued, InTurn, Answerable, Request
  <2>3. Given' = Given
    BY <1>1 DEF Given
  <2> QED
    BY <1>1, <2>1, <2>2, <2>3 DEF Queued
<1>2. CASE Client
  <2>1. UNCHANGED <<server, manager, got>> /\ session = 1 /\ closed \subseteq closed'
    BY <1>2 DEF Client, Connect, Disconnect, SendRequest, server
  <2>2. Pushed' = Pushed
    BY <1>2, <2>1, SendRequestNetwork, ConnectionsNetwork DEF Client
  <2>3. sent'[1] >= sent[1]
    <3>1. sent[1] \in Nat /\ 1 \in Session
      BY <2>1, PushedInt DEF Network
    <3> QED
      <4>1. CASE UNCHANGED sent
        BY <3>1, <4>1
      <4>2. CASE \E s \in Session : SendRequest(s)
        <5>1. PICK s \in Session : sent' = [sent EXCEPT ![s] = @ + 1]
          BY <4>2 DEF SendRequest
        <5>2. sent'[1] = IF s = 1 THEN sent[1] + 1 ELSE sent[1]
          BY <3>1, <5>1 DEF Network, TypeOK
        <5> QED
          BY <3>1, <5>2
      <4> QED
        BY <1>2, <4>1, <4>2 DEF Client, Connect, Disconnect
  <2>4. Due' = Due
    BY <2>1, <2>2 DEF Due, Waiting, server, manager
  <2> QED
    BY <1>1, <2>1, <2>3, <2>4 DEF server
<1>3. CASE Accept
  <2>1. /\ session = 0 /\ txBuffer' = <<>> /\ requestPacket' = Blank
        /\ UNCHANGED <<clients, manager>> /\ Pushed' = 0
    <3>1. session = 0
      BY <1>0, <1>3 DEF Accept
    <3> QED
      BY <1>3, <3>1, AcceptNetwork DEF Accept
  <2>2. 1 \in Session
    BY ServerAssumption DEF Network, TypeOK, Session
  <2>3. got[1] = <<>>
    BY <2>1, <2>2 DEF Network, OnTheWire
  <2>4. Due' = {}
    <3>1. \A q \in Answerable : q[2] \in Nat \ {0}
      BY ServerAssumption DEF Answerable, Request
    <3> QED
      BY <2>1, <3>1 DEF Due
  <2>5. Given' = <<>> /\ DOMAIN <<>> = {}
    BY <2>1, <2>3, EmptySeq, ConcatEmptySeq DEF Given, clients
  <2>6. InTurn(<<>>, 1) /\ Members(<<>>) = {}
    BY <2>5 DEF InTurn, Members
  <2> QED
    BY <2>1, <2>3, <2>4, <2>5, <2>6 DEF Queued, clients
<1>4. CASE Serve
  BY <1>4, ServeQueued DEF Serve
<1>5. CASE Disconnected
  <2>1. UNCHANGED <<clients, session, txBuffer, requestPacket, manager>> /\ session = 1
    BY <1>5 DEF Disconnected, Hangup
  <2>2. Pushed' = Pushed
    BY <1>5, <2>1, DisconnectedNetwork
  <2>3. sent[1] \in Nat
    BY <2>1, PushedInt DEF Network
  <2>4. Due' = Due
    BY <2>1, <2>2 DEF Due, Waiting, manager
  <2> QED
    BY <1>1, <2>1, <2>3, <2>4 DEF clients
<1>6. CASE CommandThread
  <2>1. session = 1 /\ Pushed' = Pushed
    BY <1>6, CommandNetwork
  <2>2. sent[1] \in Nat
    BY <2>1, PushedInt DEF Network
  <2>3. CASE Available \/ GetRequest \/ ProcessRequest
    <3>1. UNCHANGED <<clients, server>> /\ at # "enable" /\ at' # "enable"
      BY <2>3 DEF Available, GetRequest, ProcessRequest
    <3>2. Due' = Due
      BY <2>1, <3>1 DEF Due, Waiting, server
    <3> QED
      BY <1>1, <2>1, <2>2, <3>1, <3>2 DEF clients, server
  <2>4. CASE IgnoreRequest
    <3>1. UNCHANGED <<clients, server>> /\ request.of \in Unknown /\ request = requestPacket
      BY <2>1, <2>4 DEF IgnoreRequest, Unswapped
    <3>2. \A q \in Answerable : q # requestPacket.of
      BY <3>1 DEF Answerable
    <3>3. Due' = Due
      BY <2>1, <3>1, <3>2 DEF Due, server
    <3> QED
      BY <1>1, <2>1, <2>2, <3>1, <3>3 DEF clients, server
  <2>5. CASE SendResponse
    BY <2>1, <2>5, SendResponseQueued
  <2>6. CASE EnableRequest
    <3>1. /\ requestReceived /\ at = "enable" /\ at' = "poll" /\ requestPacket' = Blank
          /\ UNCHANGED <<clients, session, txBuffer>>
      BY <2>1, <2>6 DEF EnableRequest, Unswapped
    <3>2. ~Waiting /\ ~Waiting'
      BY <3>1 DEF Waiting, Blank
    <3>3. Due' = Due
      BY <2>1, <3>2 DEF Due
    <3> QED
      BY <1>1, <2>1, <2>2, <3>1, <3>3 DEF clients
  <2> QED
    BY <1>6, <2>3, <2>4, <2>5, <2>6 DEF CommandThread
<1>7. CASE UNCHANGED vars
  BY <1>7 DEF vars, clients, server, manager, Queued, Given, Due, Waiting, Pushed
<1> QED
  BY <1>2, <1>3, <1>4, <1>5, <1>6, <1>7 DEF Next, ServerThread

(* As long as nobody has reconnected, the responses are those to the       *)
(* requests that can be answered, in order and with none left out, however *)
(* fast the client sends and whatever else it sends (enableRequest, push). *)
THEOREM FirstSessionResponses == Spec => []FirstSessionMatches
<1>1. ASSUME Network, Queued PROVE FirstSessionMatches
  <2> SUFFICES ASSUME session <= 1, NEW s \in Session
               PROVE  /\ InTurn(got[s], s)
                      /\ \A n \in DOMAIN got[s] : got[s][n][2] <= sent[s]
    BY DEF FirstSessionMatches, ResponsesMatch
  <2>1. session \in Nat /\ s \in Nat \ {0}
    <3>1. session \in 0..Sessions
      BY <1>1 DEF Network, TypeOK
    <3> QED
      BY <3>1, ServerAssumption DEF Session
  <2>2. CASE s > session
    <3>1. got[s] = <<>> /\ DOMAIN <<>> = {}
      BY <1>1, <2>2, EmptySeq DEF Network, OnTheWire
    <3> QED
      BY <3>1 DEF InTurn
  <2>3. CASE s <= session
    <3>1. session = 1 /\ s = 1
      BY <2>1, <2>3
    <3> QED
      BY <1>1, <3>1 DEF Queued
  <2> QED
    BY <2>1, <2>2, <2>3
<1> QED
  BY <1>1, QueuedInit, QueuedInductive, UnswappedInit, UnswappedInductive,
     NetworkInvariant, PTL DEF Spec
=============================================================================
