--------------------------- MODULE CommandServer ----------------------------
(***************************************************************************)
(* TcpServer and CommandManager: one thread owns the socket and assembles  *)
(* requests, the other polls for one, executes it and queues the response, *)
(* while clients connect, send and disconnect as they like.                *)
(*                                                                         *)
(* A request is <<session, number>>.  On the wire it is two fragments, its *)
(* first byte to the data length and the rest, because what a request      *)
(* packet may hold when somebody looks at it is nothing, a beginning, a    *)
(* whole, or a whole that its checksum or its end belies; a response is    *)
(* one unit.                                                               *)
(***************************************************************************)
EXTENDS Naturals, Sequences

CONSTANTS
  Sessions,   \* bound: connections made, one after another
  Requests,   \* bound: requests sent on each
  Pipelining, \* FALSE: a client awaits its response before the next request
  Unknown,    \* the requests with an ID that no command has
  Damaged     \* those with a wrong checksum or end byte

Session == 1..Sessions
Request == Session \X (1..Requests)

ASSUME ServerAssumption ==
  /\ Sessions \in Nat /\ Requests \in Nat /\ Pipelining \in BOOLEAN
  /\ Unknown \subseteq Request /\ Damaged \subseteq Request

Answerable == Request \ (Unknown \cup Damaged)
None == <<0, 0>>                        \* Packet::clear: ID 0, no data
Beginning == 1
Whole == 2
Spoilt == 3
Rest(r) == IF r \in Damaged THEN Spoilt ELSE Whole
Fragment == {f \in [of: Request, part: 1..3] : f.part \in {Beginning, Rest(f.of)}}
Blank == [of |-> None, part |-> 0]

VARIABLES
  (* the clients and the network *)
  connected,      \* how many have connected so far
  closed,         \* the sessions whose client has disconnected
  wire,           \* wire[s]: fragments sent and not yet received
  sent,           \* sent[s]: requests begun
  got,            \* got[s]: responses received
  (* TcpServer, under m_mutex *)
  state,          \* m_state
  session,        \* whose connection m_client is
  rxBuffer, txBuffer,
  requestPacket,  \* m_requestPacket: which request, how much of it
  requestReceived,
  (* CommandManager *)
  at,             \* where execute() is
  request,        \* the clone it works on
  executed        \* history: the requests executed, in order

clients == <<connected, closed, wire, sent, got>>
server == <<state, session, rxBuffer, txBuffer, requestPacket, requestReceived>>
manager == <<at, request, executed>>
vars == <<clients, server, manager>>

TypeOK ==
  /\ connected \in 0..Sessions /\ closed \subseteq Session
  /\ wire \in [Session -> Seq(Fragment)]
  /\ sent \in [Session -> 0..Requests]
  /\ got \in [Session -> Seq(Request \cup {None})]
  /\ state \in {"listening", "session"} /\ session \in 0..Sessions
  /\ rxBuffer \in Seq(Fragment) /\ txBuffer \in Seq(Request \cup {None})
  /\ requestPacket \in Fragment \cup {Blank} /\ requestReceived \in BOOLEAN
  /\ at \in {"poll", "get", "execute", "respond", "enable"}
  /\ request \in Fragment \cup {Blank} /\ executed \in Seq(Fragment \cup {Blank})

Init ==
  /\ connected = 0 /\ closed = {}
  /\ wire = [s \in Session |-> <<>>]
  /\ sent = [s \in Session |-> 0]
  /\ got = [s \in Session |-> <<>>]
  /\ state = "listening" /\ session = 0
  /\ rxBuffer = <<>> /\ txBuffer = <<>>
  /\ requestPacket = Blank /\ requestReceived = FALSE
  /\ at = "poll" /\ request = Blank /\ executed = <<>>

-----------------------------------------------------------------------------
(* The clients.                                                            *)

Alive(s) == s <= connected /\ s \notin closed

Connect ==
  /\ connected < Sessions /\ connected' = connected + 1
  /\ UNCHANGED <<closed, wire, sent, got, server, manager>>

Disconnect(s) ==
  /\ Alive(s) /\ closed' = closed \cup {s}
  /\ UNCHANGED <<connected, wire, sent, got, server, manager>>

SendRequest(s) ==
  /\ Alive(s) /\ sent[s] < Requests
  /\ Pipelining \/ Len(got[s]) >= sent[s]
  /\ sent' = [sent EXCEPT ![s] = @ + 1]
  /\ LET r == <<s, sent[s] + 1>>
     IN wire' = [wire EXCEPT ![s] =
                   @ \o <<[of |-> r, part |-> Beginning], [of |-> r, part |-> Rest(r)]>>]
  /\ UNCHANGED <<connected, closed, got, server, manager>>

-----------------------------------------------------------------------------
(* The server thread, one turn of its loop per action.                     *)

(* Variant: an accept() that found nobody opens a session all the same.    *)
AcceptAnyway ==
  /\ state = "listening"
  /\ session' = session + 1 /\ state' = "session"
  /\ rxBuffer' = <<>> /\ txBuffer' = <<>>
  /\ requestPacket' = Blank /\ requestReceived' = FALSE
  /\ UNCHANGED <<clients, manager>>

Accept ==
  /\ state = "listening" /\ session < connected
  /\ session' = session + 1 /\ state' = "session"
  /\ rxBuffer' = <<>> /\ txBuffer' = <<>>
  /\ requestPacket' = Blank /\ requestReceived' = FALSE
  /\ UNCHANGED <<clients, manager>>

(* Packet::push drops the rest of a request whose beginning the packet has *)
(* not; every fragment but the first follows the one that was sent before  *)
(* it.  A rest that is spoilt is taken up to what is wrong with it: the    *)
(* next byte is looked at as a first one again.                            *)
Push(p, buffer, i) == buffer[i].part = Beginning \/ i > 1 \/ p.part = Beginning

(* Variant: the loop does not stop at the end of a request.                *)
DrainedToTheEnd(buffer, p) ==
  [packet |-> buffer[Len(buffer)], rest |-> <<>>,
   received |-> \E i \in DOMAIN buffer : buffer[i].part = Whole /\ Push(p, buffer, i)]

(* doReceive after recv: fragments are pushed until a request is whole.    *)
Drained(buffer, p) ==
  LET whole == {i \in DOMAIN buffer : buffer[i].part = Whole /\ Push(p, buffer, i)}
      n == IF whole = {} THEN Len(buffer)
           ELSE CHOOSE i \in whole : \A j \in whole : i <= j
  IN [packet |-> IF Push(p, buffer, n) THEN buffer[n] ELSE p,
      rest |-> SubSeq(buffer, n + 1, Len(buffer)),
      received |-> whole # {}]

(* doSend: what the socket takes now; nothing, all, or the first few.      *)
Transmit(n) ==
  /\ txBuffer' = SubSeq(txBuffer, n + 1, Len(txBuffer))
  /\ got' = IF session \in closed THEN got
            ELSE [got EXCEPT ![session] = @ \o SubSeq(txBuffer, 1, n)]

(* Variant: the server does not go back to listening.                      *)
HangupNot == UNCHANGED <<state, session>>

Hangup == state' = "listening" /\ UNCHANGED session

(* A turn in which the connection stays up: k fragments have arrived, and  *)
(* only new ones make the loop look at rxBuffer.                           *)
Serve ==
  /\ state = "session"
  /\ \E k \in 0..Len(wire[session]), n \in 0..Len(txBuffer) :
       /\ k > 0 \/ n > 0
       /\ wire' = [wire EXCEPT ![session] = SubSeq(@, k + 1, Len(@))]
       /\ LET buffer == rxBuffer \o SubSeq(wire[session], 1, k)
              d == Drained(buffer, requestPacket)
          IN IF k > 0 /\ ~requestReceived
             THEN /\ rxBuffer' = d.rest /\ requestPacket' = d.packet
                  /\ requestReceived' = d.received
             ELSE rxBuffer' = buffer /\ UNCHANGED <<requestPacket, requestReceived>>
       /\ Transmit(n)
  /\ UNCHANGED <<connected, closed, sent, state, session, manager>>

(* A turn in which recv or send finds that the client has gone.  What it   *)
(* had sent and was not read yet may be lost with the connection.          *)
Disconnected ==
  /\ state = "session" /\ session \in closed
  /\ Hangup
  /\ UNCHANGED <<clients, rxBuffer, txBuffer, requestPacket, requestReceived,
                 manager>>

-----------------------------------------------------------------------------
(* The command thread.                                                     *)

(* available() reads m_requestReceived without the mutex.                  *)
Available ==
  /\ at = "poll" /\ requestReceived
  /\ at' = "get"
  /\ UNCHANGED <<clients, server, request, executed>>

GetRequest ==
  /\ at = "get" /\ at' = "execute"
  /\ request' = requestPacket
  /\ UNCHANGED <<clients, server, executed>>

ProcessRequest ==
  /\ at = "execute" /\ request.of \notin Unknown /\ at' = "respond"
  /\ executed' = Append(executed, request)
  /\ UNCHANGED <<clients, server, request>>

(* No command has the ID: nothing is executed and nothing answered.        *)
IgnoreRequest ==
  /\ at = "execute" /\ request.of \in Unknown /\ at' = "enable"
  /\ UNCHANGED <<clients, server, request, executed>>

SendResponse ==
  /\ at = "respond" /\ at' = "enable"
  /\ txBuffer' = Append(txBuffer, request.of)
  /\ UNCHANGED <<clients, state, session, rxBuffer, requestPacket,
                 requestReceived, request, executed>>

(* Variants: the flag stays up, with the packet cleared or with it whole.  *)
EnableRequestClears ==
  /\ at = "enable" /\ at' = "poll"
  /\ requestPacket' = Blank
  /\ UNCHANGED <<clients, state, session, rxBuffer, txBuffer, requestReceived,
                 request, executed>>

EnableRequestForgets ==
  /\ at = "enable" /\ at' = "poll"
  /\ UNCHANGED <<clients, server, request, executed>>

EnableRequest ==
  /\ at = "enable" /\ at' = "poll"
  /\ requestReceived' = FALSE
  /\ requestPacket' = IF requestReceived THEN Blank ELSE requestPacket
  /\ UNCHANGED <<clients, state, session, rxBuffer, txBuffer, request, executed>>

ServerThread == Accept \/ Serve \/ Disconnected
CommandThread == Available \/ GetRequest \/ ProcessRequest \/ IgnoreRequest
                   \/ SendResponse \/ EnableRequest
Client == Connect \/ \E s \in Session : Disconnect(s) \/ SendRequest(s)

Next == ServerThread \/ CommandThread \/ Client

Spec == Init /\ [][Next]_vars

(* Both threads loop for ever; clients owe nothing.                        *)
FairSpec == Spec /\ WF_vars(ServerThread) /\ WF_vars(CommandThread)

-----------------------------------------------------------------------------
(* Properties.                                                             *)

ExecutedWhole(i) == executed[i].part = Whole
Before(q, r) == q[1] < r[1] \/ (q[1] = r[1] /\ q[2] < r[2])

(* Whole requests are executed in the order they were sent, each at most   *)
(* once, whatever the connections do meanwhile (execute, enableRequest).   *)
ExecutedInOrder ==
  \A i, j \in DOMAIN executed : i < j /\ ExecutedWhole(i) /\ ExecutedWhole(j)
    => Before(executed[i].of, executed[j].of)

(* The responses on a connection are for requests that were sent on it,    *)
(* and each comes after those to exactly the requests before it that can   *)
(* be answered, those with a bad checksum or an ID no command has left out *)
(* ("to the client that made the request").                                *)
InTurn(responses, s) ==
  \A n \in DOMAIN responses :
    LET r == responses[n]
    IN /\ r \in Answerable /\ r[1] = s
       /\ \A q \in Answerable : q[1] = s =>
            (q[2] < r[2] <=> \E m \in 1..(n - 1) : responses[m] = q)

ResponsesMatch ==
  \A s \in Session :
    /\ InTurn(got[s], s)
    /\ \A n \in DOMAIN got[s] : got[s][n][2] <= sent[s]

(* What the command thread executes is a request received to its last byte *)
(* (getRequest).                                                           *)
OnlyWholeExecuted == \A i \in DOMAIN executed : ExecutedWhole(i)

(* As long as nobody has reconnected both are so, however the two threads  *)
(* interleave and however fast the client sends.                           *)
FirstSessionMatches == session <= 1 => ResponsesMatch
FirstSessionWhole == session <= 1 => OnlyWholeExecuted

(* A request that can be answered is, or its client leaves.                *)
Answered ==
  \A q \in Answerable :
    sent[q[1]] >= q[2] ~> (\E n \in DOMAIN got[q[1]] : got[q[1]][n] = q) \/ q[1] \in closed

(* A client is served once those before it have left.                      *)
Served ==
  \A s \in Session :
    s <= connected /\ 1..(s - 1) \subseteq closed ~> session >= s
=============================================================================
