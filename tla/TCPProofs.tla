------------------------------ MODULE TCPProofs ------------------------------
(***************************************************************************)
(* Theorems about TCP, for any number of sockets, segments and faults and  *)
(* any sequence space: the invariants of the socket tables, that no        *)
(* segment takes a socket back, that no connection is reset without a      *)
(* cause, and that what a socket hands up is what the other end sent.      *)
(***************************************************************************)
EXTENDS TCP, SequenceTheorems, WellFoundedInduction, TLAPS

(***************************************************************************)
(* The inductive invariant.  A client's port is its socket's place in the  *)
(* table, so a port in ClientPorts names one socket.                       *)
(***************************************************************************)
ClientPorts == FirstFreePort .. freePort - 1
Opened(port) == sockets[Client][port - FirstFreePort + 1].opened
Began(port) == sockets[Client][port - FirstFreePort + 1].state # "SYN_SENT"

OpenStates == {"ESTABLISHED", "FIN_WAIT1", "FIN_WAIT2", "CLOSE_WAIT"}
FinWait == {"FIN_WAIT1", "FIN_WAIT2"}

HasRequest(s) == \E n \in DOMAIN s.got : s.got[n].data.get

PortsCounted == /\ freePort = FirstFreePort + Len(sockets[Client])
                /\ Len(sockets[Client]) <= MaxConnects

ClientSocketOK(i, s) ==
    /\ s.lport = FirstFreePort + i - 1 /\ s.rport = ServerPort
    /\ s.state \notin {"LISTEN", "SYN_RECEIVED"}
    /\ s.state \in {"ESTABLISHED", "CLOSE_WAIT"} => s.opened
    /\ s.state = "SYN_SENT" => ~s.opened /\ s.fins = 0

ServerSocketOK(s) ==
    /\ s.lport = ServerPort
    /\ s.state # "SYN_SENT"
    /\ s.state = "LISTEN" <=> s.rport = NoPort
    /\ s.state # "LISTEN" => s.rport \in ClientPorts
    /\ s.state \in OpenStates => Opened(s.rport)
    /\ s.state \in FinWait => HasRequest(s)

ToServerOK(seg) ==
    /\ seg.dport = ServerPort /\ seg.sport \in ClientPorts
    /\ seg.flags \in {{"SYN"}, {"ACK"}, {"PSH", "ACK"}, {"FIN", "ACK"}, {"RST"}}
    /\ "ACK" \in seg.flags => Began(seg.sport)
    /\ seg.flags \in {{"ACK"}, {"PSH", "ACK"}} => Opened(seg.sport)
    /\ seg.data.get => seg.flags = {"PSH", "ACK"}

ToClientOK(seg) ==
    /\ seg.sport = ServerPort /\ seg.dport \in ClientPorts
    /\ seg.flags \in {{"SYN", "ACK"}, {"ACK"}, {"PSH", "ACK"}, {"FIN", "ACK"}, {"RST"}}
    /\ seg.flags \in {{"ACK"}, {"PSH", "ACK"}, {"FIN", "ACK"}} => Opened(seg.dport)
    /\ ~seg.data.get

ClientTable == \A i \in 1 .. Len(sockets[Client]) : ClientSocketOK(i, sockets[Client][i])
ServerTable == \A i \in 1 .. Len(sockets[Server]) : ServerSocketOK(sockets[Server][i])

Elements(q) == {q[k] : k \in 1 .. Len(q)}
Carried(h) == Elements(net[h])
ToServer == \A seg \in Carried(Server) : ToServerOK(seg)
ToClient == \A seg \in Carried(Client) : ToClientOK(seg)

\* Whoever takes a listening socket takes the first one.
ListenersLast ==
    \A i, j \in 1 .. Len(sockets[Server]) :
        i < j /\ sockets[Server][i].state = "LISTEN" => sockets[Server][j].state = "LISTEN"

\* A spinning host is the server, in FIN_WAIT1 or FIN_WAIT2 after a request.
Spinners ==
    /\ spinning \subseteq {Server}
    /\ SpinsOnLaterRequest

IInv ==
    /\ TypeOK /\ PortsCounted /\ ClientTable /\ ServerTable /\ ToServer /\ ToClient
    /\ ListenersLast /\ OneSocketPerClient /\ Spinners
-----------------------------------------------------------------------------
(* The operators.                                                          *)

\* Every segment of rest is one of q's.
Part(rest, q) == \A k \in 1 .. Len(rest) : \E m \in 1 .. Len(q) : rest[k] = q[m]

\* So its segments are among q's.
LEMMA PartIsSubset ==
    ASSUME NEW rest, NEW q, Part(rest, q)
    PROVE  Elements(rest) \subseteq Elements(q)
BY DEF Part, Elements

\* What is left of a queue has only segments of the queue.
LEMMA RestIsPart ==
    ASSUME NEW S, NEW q \in Seq(S)
    PROVE  /\ Part(q, q)
           /\ q # << >> => Tail(q) \in Seq(S) /\ Part(Tail(q), q)
           /\ \A k \in 1 .. Len(q) : RemoveAt(q, k) \in Seq(S) /\ Part(RemoveAt(q, k), q)
<1>1. Part(q, q)
  BY DEF Part
<1>2. ASSUME q # << >> PROVE Tail(q) \in Seq(S) /\ Part(Tail(q), q)
  <2>1. /\ Tail(q) \in Seq(S) /\ Len(Tail(q)) = Len(q) - 1
        /\ \A k \in 1 .. Len(Tail(q)) : Tail(q)[k] = q[k + 1]
    BY <1>2, HeadTailProperties
  <2>2. Len(q) \in Nat
    BY LenProperties
  <2>3. \A k \in 1 .. Len(Tail(q)) : k + 1 \in 1 .. Len(q)
    BY <2>1, <2>2
  <2>. QED
    BY <2>1, <2>3 DEF Part
<1>3. ASSUME NEW k \in 1 .. Len(q)
      PROVE  RemoveAt(q, k) \in Seq(S) /\ Part(RemoveAt(q, k), q)
  <2>. DEFINE a == SubSeq(q, 1, k - 1)
              b == SubSeq(q, k + 1, Len(q))
  <2>1. Len(q) \in Nat
    BY LenProperties
  <2>2. /\ a \in Seq(S) /\ Len(a) = k - 1
        /\ \A m \in 1 .. k - 1 : a[m] = q[m]
    <3>1. 1 \in 1 .. Len(q) + 1 /\ k - 1 \in 1 - 1 .. Len(q)
      BY <2>1
    <3>2. \A m \in 1 .. k - 1 : m \in 1 .. Len(q) /\ 1 + m - 1 = m
      BY <2>1
    <3>. QED
      BY <2>1, <3>1, <3>2, SubSeqProperties
  <2>3. /\ b \in Seq(S) /\ Len(b) = Len(q) - k
        /\ \A m \in 1 .. Len(q) - k : b[m] = q[k + m]
    <3>1. k + 1 \in 1 .. Len(q) + 1 /\ Len(q) \in k + 1 - 1 .. Len(q)
      BY <2>1
    <3>2. \A m \in 1 .. Len(q) - k : (k + 1) + m - 1 = k + m
      BY <2>1
    <3>. QED
      BY <2>1, <3>1, <3>2, SubSeqProperties
  <2>. HIDE DEF a, b
  <2>4. /\ a \o b \in Seq(S) /\ Len(a \o b) = Len(a) + Len(b)
        /\ \A m \in 1 .. Len(a) + Len(b) :
              (a \o b)[m] = IF m <= Len(a) THEN a[m] ELSE b[m - Len(a)]
    BY <2>2, <2>3, ConcatProperties
  <2>5. ASSUME NEW m \in 1 .. Len(a \o b)
        PROVE  \E n \in 1 .. Len(q) : (a \o b)[m] = q[n]
    <3>1. CASE m <= Len(a)
      <4>1. m \in 1 .. k - 1 /\ m \in 1 .. Len(q)
        BY <2>1, <2>2, <2>3, <2>4, <3>1
      <4>. QED
        BY <2>2, <2>4, <3>1, <4>1
    <3>2. CASE ~(m <= Len(a))
      <4>1. m - Len(a) \in 1 .. Len(q) - k /\ k + (m - Len(a)) \in 1 .. Len(q)
        BY <2>1, <2>2, <2>3, <2>4, <3>2
      <4>. QED
        BY <2>3, <2>4, <3>2, <4>1
    <3>. QED
      BY <3>1, <3>2
  <2>6. RemoveAt(q, k) = a \o b
    BY DEF RemoveAt, a, b
  <2>. QED
    BY <2>4, <2>5, <2>6 DEF Part
<1>. QED
  BY <1>1, <1>2, <1>3

\* A non-empty set of naturals has a smallest element.
LEMMA Smallest ==
    ASSUME NEW S, S \subseteq Nat, S # {}
    PROVE  \E i \in S : \A j \in S : i <= j
<1>. DEFINE R == OpToRel(<, Nat)
<1>1. IsWellFoundedOn(R, Nat)
  BY NatLessThanWellFounded
<1>2. \A x, y \in Nat : y < x => <<y, x>> \in R
  BY DEF OpToRel
<1>. HIDE DEF R
<1>3. PICK i \in S : \A j \in S : <<j, i>> \notin R
  BY <1>1, WFMin
<1>4. ASSUME NEW j \in S PROVE i <= j
  <2>1. i \in Nat /\ j \in Nat
    OBVIOUS
  <2>2. ~(j < i)
    BY <1>2, <1>3, <2>1
  <2>. QED
    BY <2>1, <2>2
<1>. QED
  BY <1>4

\* The socket found for a segment is the first that matches.
LEMMA SocketForIsFirst ==
    ASSUME NEW h, NEW seg, NEW S, sockets[h] \in Seq(S), SocketFor(h, seg) # 0
    PROVE  /\ SocketFor(h, seg) \in 1 .. Len(sockets[h])
           /\ Matches(sockets[h][SocketFor(h, seg)], seg)
           /\ \A j \in 1 .. SocketFor(h, seg) - 1 : ~Matches(sockets[h][j], seg)
<1>. DEFINE I == {i \in 1 .. Len(sockets[h]) : Matches(sockets[h][i], seg)}
            i == SocketFor(h, seg)
<1>1. i = IF I # {} THEN Min(I) ELSE 0
  BY DEF SocketFor, SelectInSeq
<1>2. I # {} /\ i = Min(I)
  BY <1>1
<1>3. Len(sockets[h]) \in Nat
  BY LenProperties
<1>4. I \subseteq Nat
  BY <1>3
<1>5. \E m \in I : \A j \in I : m <= j
  BY <1>2, <1>4, Smallest
<1>6. i \in I /\ \A j \in I : i <= j
  BY <1>2, <1>5 DEF Min
<1>7. ASSUME NEW j \in 1 .. i - 1 PROVE ~Matches(sockets[h][j], seg)
  <2>1. j \in 1 .. Len(sockets[h]) /\ ~(i <= j)
    BY <1>3, <1>6
  <2>. QED
    BY <1>6, <2>1
<1>. QED
  BY <1>6, <1>7
-----------------------------------------------------------------------------
(* Types.                                                                  *)

\* What a sum of sequence numbers is.
LEMMA PlusType ==
    ASSUME NEW a \in Int, NEW b \in Int
    PROVE  Plus(a, b) \in 0 .. SeqSpace - 1
<1>1. SeqSpace \in Nat \ {0} /\ a + b \in Int
  BY TCPAssumption
<1>2. \A x \in Int, n \in Nat \ {0} : x % n \in 0 .. n - 1
  OBVIOUS
<1>. QED
  BY <1>1, <1>2 DEF Plus

\* What the constants are.
LEMMA ConstantTypes ==
    /\ Client # Server /\ Hosts = {Client, Server}
    /\ Other(Client) = Server /\ Other(Server) = Client
    /\ NoData \in Payloads /\ Response \in Payloads /\ Requests \subseteq Payloads
    /\ ~NoData.get /\ ~Response.get
    /\ NoPort \in Ports /\ ServerPort \in Ports
    /\ Iss \in 0 .. SeqSpace - 1 /\ 0 \in 0 .. SeqSpace - 1
    /\ \A d \in Payloads : d.len \in Nat /\ d.sig \in Nat /\ Advance(d) \in Int
<1>1. 0 \in 0 .. SeqSpace - 1
  BY TCPAssumption
<1>2. ASSUME NEW d \in Payloads
      PROVE  d.len \in Nat /\ d.sig \in Nat /\ Advance(d) \in Int
  <2>1. d.len \in Nat /\ d.sig \in Nat
    BY TCPAssumption DEF Payloads, NoData, Response
  <2>2. HeaderLen \in Nat
    BY TCPAssumption
  <2>. QED
    BY <2>1, <2>2 DEF Advance
<1>3. Client # Server /\ Iss \in 0 .. SeqSpace - 1
  BY TCPAssumption
<1>. QED
  BY <1>1, <1>2, <1>3 DEF Hosts, Other, Payloads, NoData, Response, Ports, NoPort

\* What a socket's and a segment's fields are, as far as the handlers use them.
LEMMA SocketFields ==
    ASSUME NEW s \in Socket
    PROVE  /\ s.lport \in Ports /\ s.rport \in Ports /\ s.state \in States
           /\ s.seq \in 0 .. SeqSpace - 1 /\ s.ack \in 0 .. SeqSpace - 1
           /\ s.opened \in BOOLEAN /\ s.fins \in Nat
           /\ s.sent \in Seq(Payloads)
           /\ s.got \in Seq([seq : 0 .. SeqSpace - 1, data : Payloads])
BY DEF Socket

\* The segment that leaves a socket is one.
LEMMA OutType ==
    ASSUME NEW s \in Socket, NEW flags \in SUBSET {"SYN", "ACK", "FIN", "RST", "PSH"},
           NEW data \in Payloads
    PROVE  /\ Out(s, flags, data) \in Segment
           /\ Out(s, flags, data).sport = s.lport /\ Out(s, flags, data).dport = s.rport
           /\ Out(s, flags, data).flags = flags /\ Out(s, flags, data).data = data
BY DEF Out, Segment, Socket

\* Data that is sent keeps the socket's ports and state.
LEMMA AfterSendType ==
    ASSUME NEW s \in Socket, NEW data \in Payloads
    PROVE  /\ AfterSend(s, data) \in Socket
           /\ AfterSend(s, data) = [s EXCEPT !.seq = AfterSend(s, data).seq,
                                             !.sent = AfterSend(s, data).sent]
<1>1. s.seq \in Int /\ data.len \in Int
  BY SocketFields, ConstantTypes
<1>2. Plus(s.seq, data.len) \in 0 .. SeqSpace - 1
  BY <1>1, PlusType
<1>3. Append(s.sent, data) \in Seq(Payloads)
  BY SocketFields, AppendProperties
<1>. QED
  BY <1>2, <1>3 DEF AfterSend, Socket

\* So does data that was handed up.
LEMMA CountedType ==
    ASSUME NEW s \in Socket, NEW seg \in Segment
    PROVE  /\ Counted(s, seg) \in Socket
           /\ Counted(s, seg) = [s EXCEPT !.ack = Counted(s, seg).ack,
                                          !.got = Append(@, [seq |-> seg.seq, data |-> seg.data])]
<1>0. seg.seq \in 0 .. SeqSpace - 1 /\ seg.data \in Payloads
  BY DEF Segment
<1>1. s.ack \in Int /\ Advance(seg.data) \in Int
  BY <1>0, SocketFields, ConstantTypes
<1>2. Plus(s.ack, Advance(seg.data)) \in 0 .. SeqSpace - 1
  BY <1>1, PlusType
<1>3. [seq |-> seg.seq, data |-> seg.data] \in [seq : 0 .. SeqSpace - 1, data : Payloads]
  BY <1>0
<1>4. Append(s.got, [seq |-> seg.seq, data |-> seg.data])
        \in Seq([seq : 0 .. SeqSpace - 1, data : Payloads])
  BY <1>3, SocketFields, AppendProperties
<1>. QED
  BY <1>2, <1>4 DEF Counted, Socket

\* A FIN takes a number.
LEMMA DisconnectedType ==
    ASSUME NEW s \in Socket
    PROVE  /\ Disconnected(s) \in Socket
           /\ Disconnected(s) = [s EXCEPT !.state = "FIN_WAIT1", !.seq = Disconnected(s).seq,
                                           !.fins = @ + 1]
<1>1. s.seq \in Int /\ 1 \in Int /\ s.fins + 1 \in Nat
  BY SocketFields
<1>2. Plus(s.seq, 1) \in 0 .. SeqSpace - 1
  BY <1>1, PlusType
<1>. QED
  BY <1>1, <1>2 DEF Disconnected, Socket, States
-----------------------------------------------------------------------------
(* The handlers.  A segment that is not dropped makes socket i become s and *)
(* sends out, or it makes the server spin.                                  *)

\* Segments that only a socket whose connection is open sends.
OpenFlags == {{"ACK"}, {"PSH", "ACK"}, {"FIN", "ACK"}}

\* What socket s may send with the flags allowed; no host sends a request back.
Reply(s, allowed, seg) ==
    /\ seg \in Segment /\ seg.sport = s.lport /\ seg.dport = s.rport
    /\ seg.flags \in allowed /\ ~seg.data.get
Replies(s, allowed, out) ==
    /\ out \in Seq(Segment)
    /\ \A k \in 1 .. Len(out) : Reply(s, allowed, out[k])

ClientFlags(s) == {{"RST"}} \cup IF s.opened THEN OpenFlags ELSE {}
ServerFlags(s) == {{"SYN", "ACK"}, {"RST"}} \cup IF Opened(s.rport) THEN OpenFlags ELSE {}

ClientBecomes(i, s, out) ==
    /\ s \in Socket /\ ClientSocketOK(i, s)
    /\ s.sent = sockets[Client][i].sent /\ s.fins = sockets[Client][i].fins
    /\ s.opened = sockets[Client][i].opened \/ sockets[Client][i].state = "SYN_SENT"
    /\ sockets[Client][i].state # "SYN_SENT" => s.state # "SYN_SENT"
    /\ sockets[Client][i].opened => s.opened
    /\ Rank[s.state] >= Rank[sockets[Client][i].state]
    /\ Replies(s, ClientFlags(s), out)

ServerBecomes(i, s, out) ==
    LET old == sockets[Server][i] IN
    /\ s \in Socket /\ ServerSocketOK(s) /\ s.state # "LISTEN"
    /\ Rank[s.state] >= Rank[old.state]
    /\ old.rport # NoPort => s.rport = old.rport
    /\ old.state = "LISTEN" =>
         \A j \in 1 .. Len(sockets[Server]) :
            /\ sockets[Server][j].rport # s.rport
            /\ j < i => sockets[Server][j].state # "LISTEN"
    /\ Replies(s, ServerFlags(s), out)

\* The states in which a socket is not, or not yet, connected come first.
LEMMA RankFacts ==
    /\ Rank["LISTEN"] = 0 /\ Rank["SYN_SENT"] = 0 /\ Rank["SYN_RECEIVED"] = 1
    /\ Rank["ESTABLISHED"] = 2 /\ Rank["FIN_WAIT1"] = 3 /\ Rank["FIN_WAIT2"] = 4
    /\ Rank["CLOSE_WAIT"] = 4 /\ Rank["CLOSED"] = 5
    /\ \A x \in States : Rank[x] \in Nat
<1>1. DOMAIN Rank = States
  BY DEF Rank, States
<1>. QED
  BY <1>1 DEF Rank, States

\* Where an ACK alone takes a socket.
LEMMA AckMovesFacts ==
    /\ DOMAIN AckMoves = {"SYN_RECEIVED", "FIN_WAIT1", "CLOSE_WAIT"}
    /\ AckMoves["SYN_RECEIVED"] = "ESTABLISHED" /\ AckMoves["FIN_WAIT1"] = "FIN_WAIT2"
    /\ AckMoves["CLOSE_WAIT"] = "CLOSED"
BY DEF AckMoves

\* A sequence of replies.
LEMMA RepliesOf ==
    ASSUME NEW s, NEW allowed
    PROVE  /\ Replies(s, allowed, << >>)
           /\ \A a : Reply(s, allowed, a) => Replies(s, allowed, <<a>>)
           /\ \A a, b : Reply(s, allowed, a) /\ Reply(s, allowed, b)
                          => Replies(s, allowed, <<a, b>>)
           /\ \A a, b, c : Reply(s, allowed, a) /\ Reply(s, allowed, b) /\ Reply(s, allowed, c)
                             => Replies(s, allowed, <<a, b, c>>)
<1>1. Replies(s, allowed, << >>)
  <2>1. << >> \in Seq(Segment) /\ Len(<< >>) = 0
    OBVIOUS
  <2>2. \A k \in 1 .. 0 : FALSE
    OBVIOUS
  <2>. QED
    BY <2>1, <2>2 DEF Replies
<1>2. ASSUME NEW a, Reply(s, allowed, a) PROVE Replies(s, allowed, <<a>>)
  <2>1. a \in Segment
    BY <1>2 DEF Reply
  <2>2. <<a>> \in Seq(Segment) /\ Len(<<a>>) = 1 /\ <<a>>[1] = a
    BY <2>1
  <2>3. \A k \in 1 .. 1 : k = 1
    OBVIOUS
  <2>. QED
    BY <1>2, <2>2, <2>3 DEF Replies
<1>3. ASSUME NEW a, NEW b, Reply(s, allowed, a), Reply(s, allowed, b)
      PROVE  Replies(s, allowed, <<a, b>>)
  <2>1. a \in Segment /\ b \in Segment
    BY <1>3 DEF Reply
  <2>2. <<a, b>> \in Seq(Segment) /\ Len(<<a, b>>) = 2 /\ <<a, b>>[1] = a /\ <<a, b>>[2] = b
    BY <2>1
  <2>3. \A k \in 1 .. 2 : k = 1 \/ k = 2
    OBVIOUS
  <2>. QED
    BY <1>3, <2>2, <2>3 DEF Replies
<1>4. ASSUME NEW a, NEW b, NEW c,
             Reply(s, allowed, a), Reply(s, allowed, b), Reply(s, allowed, c)
      PROVE  Replies(s, allowed, <<a, b, c>>)
  <2>1. a \in Segment /\ b \in Segment /\ c \in Segment
    BY <1>4 DEF Reply
  <2>2. /\ <<a, b, c>> \in Seq(Segment) /\ Len(<<a, b, c>>) = 3
        /\ <<a, b, c>>[1] = a /\ <<a, b, c>>[2] = b /\ <<a, b, c>>[3] = c
    BY <2>1
  <2>3. \A k \in 1 .. 3 : k = 1 \/ k = 2 \/ k = 3
    OBVIOUS
  <2>. QED
    BY <1>4, <2>2, <2>3 DEF Replies
<1>. QED
  BY <1>1, <1>2, <1>3, <1>4

\* A segment that leaves socket t is a reply of any socket with t's ports.
LEMMA OutIsReply ==
    ASSUME NEW s, NEW t \in Socket, t.lport = s.lport, t.rport = s.rport,
           NEW allowed, NEW flags \in allowed,
           flags \in SUBSET {"SYN", "ACK", "FIN", "RST", "PSH"},
           NEW data \in Payloads, ~data.get
    PROVE  Reply(s, allowed, Out(t, flags, data))
BY OutType DEF Reply

\* A segment for the client is dropped, or moves one of its sockets.
LEMMA ClientHandles ==
    ASSUME IInv, NEW m \in 1 .. Len(net[Client]), NEW rest,
           Handle(Client, net[Client][m], rest)
    PROVE  \/ Ignores(Client, rest)
           \/ \E i \in 1 .. Len(sockets[Client]) : \E s, out :
                ClientBecomes(i, s, out) /\ Becomes(Client, rest, i, s, out)
<1>. DEFINE seg == net[Client][m]
            i == SocketFor(Client, seg)
            old == sockets[Client][i]
            Goal == \E j \in 1 .. Len(sockets[Client]) : \E t, o :
                      ClientBecomes(j, t, o) /\ Becomes(Client, rest, j, t, o)
<1>1. /\ sockets[Client] \in Seq(Socket) /\ net[Client] \in Seq(Segment)
  BY ConstantTypes DEF IInv, TypeOK
<1>2. seg \in Segment /\ ToClientOK(seg)
  BY <1>1, ElementOfSeq DEF IInv, ToClient, Carried, Elements
<1>3. CASE i = 0 \/ (i # 0 /\ old.state = "CLOSED")
  BY <1>3 DEF Handle
<1>4. CASE i # 0 /\ old.state # "CLOSED"
  <2>1. i \in 1 .. Len(sockets[Client]) /\ Matches(old, seg)
    BY <1>1, <1>4, SocketForIsFirst
  <2>2. old \in Socket /\ ClientSocketOK(i, old)
    BY <1>1, <2>1, ElementOfSeq DEF IInv, ClientTable
  <2>. SUFFICES Goal \/ Ignores(Client, rest)
    OBVIOUS
  <2>. HIDE DEF i, old, seg, Goal
  <2>3. seg.dport = old.lport
    BY <2>1 DEF Matches
  <2>4. seg.flags \in OpenFlags => old.opened
    <3>1. i = seg.dport - FirstFreePort + 1
      BY <1>1, <2>1, <2>2, <2>3, LenProperties DEF ClientSocketOK, FirstFreePort
    <3>. QED
      BY <1>2, <3>1 DEF ToClientOK, Opened, OpenFlags, old
  <2>5. /\ old.state \in {"SYN_SENT", "ESTABLISHED", "FIN_WAIT1", "FIN_WAIT2", "CLOSE_WAIT"}
        /\ old.lport = FirstFreePort + i - 1 /\ old.rport = ServerPort
    BY <1>4, <2>2 DEF ClientSocketOK, Socket, States, old
  <2>6. seg.flags \in {{"SYN", "ACK"}, {"RST"}} \cup OpenFlags /\ ~seg.data.get
    BY <1>2 DEF ToClientOK, OpenFlags
  <2>7. seg.seq \in Int /\ old.seq \in Int /\ old.ack \in Int /\ 1 \in Int
    BY <1>2, <2>2 DEF Segment, Socket
  <2>8. Plus(seg.seq, 1) \in 0 .. SeqSpace - 1 /\ Plus(old.seq, 1) \in 0 .. SeqSpace - 1
        /\ Plus(old.ack, 1) \in 0 .. SeqSpace - 1
    BY <2>7, PlusType
  \* What suffices of the new socket and of what it sends.
  <2>9. ASSUME NEW s \in Socket, s.lport = old.lport, s.rport = old.rport,
               s.sent = old.sent, s.fins = old.fins,
               s.opened = old.opened \/ (old.state = "SYN_SENT" /\ s.opened),
               NEW x \in {"SYN_SENT", "ESTABLISHED", "FIN_WAIT1", "FIN_WAIT2",
                          "CLOSE_WAIT", "CLOSED"}, s.state = x,
               x \in {"ESTABLISHED", "CLOSE_WAIT"} => s.opened,
               x = "SYN_SENT" => ~s.opened /\ s.fins = 0,
               Rank[x] >= Rank[old.state],
               NEW out, Replies(s, ClientFlags(s), out),
               Becomes(Client, rest, i, s, out)
        PROVE  Goal
    <3>1. old.state # "SYN_SENT" => s.state # "SYN_SENT"
      BY <2>5, <2>9, RankFacts
    <3>2. ClientBecomes(i, s, out)
      BY <2>5, <2>9, <3>1 DEF ClientBecomes, ClientSocketOK, old
    <3>. QED
      BY <2>1, <2>9, <3>2 DEF Goal
  <2>10. ASSUME NEW s, s.lport = old.lport, s.rport = old.rport, s.opened,
                NEW t \in Socket, t.lport = old.lport, t.rport = old.rport,
                NEW flags \in {{"ACK"}, {"FIN", "ACK"}}
         PROVE  Reply(s, ClientFlags(s), Out(t, flags, NoData))
    <3>1. flags \in ClientFlags(s)
      BY <2>10 DEF ClientFlags, OpenFlags
    <3>2. flags \in SUBSET {"SYN", "ACK", "FIN", "RST", "PSH"}
      BY <2>10
    <3>. QED
      BY <2>10, <3>1, <3>2, OutIsReply, ConstantTypes
  <2>11. CASE RstArrives(Client, seg, rest, i)
    <3>. DEFINE s == [old EXCEPT !.state = "CLOSED"]
    <3>1. s \in Socket /\ s.lport = old.lport /\ s.rport = old.rport /\ s.state = "CLOSED"
          /\ s.sent = old.sent /\ s.opened = old.opened
          /\ s.fins = old.fins
      BY <2>2 DEF Socket, States
    <3>2. Rank["CLOSED"] >= Rank[old.state]
      BY <2>5, RankFacts
    <3>3. Becomes(Client, rest, i, s, << >>)
      BY <2>11 DEF RstArrives, old
    <3>. HIDE DEF s
    <3>. QED
      BY <2>9, <3>1, <3>2, <3>3, RepliesOf
  <2>12. CASE "RST" \notin seg.flags /\ SynArrives(Client, seg, rest, i)
    BY <2>6, <2>12 DEF SynArrives, Switched, OpenFlags
  <2>13. CASE "RST" \notin seg.flags /\ SynAckArrives(Client, seg, rest, i)
    <3>. DEFINE s == [old EXCEPT !.state = "ESTABLISHED", !.opened = TRUE,
                                 !.ack = Plus(seg.seq, 1), !.seq = Plus(@, 1)]
                out == <<Out(s, {"ACK"}, NoData)>>
    <3>1. s \in Socket /\ s.lport = old.lport /\ s.rport = old.rport
          /\ s.state = "ESTABLISHED" /\ s.sent = old.sent /\ s.opened
          /\ s.fins = old.fins
      BY <2>2, <2>8 DEF Socket, States
    <3>2. old.state = "SYN_SENT" /\ Rank["ESTABLISHED"] >= Rank[old.state]
      BY <2>13, RankFacts DEF SynAckArrives, old
    <3>3. Becomes(Client, rest, i, s, out)
      BY <2>13 DEF SynAckArrives, old
    <3>. HIDE DEF s
    <3>4. Replies(s, ClientFlags(s), out)
      BY <2>10, <3>1, RepliesOf
    <3>. QED
      BY <2>9, <3>1, <3>2, <3>3, <3>4
  <2>14. CASE "RST" \notin seg.flags /\ FinArrives(Client, seg, rest, i)
    <3>. DEFINE counted == [old EXCEPT !.ack = Plus(@, 1)]
                ack == Out(counted, {"ACK"}, NoData)
                fin == Out(counted, {"FIN", "ACK"}, NoData)
    <3>0. old.opened
      BY <2>4, <2>6, <2>14 DEF FinArrives, Switched, OpenFlags
    <3>1. counted \in Socket /\ counted.lport = old.lport /\ counted.rport = old.rport
          /\ counted.sent = old.sent /\ counted.opened = old.opened
          /\ counted.fins = old.fins
      BY <2>2, <2>8, <3>0 DEF Socket
    <3>2. CASE old.state = "ESTABLISHED"
      <4>. DEFINE s == [counted EXCEPT !.state = "CLOSE_WAIT"]
      <4>1. s \in Socket /\ s.lport = old.lport /\ s.rport = old.rport
            /\ s.state = "CLOSE_WAIT" /\ s.sent = old.sent /\ s.opened = old.opened
            /\ s.fins = old.fins
        BY <3>1 DEF Socket, States
      <4>2. Becomes(Client, rest, i, s, <<ack, fin>>)
        BY <2>14, <3>2 DEF FinArrives, old
      <4>3. Rank["CLOSE_WAIT"] >= Rank[old.state]
        BY <3>2, RankFacts
      <4>. HIDE DEF s, counted
      <4>4. Reply(s, ClientFlags(s), ack) /\ Reply(s, ClientFlags(s), fin)
        BY <2>10, <3>0, <3>1, <4>1
      <4>5. Replies(s, ClientFlags(s), <<ack, fin>>)
        BY <4>4, RepliesOf
      <4>. QED
        BY <2>9, <3>0, <4>1, <4>2, <4>3, <4>5
    <3>3. CASE old.state = "CLOSE_WAIT"
      <4>. DEFINE s == [old EXCEPT !.state = "CLOSED"]
      <4>1. s \in Socket /\ s.lport = old.lport /\ s.rport = old.rport /\ s.state = "CLOSED"
            /\ s.sent = old.sent /\ s.opened = old.opened
            /\ s.fins = old.fins
        BY <2>2 DEF Socket, States
      <4>2. Rank["CLOSED"] >= Rank[old.state]
        BY <2>5, RankFacts
      <4>3. Becomes(Client, rest, i, s, << >>)
        BY <2>14, <3>3 DEF FinArrives, old
      <4>. HIDE DEF s
      <4>. QED
        BY <2>9, <4>1, <4>2, <4>3, RepliesOf
    <3>4. CASE old.state \in {"FIN_WAIT1", "FIN_WAIT2"}
      <4>. DEFINE s == [counted EXCEPT !.state = "CLOSED"]
      <4>1. s \in Socket /\ s.lport = old.lport /\ s.rport = old.rport
            /\ s.state = "CLOSED" /\ s.sent = old.sent /\ s.opened = old.opened
            /\ s.fins = old.fins
        BY <3>1 DEF Socket, States
      <4>2. Becomes(Client, rest, i, s, <<ack>>)
        BY <2>14, <3>4 DEF FinArrives, old
      <4>3. Rank["CLOSED"] >= Rank[old.state]
        BY <2>5, RankFacts
      <4>. HIDE DEF s, counted
      <4>4. Replies(s, ClientFlags(s), <<ack>>)
        BY <2>10, <3>0, <3>1, <4>1, RepliesOf
      <4>. QED
        BY <2>9, <4>1, <4>2, <4>3, <4>4
    <3>. QED
      BY <2>14, <3>2, <3>3, <3>4 DEF FinArrives, old
  <2>15. CASE "RST" \notin seg.flags /\ AckArrives(Client, seg, rest, i)
    <3>. DEFINE s == [old EXCEPT !.state = AckMoves[old.state]]
    <3>1. old.state \in {"FIN_WAIT1", "CLOSE_WAIT"}
      BY <2>5, <2>15, AckMovesFacts DEF AckArrives, old
    <3>2. AckMoves[old.state] \in {"FIN_WAIT2", "CLOSED"}
          /\ Rank[AckMoves[old.state]] >= Rank[old.state]
      BY <3>1, AckMovesFacts, RankFacts
    <3>3. s \in Socket /\ s.lport = old.lport /\ s.rport = old.rport
          /\ s.state = AckMoves[old.state] /\ s.sent = old.sent /\ s.opened = old.opened
          /\ s.fins = old.fins
      BY <2>2, <3>2 DEF Socket, States
    <3>4. Becomes(Client, rest, i, s, << >>)
      BY <2>15 DEF AckArrives, old
    <3>. HIDE DEF s
    <3>. QED
      BY <2>9, <3>2, <3>3, <3>4, RepliesOf
  <2>16. CASE PlainAckArrives(Client, seg, rest, i)
    BY <2>16 DEF PlainAckArrives
  <2>17. CASE "RST" \notin seg.flags /\ TextArrives(Client, seg, rest, i)
    <3>. DEFINE s == Counted(old, seg)
    <3>1. s \in Socket /\ s.lport = old.lport /\ s.rport = old.rport /\ s.state = old.state
          /\ s.sent = old.sent /\ s.opened = old.opened
          /\ s.fins = old.fins
      BY <1>2, <2>2, CountedType DEF Counted, Socket
    <3>2. seg.flags \in OpenFlags
      BY <2>6, <2>17 DEF TextArrives, IsData, Switched
    <3>3. Becomes(Client, rest, i, s, <<Out(s, {"ACK"}, NoData)>>)
      BY <2>17 DEF TextArrives, old
    <3>. HIDE DEF s
    <3>4. old.opened /\ old.state # "SYN_SENT" /\ Rank[old.state] >= Rank[old.state]
      BY <2>2, <2>4, <2>5, <3>2, RankFacts DEF ClientSocketOK
    <3>5. Replies(s, ClientFlags(s), <<Out(s, {"ACK"}, NoData)>>)
      BY <2>10, <3>1, <3>4, RepliesOf
    <3>. QED
      BY <2>5, <2>9, <3>1, <3>3, <3>4, <3>5
  <2>18. CASE RequestArrives(Client, seg, rest, i) \/ RequestSpins(Client, seg, rest, i)
    BY <2>6, <2>18 DEF RequestArrives, RequestSpins
  <2>19. CASE IsRefused(Client, seg, rest, i)
    <3>1. Becomes(Client, rest, i, old, <<Out(old, {"RST"}, NoData)>>)
      BY <2>19 DEF IsRefused, old
    <3>2. Reply(old, ClientFlags(old), Out(old, {"RST"}, NoData))
      BY <2>2, OutIsReply, ConstantTypes DEF ClientFlags
    <3>3. Rank[old.state] >= Rank[old.state]
      BY <2>5, RankFacts
    <3>4. /\ old.state \in {"ESTABLISHED", "CLOSE_WAIT"} => old.opened
          /\ old.state = "SYN_SENT" => ~old.opened /\ old.fins = 0
      BY <2>2 DEF ClientSocketOK
    <3>. QED
      BY <2>2, <2>5, <2>9, <3>1, <3>2, <3>3, <3>4, RepliesOf
  <2>20. \/ RstArrives(Client, seg, rest, i)
         \/ /\ "RST" \notin seg.flags
            /\ \/ SynArrives(Client, seg, rest, i) \/ SynAckArrives(Client, seg, rest, i)
               \/ FinArrives(Client, seg, rest, i) \/ AckArrives(Client, seg, rest, i)
               \/ PlainAckArrives(Client, seg, rest, i) \/ TextArrives(Client, seg, rest, i)
               \/ RequestArrives(Client, seg, rest, i) \/ RequestSpins(Client, seg, rest, i)
               \/ IsRefused(Client, seg, rest, i)
    BY <1>4 DEF Handle, i, seg, old
  <2>. QED
    BY <2>11, <2>12, <2>13, <2>14, <2>15, <2>16, <2>17, <2>18, <2>19, <2>20
<1>. QED
  BY <1>3, <1>4

\* What was handed up stays handed up.
LEMMA AppendKeepsRequest ==
    ASSUME NEW s \in Socket, NEW t, NEW seg \in Segment,
           t.got = Append(s.got, [seq |-> seg.seq, data |-> seg.data])
    PROVE  (HasRequest(s) \/ seg.data.get) => HasRequest(t)
<1>. DEFINE Item == [seq : 0 .. SeqSpace - 1, data : Payloads]
            item == [seq |-> seg.seq, data |-> seg.data]
<1>1. s.got \in Seq(Item) /\ item \in Item
  BY DEF Socket, Segment
<1>2. Len(s.got) \in Nat /\ DOMAIN s.got = 1 .. Len(s.got)
  BY <1>1, LenProperties
<1>. HIDE DEF Item
<1>3. /\ t.got \in Seq(Item) /\ Len(t.got) = Len(s.got) + 1
      /\ \A n \in 1 .. Len(s.got) : t.got[n] = s.got[n]
      /\ t.got[Len(s.got) + 1] = item
  BY <1>1, AppendProperties
<1>4. DOMAIN t.got = 1 .. Len(s.got) + 1
  BY <1>3, LenProperties
<1>5. /\ \A n \in 1 .. Len(s.got) : n \in 1 .. Len(s.got) + 1
      /\ Len(s.got) + 1 \in 1 .. Len(s.got) + 1
  BY <1>2
<1>6. item.data = seg.data
  OBVIOUS
<1>. QED
  BY <1>2, <1>3, <1>4, <1>5, <1>6 DEF HasRequest

\* What a spinning server looks like.
ServerSpins(rest) ==
    /\ spinning' = spinning \cup {Server}
    /\ net' = [net EXCEPT ![Server] = rest]
    /\ UNCHANGED sockets
    /\ \E i \in 1 .. Len(sockets[Server]) :
         sockets[Server][i].state \in FinWait /\ HasRequest(sockets[Server][i])

\* A segment for the server is dropped, moves one of its sockets or makes it spin.
LEMMA ServerHandles ==
    ASSUME IInv, NEW m \in 1 .. Len(net[Server]), NEW rest,
           Handle(Server, net[Server][m], rest)
    PROVE  \/ Ignores(Server, rest)
           \/ ServerSpins(rest)
           \/ \E i \in 1 .. Len(sockets[Server]) : \E s, out :
                ServerBecomes(i, s, out) /\ Becomes(Server, rest, i, s, out)
<1>. DEFINE seg == net[Server][m]
            i == SocketFor(Server, seg)
            old == sockets[Server][i]
            Goal == \E j \in 1 .. Len(sockets[Server]) : \E t, o :
                      ServerBecomes(j, t, o) /\ Becomes(Server, rest, j, t, o)
<1>1. /\ sockets[Server] \in Seq(Socket) /\ net[Server] \in Seq(Segment)
  BY ConstantTypes DEF IInv, TypeOK
<1>2. seg \in Segment /\ ToServerOK(seg)
  BY <1>1, ElementOfSeq DEF IInv, ToServer, Carried, Elements
<1>3. CASE i = 0 \/ (i # 0 /\ old.state = "CLOSED")
  BY <1>3 DEF Handle
<1>4. CASE i # 0 /\ old.state # "CLOSED"
  <2>1. /\ i \in 1 .. Len(sockets[Server]) /\ Matches(old, seg)
        /\ \A j \in 1 .. i - 1 : ~Matches(sockets[Server][j], seg)
    BY <1>1, <1>4, SocketForIsFirst
  <2>2. old \in Socket /\ ServerSocketOK(old)
    BY <1>1, <2>1, ElementOfSeq DEF IInv, ServerTable
  <2>. SUFFICES Goal \/ ServerSpins(rest) \/ Ignores(Server, rest)
    OBVIOUS
  <2>. HIDE DEF i, old, seg, Goal
  <2>3. /\ old.state \in {"LISTEN", "SYN_RECEIVED", "ESTABLISHED", "FIN_WAIT1", "FIN_WAIT2",
                          "CLOSE_WAIT"}
        /\ old.lport = ServerPort
    BY <1>4, <2>2 DEF ServerSocketOK, Socket, States, old
  <2>4. seg.flags \in {{"SYN"}, {"RST"}} \cup OpenFlags
        /\ (seg.data.get => seg.flags = {"PSH", "ACK"})
        /\ seg.sport \in ClientPorts
    BY <1>2 DEF ToServerOK, OpenFlags
  <2>5. seg.sport # NoPort
    <3>1. \A port \in ClientPorts : port # 0
      BY DEF ClientPorts, FirstFreePort
    <3>. QED
      BY <2>4, <3>1 DEF NoPort
  <2>6. old.state = "LISTEN" => seg.flags = {"SYN"}
    BY <2>1, <2>2, <2>4, <2>5 DEF Matches, ServerSocketOK, OpenFlags
  <2>7. old.state # "LISTEN" => old.rport = seg.sport
    BY <2>1 DEF Matches
  <2>8. /\ seg.flags \in OpenFlags => old.state # "LISTEN"
        /\ seg.flags \in {{"ACK"}, {"PSH", "ACK"}} => Opened(old.rport)
        /\ old.state \in OpenStates => Opened(old.rport)
    BY <1>2, <2>2, <2>4, <2>6, <2>7 DEF ToServerOK, OpenFlags, ServerSocketOK
  <2>9. seg.seq \in Int /\ old.seq \in Int /\ old.ack \in Int /\ 1 \in Int /\ Iss \in Int
    BY <1>2, <2>2, ConstantTypes DEF Segment, Socket
  <2>10. Plus(seg.seq, 1) \in 0 .. SeqSpace - 1 /\ Plus(Iss, 1) \in 0 .. SeqSpace - 1
         /\ Plus(old.ack, 1) \in 0 .. SeqSpace - 1
    BY <2>9, PlusType
  \* What suffices of the new socket and of what it sends.
  <2>11. ASSUME old.state # "LISTEN",
                NEW s \in Socket, s.lport = old.lport, s.rport = old.rport,
                NEW x \in {"SYN_RECEIVED", "ESTABLISHED", "FIN_WAIT1", "FIN_WAIT2",
                           "CLOSE_WAIT", "CLOSED"}, s.state = x,
                Rank[x] >= Rank[old.state],
                x \in OpenStates => Opened(old.rport),
                x \in FinWait => HasRequest(s),
                NEW out, Replies(s, ServerFlags(s), out),
                Becomes(Server, rest, i, s, out)
         PROVE  Goal
    <3>1. ServerSocketOK(s)
      BY <2>2, <2>3, <2>11 DEF ServerSocketOK
    <3>2. ServerBecomes(i, s, out)
      BY <2>11, <3>1 DEF ServerBecomes, old
    <3>. QED
      BY <2>1, <2>11, <3>2 DEF Goal
  <2>12. ASSUME NEW s, s.lport = old.lport, s.rport = old.rport, Opened(old.rport),
                NEW t \in Socket, t.lport = old.lport, t.rport = old.rport,
                NEW flags \in OpenFlags, NEW data \in {NoData, Response}
         PROVE  Reply(s, ServerFlags(s), Out(t, flags, data))
    <3>1. flags \in ServerFlags(s)
      BY <2>12 DEF ServerFlags
    <3>2. flags \in SUBSET {"SYN", "ACK", "FIN", "RST", "PSH"}
      BY <2>12 DEF OpenFlags
    <3>. QED
      BY <2>12, <3>1, <3>2, OutIsReply, ConstantTypes
  <2>13. {"ACK"} \in OpenFlags /\ {"FIN", "ACK"} \in OpenFlags /\ {"PSH", "ACK"} \in OpenFlags
    BY DEF OpenFlags
  <2>14. CASE RstArrives(Server, seg, rest, i)
    <3>. DEFINE s == [old EXCEPT !.state = "CLOSED"]
    <3>1. s \in Socket /\ s.lport = old.lport /\ s.rport = old.rport /\ s.state = "CLOSED"
      BY <2>2 DEF Socket, States
    <3>2. Rank["CLOSED"] >= Rank[old.state]
      BY <2>3, RankFacts
    <3>3. Becomes(Server, rest, i, s, << >>)
      BY <2>14 DEF RstArrives, old
    <3>4. old.state # "LISTEN"
      BY <2>6, <2>14 DEF RstArrives
    <3>. HIDE DEF s
    <3>. QED
      BY <2>11, <3>1, <3>2, <3>3, <3>4, RepliesOf DEF OpenStates, FinWait
  <2>15. CASE "RST" \notin seg.flags /\ SynArrives(Server, seg, rest, i)
    <3>. DEFINE s == [old EXCEPT !.state = "SYN_RECEIVED", !.rport = seg.sport,
                                 !.ack = Plus(seg.seq, 1), !.seq = Iss]
                t == [s EXCEPT !.seq = Plus(@, 1)]
                out == <<Out(s, {"SYN", "ACK"}, NoData)>>
    <3>1. old.state = "LISTEN" /\ seg.flags = {"SYN"}
      BY <2>6, <2>15 DEF SynArrives, old
    <3>2. s \in Socket /\ s.lport = old.lport /\ s.rport = seg.sport
          /\ s.state = "SYN_RECEIVED" /\ s.seq = Iss
      BY <1>2, <2>2, <2>10, ConstantTypes DEF Socket, Segment, States
    <3>3. t \in Socket /\ t.lport = old.lport /\ t.rport = seg.sport
          /\ t.state = "SYN_RECEIVED"
      BY <3>2, <2>10 DEF Socket
    <3>4. Becomes(Server, rest, i, t, out)
      BY <2>15 DEF SynArrives, old
    <3>. HIDE DEF s, t
    <3>5. ServerSocketOK(t)
      BY <2>3, <2>4, <2>5, <3>3 DEF ServerSocketOK, OpenStates, FinWait
    <3>6. Rank[t.state] >= Rank[old.state]
      BY <3>1, <3>3, RankFacts
    <3>7. old.rport = NoPort
      BY <2>2, <3>1 DEF ServerSocketOK
    <3>8. ASSUME NEW j \in 1 .. Len(sockets[Server])
          PROVE  /\ sockets[Server][j].rport # t.rport
                 /\ j < i => sockets[Server][j].state # "LISTEN"
      <4>1. ServerSocketOK(sockets[Server][j])
        BY DEF IInv, ServerTable
      <4>2. Len(sockets[Server]) \in Nat
        BY <1>1, LenProperties
      <4>3. CASE j < i
        <5>1. j \in 1 .. i - 1
          BY <2>1, <4>2, <4>3
        <5>2. ~Matches(sockets[Server][j], seg)
          BY <2>1, <5>1
        <5>3. sockets[Server][j].lport = seg.dport
          BY <1>2, <4>1 DEF ServerSocketOK, ToServerOK
        <5>4. seg.flags \cap {"SYN", "ACK"} = {"SYN"}
          BY <3>1
        <5>. QED
          BY <3>3, <5>2, <5>3, <5>4 DEF Matches
      <4>4. CASE j = i
        BY <2>5, <3>3, <3>7, <4>2, <4>4 DEF old
      <4>5. CASE i < j
        <5>1. sockets[Server][j].state = "LISTEN"
          BY <2>1, <3>1, <4>5 DEF IInv, ListenersLast, old
        <5>2. sockets[Server][j].rport = NoPort
          BY <4>1, <5>1 DEF ServerSocketOK
        <5>. QED
          BY <2>1, <2>5, <3>3, <4>2, <4>5, <5>2
      <4>. QED
        BY <2>1, <4>2, <4>3, <4>4, <4>5
    <3>9. Replies(t, ServerFlags(t), out)
      <4>1. {"SYN", "ACK"} \in ServerFlags(t)
        BY DEF ServerFlags
      <4>2. Reply(t, ServerFlags(t), Out(s, {"SYN", "ACK"}, NoData))
        BY <3>2, <3>3, <4>1, OutIsReply, ConstantTypes
      <4>. QED
        BY <4>2, RepliesOf
    <3>10. ServerBecomes(i, t, out)
      BY <3>3, <3>5, <3>6, <3>7, <3>8, <3>9 DEF ServerBecomes, old
    <3>. QED
      BY <2>1, <3>4, <3>10 DEF Goal
  <2>16. CASE "RST" \notin seg.flags /\ SynAckArrives(Server, seg, rest, i)
    BY <2>3, <2>16 DEF SynAckArrives, old
  <2>17. CASE "RST" \notin seg.flags /\ FinArrives(Server, seg, rest, i)
    <3>. DEFINE counted == [old EXCEPT !.ack = Plus(@, 1)]
                ack == Out(counted, {"ACK"}, NoData)
                fin == Out(counted, {"FIN", "ACK"}, NoData)
    <3>0. Opened(old.rport) /\ old.state # "LISTEN"
      BY <2>4, <2>8, <2>17 DEF FinArrives, Switched, OpenFlags, OpenStates, old
    <3>1. counted \in Socket /\ counted.lport = old.lport /\ counted.rport = old.rport
      BY <2>2, <2>10 DEF Socket
    <3>2. CASE old.state = "ESTABLISHED"
      <4>. DEFINE s == [counted EXCEPT !.state = "CLOSE_WAIT"]
      <4>1. s \in Socket /\ s.lport = old.lport /\ s.rport = old.rport
            /\ s.state = "CLOSE_WAIT"
        BY <3>1 DEF Socket, States
      <4>2. Becomes(Server, rest, i, s, <<ack, fin>>)
        BY <2>17, <3>2 DEF FinArrives, old
      <4>3. Rank["CLOSE_WAIT"] >= Rank[old.state]
        BY <3>2, RankFacts
      <4>. HIDE DEF s, counted
      <4>4. Reply(s, ServerFlags(s), ack) /\ Reply(s, ServerFlags(s), fin)
        BY <2>12, <2>13, <3>0, <3>1, <4>1
      <4>5. Replies(s, ServerFlags(s), <<ack, fin>>)
        BY <4>4, RepliesOf
      <4>. QED
        BY <2>11, <3>0, <4>1, <4>2, <4>3, <4>5 DEF FinWait
    <3>3. CASE old.state = "CLOSE_WAIT"
      <4>. DEFINE s == [old EXCEPT !.state = "CLOSED"]
      <4>1. s \in Socket /\ s.lport = old.lport /\ s.rport = old.rport /\ s.state = "CLOSED"
        BY <2>2 DEF Socket, States
      <4>2. Rank["CLOSED"] >= Rank[old.state]
        BY <2>3, RankFacts
      <4>3. Becomes(Server, rest, i, s, << >>)
        BY <2>17, <3>3 DEF FinArrives, old
      <4>. HIDE DEF s
      <4>. QED
        BY <2>11, <3>0, <4>1, <4>2, <4>3, RepliesOf DEF FinWait
    <3>4. CASE old.state \in {"FIN_WAIT1", "FIN_WAIT2"}
      <4>. DEFINE s == [counted EXCEPT !.state = "CLOSED"]
      <4>1. s \in Socket /\ s.lport = old.lport /\ s.rport = old.rport
            /\ s.state = "CLOSED"
        BY <3>1 DEF Socket, States
      <4>2. Becomes(Server, rest, i, s, <<ack>>)
        BY <2>17, <3>4 DEF FinArrives, old
      <4>3. Rank["CLOSED"] >= Rank[old.state]
        BY <2>3, RankFacts
      <4>. HIDE DEF s, counted
      <4>4. Replies(s, ServerFlags(s), <<ack>>)
        BY <2>12, <2>13, <3>0, <3>1, <4>1, RepliesOf
      <4>. QED
        BY <2>11, <3>0, <4>1, <4>2, <4>3, <4>4 DEF FinWait
    <3>. QED
      BY <2>17, <3>2, <3>3, <3>4 DEF FinArrives, old
  <2>18. CASE "RST" \notin seg.flags /\ AckArrives(Server, seg, rest, i)
    <3>. DEFINE s == [old EXCEPT !.state = AckMoves[old.state]]
    <3>0. Opened(old.rport) /\ old.state # "LISTEN"
      BY <2>4, <2>8, <2>18 DEF AckArrives, Switched, OpenFlags
    <3>1. old.state \in {"SYN_RECEIVED", "FIN_WAIT1", "CLOSE_WAIT"}
      BY <2>18, AckMovesFacts DEF AckArrives, old
    <3>2. AckMoves[old.state] \in {"ESTABLISHED", "FIN_WAIT2", "CLOSED"}
          /\ Rank[AckMoves[old.state]] >= Rank[old.state]
          /\ (AckMoves[old.state] = "FIN_WAIT2" => old.state = "FIN_WAIT1")
      BY <3>1, AckMovesFacts, RankFacts
    <3>3. s \in Socket /\ s.lport = old.lport /\ s.rport = old.rport
          /\ s.state = AckMoves[old.state] /\ s.got = old.got
      BY <2>2, <3>2 DEF Socket, States
    <3>4. Becomes(Server, rest, i, s, << >>)
      BY <2>18 DEF AckArrives, old
    <3>. HIDE DEF s
    <3>5. AckMoves[old.state] \in FinWait => HasRequest(s)
      BY <2>2, <3>2, <3>3 DEF ServerSocketOK, HasRequest, FinWait
    <3>. QED
      BY <2>11, <3>0, <3>2, <3>3, <3>4, <3>5, RepliesOf
  <2>19. CASE PlainAckArrives(Server, seg, rest, i)
    BY <2>19 DEF PlainAckArrives
  <2>20. CASE "RST" \notin seg.flags /\ TextArrives(Server, seg, rest, i)
    <3>. DEFINE s == Counted(old, seg)
                item == [seq |-> seg.seq, data |-> seg.data]
    <3>0. Opened(old.rport) /\ old.state # "LISTEN"
      BY <2>4, <2>8, <2>20 DEF TextArrives, IsData, Switched, OpenFlags
    <3>1. s \in Socket /\ s.lport = old.lport /\ s.rport = old.rport /\ s.state = old.state
          /\ s.got = Append(old.got, item)
      BY <1>2, <2>2, CountedType DEF Counted, Socket
    <3>2. Becomes(Server, rest, i, s, <<Out(s, {"ACK"}, NoData)>>)
      BY <2>20 DEF TextArrives, old
    <3>. HIDE DEF s
    <3>3. Rank[old.state] >= Rank[old.state]
      BY <2>3, RankFacts
    <3>4. Replies(s, ServerFlags(s), <<Out(s, {"ACK"}, NoData)>>)
      BY <2>12, <2>13, <3>0, <3>1, RepliesOf
    <3>5. HasRequest(old) => HasRequest(s)
      BY <1>2, <2>2, <3>1, AppendKeepsRequest
    <3>. QED
      BY <2>2, <2>3, <2>11, <3>0, <3>1, <3>2, <3>3, <3>4, <3>5 DEF ServerSocketOK
  <2>21. CASE "RST" \notin seg.flags /\ RequestArrives(Server, seg, rest, i)
    <3>. DEFINE sent == AfterSend(old, Response)
                fin == Disconnected(sent)
                done == Counted(fin, seg)
                item == [seq |-> seg.seq, data |-> seg.data]
    <3>0. Opened(old.rport) /\ old.state # "LISTEN" /\ old.state = "ESTABLISHED"
          /\ seg.data.get
      BY <2>4, <2>8, <2>21 DEF RequestArrives, OpenFlags, old
    <3>1. sent \in Socket /\ sent.lport = old.lport /\ sent.rport = old.rport
          /\ sent.got = old.got
      BY <2>2, AfterSendType, ConstantTypes DEF AfterSend, Socket
    <3>2. fin \in Socket /\ fin.lport = old.lport /\ fin.rport = old.rport
          /\ fin.state = "FIN_WAIT1" /\ fin.got = old.got
      BY <3>1, DisconnectedType DEF Disconnected, Socket
    <3>3. done \in Socket /\ done.lport = old.lport /\ done.rport = old.rport
          /\ done.state = "FIN_WAIT1" /\ done.got = Append(old.got, item)
      BY <1>2, <3>2, CountedType DEF Counted, Socket
    <3>4. Becomes(Server, rest, i, done,
                  <<Out(old, {"PSH", "ACK"}, Response), Out(sent, {"FIN", "ACK"}, NoData),
                    Out(done, {"ACK"}, NoData)>>)
      BY <2>21 DEF RequestArrives, old
    <3>. HIDE DEF sent, fin, done
    <3>5. Rank["FIN_WAIT1"] >= Rank[old.state]
      BY <3>0, RankFacts
    <3>6. /\ Reply(done, ServerFlags(done), Out(old, {"PSH", "ACK"}, Response))
          /\ Reply(done, ServerFlags(done), Out(sent, {"FIN", "ACK"}, NoData))
          /\ Reply(done, ServerFlags(done), Out(done, {"ACK"}, NoData))
      BY <2>2, <2>12, <2>13, <3>0, <3>1, <3>3
    <3>7. HasRequest(done)
      BY <1>2, <2>2, <3>0, <3>3, AppendKeepsRequest
    <3>8. \E out : Replies(done, ServerFlags(done), out) /\ Becomes(Server, rest, i, done, out)
      BY <3>4, <3>6, RepliesOf
    <3>. QED
      BY <2>11, <3>0, <3>3, <3>5, <3>7, <3>8
  <2>22. CASE "RST" \notin seg.flags /\ RequestSpins(Server, seg, rest, i)
    <3>1. old.state \in FinWait
      BY <2>3, <2>4, <2>8, <2>22, AckMovesFacts
         DEF RequestSpins, IsData, Switched, OpenFlags, FinWait, old
    <3>2. HasRequest(old)
      BY <2>2, <3>1 DEF ServerSocketOK
    <3>. QED
      BY <2>1, <2>22, <3>1, <3>2 DEF RequestSpins, ServerSpins, old
  <2>23. CASE "RST" \notin seg.flags /\ IsRefused(Server, seg, rest, i)
    <3>0. old.state # "LISTEN"
      BY <2>6, <2>23 DEF IsRefused, Refused, Switched, WrongOrder, IsData, old
    <3>1. Becomes(Server, rest, i, old, <<Out(old, {"RST"}, NoData)>>)
      BY <2>23 DEF IsRefused, old
    <3>2. Reply(old, ServerFlags(old), Out(old, {"RST"}, NoData))
      BY <2>2, OutIsReply, ConstantTypes DEF ServerFlags
    <3>3. Rank[old.state] >= Rank[old.state]
      BY <2>3, RankFacts
    <3>4. Replies(old, ServerFlags(old), <<Out(old, {"RST"}, NoData)>>)
      BY <3>2, RepliesOf
    <3>. QED
      BY <2>2, <2>3, <2>11, <3>0, <3>1, <3>3, <3>4 DEF ServerSocketOK
  <2>24. \/ RstArrives(Server, seg, rest, i)
         \/ /\ "RST" \notin seg.flags
            /\ \/ SynArrives(Server, seg, rest, i) \/ SynAckArrives(Server, seg, rest, i)
               \/ FinArrives(Server, seg, rest, i) \/ AckArrives(Server, seg, rest, i)
               \/ PlainAckArrives(Server, seg, rest, i) \/ TextArrives(Server, seg, rest, i)
               \/ RequestArrives(Server, seg, rest, i) \/ RequestSpins(Server, seg, rest, i)
               \/ IsRefused(Server, seg, rest, i)
    BY <1>4 DEF Handle, i, seg, old
  <2>. QED
    BY <2>14, <2>15, <2>16, <2>17, <2>18, <2>19, <2>20, <2>21, <2>22, <2>23, <2>24
<1>. QED
  BY <1>3, <1>4
-----------------------------------------------------------------------------
(* The steps keep the invariant.                                           *)

\* Every segment of r is one of q's or one of out's.
Mixed(r, q, out) ==
    \A k \in 1 .. Len(r) : \/ \E m \in 1 .. Len(q) : r[k] = q[m]
                           \/ \E m \in 1 .. Len(out) : r[k] = out[m]

\* So r's segments are among theirs.
LEMMA MixedIsUnion ==
    ASSUME NEW r, NEW q, NEW out, Mixed(r, q, out)
    PROVE  Elements(r) \subseteq Elements(q) \cup Elements(out)
BY DEF Mixed, Elements

\* Segments are put behind those that are on their way.
LEMMA ConcatIsMixed ==
    ASSUME NEW S, NEW q \in Seq(S), NEW out \in Seq(S)
    PROVE  q \o out \in Seq(S) /\ Mixed(q \o out, q, out)
<1>1. Len(q) \in Nat /\ Len(out) \in Nat
  BY LenProperties
<1>2. /\ q \o out \in Seq(S) /\ Len(q \o out) = Len(q) + Len(out)
      /\ \A k \in 1 .. Len(q) + Len(out) :
            (q \o out)[k] = IF k <= Len(q) THEN q[k] ELSE out[k - Len(q)]
  BY ConcatProperties
<1>3. ASSUME NEW k \in 1 .. Len(q) + Len(out)
      PROVE  \/ \E m \in 1 .. Len(q) : (q \o out)[k] = q[m]
             \/ \E m \in 1 .. Len(out) : (q \o out)[k] = out[m]
  <2>1. CASE k <= Len(q)
    <3>1. k \in 1 .. Len(q)
      BY <1>1, <2>1
    <3>. QED
      BY <1>2, <2>1, <3>1
  <2>2. CASE ~(k <= Len(q))
    <3>1. k - Len(q) \in 1 .. Len(out)
      BY <1>1, <2>2
    <3>. QED
      BY <1>2, <2>2, <3>1
  <2>. QED
    BY <2>1, <2>2
<1>. QED
  BY <1>2, <1>3 DEF Mixed

\* So is a single one.
LEMMA AppendIsMixed ==
    ASSUME NEW S, NEW q \in Seq(S), NEW seg \in S
    PROVE  Append(q, seg) \in Seq(S) /\ Mixed(Append(q, seg), q, <<seg>>)
<1>1. <<seg>> \in Seq(S) /\ Append(q, seg) = q \o <<seg>>
  BY AppendIsConcat
<1>. QED
  BY <1>1, ConcatIsMixed

\* While no connection closes up again, what was in order stays so.
LEMMA StaysOpened ==
    ASSUME \A port \in ClientPorts : /\ port \in ClientPorts' /\ (Opened(port) => Opened(port)')
                                     /\ (Began(port) => Began(port)')
    PROVE  /\ \A s : ServerSocketOK(s) => ServerSocketOK(s)'
           /\ \A seg : ToServerOK(seg) => ToServerOK(seg)'
           /\ \A seg : ToClientOK(seg) => ToClientOK(seg)'
<1>1. ASSUME NEW s, ServerSocketOK(s) PROVE ServerSocketOK(s)'
  <2>1. s.state \in OpenStates => s.state # "LISTEN"
    BY DEF OpenStates
  <2>. QED
    BY <1>1, <2>1 DEF ServerSocketOK
<1>2. ASSUME NEW seg, ToServerOK(seg) PROVE ToServerOK(seg)'
  BY <1>2 DEF ToServerOK
<1>3. ASSUME NEW seg, ToClientOK(seg) PROVE ToClientOK(seg)'
  BY <1>3 DEF ToClientOK
<1>. QED
  BY <1>1, <1>2, <1>3

\* A port in use stands for a socket in the client's table.
LEMMA ClientPortFacts ==
    ASSUME IInv
    PROVE  /\ sockets[Client] \in Seq(Socket) /\ Len(sockets[Client]) \in Nat
           /\ freePort = FirstFreePort + Len(sockets[Client])
           /\ \A port \in ClientPorts :
                port \in Int /\ port - FirstFreePort + 1 \in 1 .. Len(sockets[Client])
           /\ \A i \in 1 .. Len(sockets[Client]) : FirstFreePort + i - 1 \in ClientPorts
<1>1. sockets[Client] \in Seq(Socket)
  BY ConstantTypes DEF IInv, TypeOK
<1>2. Len(sockets[Client]) \in Nat
  BY <1>1, LenProperties
<1>3. freePort = FirstFreePort + Len(sockets[Client])
  BY DEF IInv, PortsCounted
<1>. QED
  BY <1>1, <1>2, <1>3 DEF ClientPorts, FirstFreePort

\* One entry of a table changes.
LEMMA TableExcept ==
    ASSUME NEW h \in Hosts, sockets \in [Hosts -> Seq(Socket)],
           NEW i \in 1 .. Len(sockets[h]), NEW s \in Socket,
           sockets' = [sockets EXCEPT ![h][i] = s]
    PROVE  /\ sockets' \in [Hosts -> Seq(Socket)]
           /\ \A o \in Hosts : o # h => sockets'[o] = sockets[o]
           /\ Len(sockets'[h]) = Len(sockets[h])
           /\ sockets'[h][i] = s
           /\ \A j \in 1 .. Len(sockets[h]) : j # i => sockets'[h][j] = sockets[h][j]
<1>1. sockets' = [sockets EXCEPT ![h] = [sockets[h] EXCEPT ![i] = s]]
  OBVIOUS
<1>2. sockets[h] \in Seq(Socket)
  OBVIOUS
<1>3. /\ [sockets[h] EXCEPT ![i] = s] \in Seq(Socket)
      /\ Len([sockets[h] EXCEPT ![i] = s]) = Len(sockets[h])
  BY <1>2, ExceptSeq
<1>4. DOMAIN sockets[h] = 1 .. Len(sockets[h])
  BY <1>2, LenProperties
<1>. QED
  BY <1>1, <1>3, <1>4

\* What the client's socket s may send: a reply, or a request in a data segment.
FromClient(s, seg) ==
    /\ seg \in Segment /\ seg.sport = s.lport /\ seg.dport = ServerPort
    /\ \/ seg.flags \in ClientFlags(s)
       \/ seg.flags = {"FIN", "ACK"} /\ s.state # "SYN_SENT"
    /\ seg.data.get => seg.flags = {"PSH", "ACK"}

\* A socket of the client moves and sends.
LEMMA ClientMoves ==
    ASSUME IInv, NEW i \in 1 .. Len(sockets[Client]), NEW s \in Socket,
           ClientSocketOK(i, s), sockets[Client][i].state # "SYN_SENT" => s.state # "SYN_SENT",
           sockets[Client][i].opened => s.opened,
           sockets' = [sockets EXCEPT ![Client][i] = s],
           NEW out, \A m \in 1 .. Len(out) : FromClient(s, out[m]),
           net' \in [Hosts -> Seq(Segment)],
           Part(net'[Client], net[Client]), Mixed(net'[Server], net[Server], out),
           UNCHANGED <<freePort, spinning>>, faults' \in Nat
    PROVE  IInv'
<1>. USE ConstantTypes
<1>1. TypeOK /\ sockets \in [Hosts -> Seq(Socket)] /\ Client \in Hosts
  BY DEF IInv, TypeOK
<1>2. /\ sockets' \in [Hosts -> Seq(Socket)] /\ sockets'[Server] = sockets[Server]
      /\ Len(sockets'[Client]) = Len(sockets[Client])
      /\ sockets'[Client][i] = s
      /\ \A j \in 1 .. Len(sockets[Client]) : j # i => sockets'[Client][j] = sockets[Client][j]
  BY <1>1, TableExcept
<1>3. ASSUME NEW port \in ClientPorts
      PROVE  /\ port \in ClientPorts' /\ (Opened(port) => Opened(port)')
             /\ (Began(port) => Began(port)')
  <2>1. port - FirstFreePort + 1 \in 1 .. Len(sockets[Client])
    BY ClientPortFacts
  <2>2. port \in ClientPorts'
    BY DEF ClientPorts
  <2>3. sockets[Client][port - FirstFreePort + 1].state # "SYN_SENT"
          => sockets'[Client][port - FirstFreePort + 1].state # "SYN_SENT"
    BY <1>2, <2>1
  <2>4. sockets[Client][port - FirstFreePort + 1].opened
          => sockets'[Client][port - FirstFreePort + 1].opened
    BY <1>2, <2>1
  <2>. QED
    BY <2>2, <2>3, <2>4 DEF Opened, Began
<1>4. TypeOK'
  BY <1>1, <1>2 DEF TypeOK
<1>5. PortsCounted'
  BY <1>2 DEF IInv, PortsCounted
<1>6. ClientTable'
  <2>1. \A j \in 1 .. Len(sockets[Client]) : ClientSocketOK(j, sockets[Client][j])
    BY DEF IInv, ClientTable
  <2>2. \A j \in 1 .. Len(sockets[Client]) : ClientSocketOK(j, sockets'[Client][j])
    BY <1>2, <2>1
  <2>. QED
    BY <1>2, <2>2 DEF ClientTable, ClientSocketOK
<1>7. ServerTable'
  BY <1>2, <1>3, StaysOpened DEF IInv, ServerTable
<1>8. ASSUME NEW seg, FromClient(s, seg) PROVE ToServerOK(seg)'
  <2>1. seg.sport = FirstFreePort + i - 1
    BY <1>8 DEF FromClient, ClientSocketOK
  <2>2. seg.sport \in ClientPorts /\ seg.sport - FirstFreePort + 1 = i
    <3>1. FirstFreePort + i - 1 \in ClientPorts
      BY ClientPortFacts
    <3>2. (FirstFreePort + i - 1) - FirstFreePort + 1 = i
      BY DEF FirstFreePort
    <3>. QED
      BY <2>1, <3>1, <3>2
  <2>3. seg.sport \in ClientPorts'
    BY <1>3, <2>2
  <2>4. seg.flags \in {{"RST"}, {"ACK"}, {"PSH", "ACK"}, {"FIN", "ACK"}}
        /\ ("ACK" \in seg.flags => s.state # "SYN_SENT")
        /\ (seg.flags \in {{"ACK"}, {"PSH", "ACK"}} => s.opened)
    <3>1. s.opened => s.state # "SYN_SENT"
      BY DEF ClientSocketOK
    <3>2. CASE seg.flags = {"FIN", "ACK"} /\ s.state # "SYN_SENT"
      <4>1. "FIN" \in {"FIN", "ACK"} /\ "FIN" \notin {"ACK"} /\ "FIN" \notin {"PSH", "ACK"}
        OBVIOUS
      <4>2. seg.flags \notin {{"ACK"}, {"PSH", "ACK"}}
        BY <3>2, <4>1
      <4>. QED
        BY <3>2, <4>2
    <3>3. CASE seg.flags \in ClientFlags(s)
      <4>1. CASE s.opened
        BY <3>1, <3>3, <4>1 DEF ClientFlags, OpenFlags
      <4>2. CASE ~s.opened
        BY <3>3, <4>2 DEF ClientFlags
      <4>. QED
        BY <4>1, <4>2
    <3>. QED
      BY <1>8, <3>2, <3>3 DEF FromClient
  <2>5. /\ "ACK" \in seg.flags => Began(seg.sport)'
        /\ seg.flags \in {{"ACK"}, {"PSH", "ACK"}} => Opened(seg.sport)'
    BY <1>2, <2>2, <2>4 DEF Opened, Began
  <2>. QED
    BY <1>8, <2>3, <2>4, <2>5 DEF ToServerOK, FromClient
<1>9. ToServer'
  <2>1. ASSUME NEW seg \in Carried(Server)' PROVE ToServerOK(seg)'
    <3>1. CASE seg \in Carried(Server)
      BY <1>3, <3>1, StaysOpened DEF IInv, ToServer
    <3>2. CASE seg \in Elements(out)
      BY <1>8, <3>2 DEF Elements
    <3>3. Elements(net'[Server]) \subseteq Elements(net[Server]) \cup Elements(out)
      BY MixedIsUnion
    <3>. QED
      BY <2>1, <3>1, <3>2, <3>3 DEF Carried
  <2>. QED
    BY <2>1 DEF ToServer
<1>10. ToClient'
  <2>1. ASSUME NEW seg \in Carried(Client)' PROVE ToClientOK(seg)'
    <3>1. seg \in Carried(Client)
      BY <2>1, PartIsSubset DEF Carried
    <3>. QED
      BY <1>3, <3>1, StaysOpened DEF IInv, ToClient
  <2>. QED
    BY <2>1 DEF ToClient
<1>11. ListenersLast'
  BY <1>2 DEF IInv, ListenersLast
<1>12. OneSocketPerClient'
  BY <1>2 DEF IInv, OneSocketPerClient
<1>13. Spinners'
  BY <1>2 DEF IInv, Spinners, SpinsOnLaterRequest
<1>. QED
  BY <1>4, <1>5, <1>6, <1>7, <1>9, <1>10, <1>11, <1>12, <1>13 DEF IInv

\* A socket of the server moves and sends.
LEMMA ServerMoves ==
    ASSUME IInv, NEW i \in 1 .. Len(sockets[Server]), NEW s, NEW out,
           ServerBecomes(i, s, out), Server \notin spinning,
           sockets' = [sockets EXCEPT ![Server][i] = s],
           net' \in [Hosts -> Seq(Segment)],
           Part(net'[Server], net[Server]), Mixed(net'[Client], net[Client], out),
           UNCHANGED <<freePort, spinning>>, faults' \in Nat
    PROVE  IInv'
<1>. USE ConstantTypes
<1>. DEFINE old == sockets[Server][i]
<1>1. TypeOK /\ sockets \in [Hosts -> Seq(Socket)] /\ Server \in Hosts
      /\ Len(sockets[Server]) \in Nat
  BY LenProperties DEF IInv, TypeOK
<1>2. s \in Socket /\ ServerSocketOK(s) /\ s.state # "LISTEN"
  BY DEF ServerBecomes
<1>3. /\ sockets' \in [Hosts -> Seq(Socket)] /\ sockets'[Client] = sockets[Client]
      /\ Len(sockets'[Server]) = Len(sockets[Server])
      /\ sockets'[Server][i] = s
      /\ \A j \in 1 .. Len(sockets[Server]) : j # i => sockets'[Server][j] = sockets[Server][j]
  BY <1>1, <1>2, TableExcept
<1>4. \A port \in ClientPorts : /\ port \in ClientPorts' /\ (Opened(port) => Opened(port)')
                                /\ (Began(port) => Began(port)')
  BY <1>3 DEF ClientPorts, Opened, Began
<1>5. TypeOK'
  BY <1>1, <1>3 DEF TypeOK
<1>6. PortsCounted' /\ ClientTable'
  BY <1>3 DEF IInv, PortsCounted, ClientTable, ClientSocketOK
<1>7. ServerTable'
  <2>1. ASSUME NEW t, ServerSocketOK(t) PROVE ServerSocketOK(t)'
    BY <1>4, <2>1, StaysOpened
  <2>2. \A j \in 1 .. Len(sockets[Server]) :
          ServerSocketOK(IF j = i THEN s ELSE sockets[Server][j])
    BY <1>2 DEF IInv, ServerTable
  <2>3. \A j \in 1 .. Len(sockets[Server]) :
          \E t : t = sockets'[Server][j] /\ ServerSocketOK(t)'
    <3>1. TAKE j \in 1 .. Len(sockets[Server])
    <3>2. sockets'[Server][j] = IF j = i THEN s ELSE sockets[Server][j]
      BY <1>3
    <3>3. ServerSocketOK(IF j = i THEN s ELSE sockets[Server][j])'
      BY <1>4, <2>2 DEF ServerSocketOK, OpenStates
    <3>. QED
      BY <3>2, <3>3
  <2>. QED
    BY <1>3, <2>3 DEF ServerTable, ServerSocketOK
<1>8. ToServer'
  <2>1. ASSUME NEW seg \in Carried(Server)' PROVE ToServerOK(seg)'
    <3>1. seg \in Carried(Server)
      BY <2>1, PartIsSubset DEF Carried
    <3>. QED
      BY <1>4, <3>1, StaysOpened DEF IInv, ToServer
  <2>. QED
    BY <2>1 DEF ToServer
<1>9. ToClient'
  <2>1. ASSUME NEW seg, Reply(s, ServerFlags(s), seg) PROVE ToClientOK(seg)
    BY <1>2, <2>1 DEF Reply, ServerFlags, OpenFlags, ServerSocketOK, ToClientOK
  <2>2. ASSUME NEW seg \in Carried(Client)' PROVE ToClientOK(seg)
    <3>1. CASE seg \in Carried(Client)
      BY <3>1 DEF IInv, ToClient
    <3>2. CASE seg \in Elements(out)
      BY <2>1, <3>2 DEF ServerBecomes, Replies, Elements
    <3>3. Elements(net'[Client]) \subseteq Elements(net[Client]) \cup Elements(out)
      BY MixedIsUnion
    <3>. QED
      BY <2>2, <3>1, <3>2, <3>3 DEF Carried
  <2>. QED
    BY <1>4, <2>2, StaysOpened DEF ToClient
<1>10. /\ old.rport # NoPort => s.rport = old.rport
       /\ old.state = "LISTEN" =>
            \A j \in 1 .. Len(sockets[Server]) :
               /\ sockets[Server][j].rport # s.rport
               /\ j < i => sockets[Server][j].state # "LISTEN"
  BY DEF ServerBecomes
<1>11. ServerSocketOK(old)
  BY DEF IInv, ServerTable
<1>12. ListenersLast'
  <2>1. ASSUME NEW j \in 1 .. Len(sockets[Server]), NEW k \in 1 .. Len(sockets[Server]),
               j < k, sockets'[Server][j].state = "LISTEN"
        PROVE  sockets'[Server][k].state = "LISTEN"
    <3>1. j # i /\ sockets[Server][j].state = "LISTEN"
      BY <1>2, <1>3, <2>1
    <3>2. sockets[Server][k].state = "LISTEN"
      BY <2>1, <3>1 DEF IInv, ListenersLast
    <3>3. k # i
      BY <1>10, <2>1, <3>1, <3>2
    <3>. QED
      BY <1>3, <3>2, <3>3
  <2>. QED
    BY <1>3, <2>1 DEF ListenersLast
<1>13. OneSocketPerClient'
  <2>0. s.rport # NoPort
    BY <1>2 DEF ServerSocketOK
  <2>1. ASSUME NEW j \in 1 .. Len(sockets[Server]), j # i
        PROVE  sockets[Server][j].rport # s.rport
    <3>1. CASE old.state = "LISTEN"
      BY <1>10, <3>1
    <3>2. CASE old.state # "LISTEN"
      <4>1. old.rport # NoPort /\ s.rport = old.rport
        BY <1>10, <1>11, <3>2 DEF ServerSocketOK
      <4>2. j < i \/ i < j
        BY <1>1, <2>1
      <4>. QED
        BY <4>1, <4>2 DEF IInv, OneSocketPerClient
    <3>. QED
      BY <3>1, <3>2
  <2>2. ASSUME NEW j \in 1 .. Len(sockets[Server]), NEW k \in 1 .. Len(sockets[Server]),
               j < k, sockets'[Server][j].rport = sockets'[Server][k].rport
        PROVE  sockets'[Server][j].rport = NoPort
    <3>1. j # i /\ k # i
      BY <1>1, <1>3, <2>1, <2>2
    <3>. QED
      BY <1>3, <2>2, <3>1 DEF IInv, OneSocketPerClient
  <2>. QED
    BY <1>3, <2>2 DEF OneSocketPerClient
<1>14. Spinners'
  BY DEF IInv, Spinners, SpinsOnLaterRequest
<1>. QED
  BY <1>5, <1>6, <1>7, <1>8, <1>9, <1>12, <1>13, <1>14 DEF IInv

\* Segments only go, and the server may begin to spin.
LEMMA SegmentsGo ==
    ASSUME IInv, UNCHANGED <<sockets, freePort>>, faults' \in Nat,
           net' \in [Hosts -> Seq(Segment)], \A h \in Hosts : Part(net'[h], net[h]),
           \/ UNCHANGED spinning
           \/ /\ spinning' = spinning \cup {Server}
              /\ \E i \in 1 .. Len(sockets[Server]) :
                   sockets[Server][i].state \in FinWait /\ HasRequest(sockets[Server][i])
    PROVE  IInv'
<1>. USE ConstantTypes
<1>1. spinning' \subseteq {Server}
  BY DEF IInv, Spinners
<1>2. TypeOK'
  BY <1>1 DEF IInv, TypeOK
<1>3. /\ PortsCounted' /\ ClientTable' /\ ListenersLast' /\ OneSocketPerClient'
  BY ZenonT(30) DEF IInv, PortsCounted, ClientTable, ClientSocketOK, ListenersLast, OneSocketPerClient
<1>4. ServerTable'
  BY DEF IInv, ServerTable, ServerSocketOK, ClientPorts, Opened
<1>5. \A port \in ClientPorts : /\ port \in ClientPorts' /\ (Opened(port) => Opened(port)')
                                /\ (Began(port) => Began(port)')
  BY DEF ClientPorts, Opened, Began
<1>6. \A h \in Hosts : Carried(h)' \subseteq Carried(h)
  BY PartIsSubset DEF Carried
<1>7. ToServer' /\ ToClient'
  BY <1>5, <1>6, StaysOpened DEF IInv, ToServer, ToClient
<1>8. Spinners'
  BY <1>1 DEF IInv, Spinners, SpinsOnLaterRequest, FinWait, HasRequest
<1>. QED
  BY <1>2, <1>3, <1>4, <1>7, <1>8 DEF IInv

\* What NeverGoesBack says of one step.
Forward ==
    \A h \in Hosts : \A i \in DOMAIN sockets[h] :
        /\ \/ Rank[sockets'[h][i].state] >= Rank[sockets[h][i].state]
           \/ h = Client /\ ClientDisconnect(i)
        /\ sockets[h][i].rport # NoPort => sockets'[h][i].rport = sockets[h][i].rport

\* Sockets that stay as they are do not go back.
LEMMA ForwardUnchanged ==
    ASSUME IInv, NEW h \in Hosts, NEW i \in 1 .. Len(sockets[h])
    PROVE  Rank[sockets[h][i].state] >= Rank[sockets[h][i].state]
<1>1. sockets[h] \in Seq(Socket)
  BY DEF IInv, TypeOK
<1>2. sockets[h][i] \in Socket
  BY <1>1, ElementOfSeq
<1>3. Rank[sockets[h][i].state] \in Nat
  BY <1>2, SocketFields, RankFacts
<1>. QED
  BY <1>3

\* One socket that moves forward, or that the client disconnects.
LEMMA ForwardExcept ==
    ASSUME IInv, NEW h \in Hosts, NEW i \in 1 .. Len(sockets[h]), NEW s \in Socket,
           \/ Rank[s.state] >= Rank[sockets[h][i].state]
           \/ h = Client /\ ClientDisconnect(i),
           sockets[h][i].rport # NoPort => s.rport = sockets[h][i].rport,
           sockets' = [sockets EXCEPT ![h][i] = s]
    PROVE  Forward
<1>1. sockets \in [Hosts -> Seq(Socket)]
  BY DEF IInv, TypeOK
<1>2. /\ \A o \in Hosts : o # h => sockets'[o] = sockets[o]
      /\ sockets'[h][i] = s
      /\ \A j \in 1 .. Len(sockets[h]) : j # i => sockets'[h][j] = sockets[h][j]
  BY <1>1, TableExcept
<1>3. \A o \in Hosts : DOMAIN sockets[o] = 1 .. Len(sockets[o])
  BY <1>1, LenProperties
<1>4. ASSUME NEW o \in Hosts, NEW j \in 1 .. Len(sockets[o])
      PROVE  /\ \/ Rank[sockets'[o][j].state] >= Rank[sockets[o][j].state]
                \/ o = Client /\ ClientDisconnect(j)
             /\ sockets[o][j].rport # NoPort => sockets'[o][j].rport = sockets[o][j].rport
  <2>1. CASE o = h /\ j = i
    BY <1>2, <2>1
  <2>2. CASE ~(o = h /\ j = i)
    <3>1. sockets'[o][j] = sockets[o][j]
      BY <1>2, <2>2
    <3>. QED
      BY <3>1, ForwardUnchanged
  <2>. QED
    BY <2>1, <2>2
<1>. QED
  BY <1>3, <1>4 DEF Forward

\* A step that leaves every socket as it is takes none back; new ones may be added.
LEMMA ForwardKept ==
    ASSUME IInv, \A h \in Hosts : \A i \in 1 .. Len(sockets[h]) :
                   sockets'[h][i] = sockets[h][i]
    PROVE  Forward
<1>1. \A h \in Hosts : DOMAIN sockets[h] = 1 .. Len(sockets[h])
  BY LenProperties DEF IInv, TypeOK
<1>2. ASSUME NEW h \in Hosts, NEW i \in 1 .. Len(sockets[h])
      PROVE  /\ Rank[sockets'[h][i].state] >= Rank[sockets[h][i].state]
             /\ sockets[h][i].rport # NoPort => sockets'[h][i].rport = sockets[h][i].rport
  <2>1. sockets'[h][i] = sockets[h][i]
    OBVIOUS
  <2>2. Rank[sockets[h][i].state] >= Rank[sockets[h][i].state]
    BY ForwardUnchanged
  <2>. QED
    BY <2>1, <2>2
<1>. QED
  BY <1>1, <1>2 DEF Forward

\* Neither does one that leaves the tables alone.
LEMMA ForwardSame ==
    ASSUME IInv, UNCHANGED sockets
    PROVE  Forward
BY ForwardKept

\* What Becomes does to the queues.
LEMMA BecomesQueues ==
    ASSUME IInv, NEW h \in Hosts, NEW i, NEW s, NEW rest \in Seq(Segment),
           NEW out \in Seq(Segment), Part(rest, net[h]), Becomes(h, rest, i, s, out)
    PROVE  /\ net' \in [Hosts -> Seq(Segment)]
           /\ Part(net'[h], net[h]) /\ Mixed(net'[Other(h)], net[Other(h)], out)
           /\ sockets' = [sockets EXCEPT ![h][i] = s] /\ UNCHANGED spinning
<1>1. Other(h) \in Hosts /\ Other(h) # h
  BY ConstantTypes
<1>2. net \in [Hosts -> Seq(Segment)]
  BY DEF IInv, TypeOK
<1>3. net' = [net EXCEPT ![h] = rest, ![Other(h)] = net[Other(h)] \o out]
  BY DEF Becomes
<1>4. net[Other(h)] \o out \in Seq(Segment)
      /\ Mixed(net[Other(h)] \o out, net[Other(h)], out)
  BY <1>1, <1>2, ConcatIsMixed
<1>5. net'[h] = rest /\ net'[Other(h)] = net[Other(h)] \o out
      /\ net' \in [Hosts -> Seq(Segment)]
  BY <1>1, <1>2, <1>3, <1>4
<1>. QED
  BY <1>4, <1>5 DEF Becomes

\* The handler keeps the invariant, whatever segment it is given of those that are
\* on their way, and whatever of them is left.
LEMMA HandleKeeps ==
    ASSUME IInv, NEW h \in Hosts, h \notin spinning, NEW m \in 1 .. Len(net[h]),
           NEW rest \in Seq(Segment), Part(rest, net[h]),
           Handle(h, net[h][m], rest), UNCHANGED freePort, faults' \in Nat
    PROVE  IInv' /\ Forward
<1>1. net \in [Hosts -> Seq(Segment)]
  BY DEF IInv, TypeOK
<1>2. ASSUME net' = [net EXCEPT ![h] = rest]
      PROVE  net' \in [Hosts -> Seq(Segment)] /\ \A o \in Hosts : Part(net'[o], net[o])
  <2>1. \A o \in Hosts : o # h => net'[o] = net[o]
    BY <1>1, <1>2
  <2>2. net'[h] = rest /\ net' \in [Hosts -> Seq(Segment)]
    BY <1>1, <1>2
  <2>3. \A o \in Hosts : Part(net[o], net[o])
    BY DEF Part
  <2>. QED
    BY <2>1, <2>2, <2>3
<1>3. CASE Ignores(h, rest)
  BY <1>2, <1>3, SegmentsGo, ForwardSame DEF Ignores
<1>4. CASE h = Server /\ ServerSpins(rest)
  BY <1>2, <1>4, SegmentsGo, ForwardSame DEF ServerSpins
<1>5. ASSUME h = Client, NEW i \in 1 .. Len(sockets[Client]), NEW s, NEW out,
             ClientBecomes(i, s, out), Becomes(Client, rest, i, s, out)
      PROVE  IInv' /\ Forward
  <2>0. ClientSocketOK(i, sockets[Client][i])
    BY DEF IInv, ClientTable
  <2>1. /\ s \in Socket /\ ClientSocketOK(i, s) /\ out \in Seq(Segment)
        /\ sockets[Client][i].state # "SYN_SENT" => s.state # "SYN_SENT"
        /\ sockets[Client][i].opened => s.opened
        /\ Rank[s.state] >= Rank[sockets[Client][i].state]
    BY <1>5 DEF ClientBecomes, Replies
  <2>2. \A k \in 1 .. Len(out) : FromClient(s, out[k])
    BY <1>5 DEF ClientBecomes, Replies, Reply, FromClient, ClientSocketOK
  <2>3. /\ net' \in [Hosts -> Seq(Segment)]
        /\ Part(net'[Client], net[Client]) /\ Mixed(net'[Server], net[Server], out)
        /\ sockets' = [sockets EXCEPT ![Client][i] = s] /\ UNCHANGED spinning
    <3>1. Becomes(h, rest, i, s, out)
      BY <1>5
    <3>2. /\ net' \in [Hosts -> Seq(Segment)]
          /\ Part(net'[h], net[h]) /\ Mixed(net'[Other(h)], net[Other(h)], out)
          /\ sockets' = [sockets EXCEPT ![h][i] = s] /\ UNCHANGED spinning
      BY <2>1, <3>1, BecomesQueues
    <3>. QED
      BY <1>5, <3>2, ConstantTypes
  <2>4. IInv'
    BY <2>1, <2>2, <2>3, ClientMoves
  <2>5. sockets[Client][i].rport = s.rport
    BY <2>1 DEF IInv, ClientTable, ClientSocketOK
  <2>6. Forward
    BY <1>5, <2>1, <2>3, <2>5, ForwardExcept
  <2>. QED
    BY <2>4, <2>6
<1>6. ASSUME h = Server, NEW i \in 1 .. Len(sockets[Server]), NEW s, NEW out,
             ServerBecomes(i, s, out), Becomes(Server, rest, i, s, out)
      PROVE  IInv' /\ Forward
  <2>1. /\ s \in Socket /\ out \in Seq(Segment)
        /\ Rank[s.state] >= Rank[sockets[Server][i].state]
        /\ sockets[Server][i].rport # NoPort => s.rport = sockets[Server][i].rport
    BY <1>6 DEF ServerBecomes, Replies
  <2>2. /\ net' \in [Hosts -> Seq(Segment)]
        /\ Part(net'[Server], net[Server]) /\ Mixed(net'[Client], net[Client], out)
        /\ sockets' = [sockets EXCEPT ![Server][i] = s] /\ UNCHANGED spinning
    <3>1. Becomes(h, rest, i, s, out)
      BY <1>6
    <3>2. /\ net' \in [Hosts -> Seq(Segment)]
          /\ Part(net'[h], net[h]) /\ Mixed(net'[Other(h)], net[Other(h)], out)
          /\ sockets' = [sockets EXCEPT ![h][i] = s] /\ UNCHANGED spinning
      BY <2>1, <3>1, BecomesQueues
    <3>. QED
      BY <1>6, <3>2, ConstantTypes
  <2>3. IInv'
    BY <1>6, <2>2, ServerMoves
  <2>4. Forward
    BY <1>6, <2>1, <2>2, ForwardExcept
  <2>. QED
    BY <2>3, <2>4
<1>7. CASE h = Client
  BY <1>3, <1>5, <1>7, ClientHandles
<1>8. CASE h = Server
  BY <1>3, <1>4, <1>6, <1>8, ServerHandles
<1>. QED
  BY <1>7, <1>8, ConstantTypes

\* A socket that begins to listen is the last one.
LEMMA ListenKeeps ==
    ASSUME IInv, Listen
    PROVE  IInv' /\ Forward
<1>. DEFINE new == NewSocket(ServerPort, NoPort, "LISTEN")
            n == Len(sockets[Server])
<1>. USE ConstantTypes
<1>1. sockets \in [Hosts -> Seq(Socket)] /\ sockets[Server] \in Seq(Socket)
  BY DEF IInv, TypeOK
<1>2. n \in Nat
  BY <1>1, LenProperties
<1>3. << >> \in Seq(Payloads)
      /\ << >> \in Seq([seq : 0 .. SeqSpace - 1, data : Payloads])
  OBVIOUS
<1>4. /\ new \in Socket /\ new.lport = ServerPort /\ new.rport = NoPort
      /\ new.state = "LISTEN"
  BY <1>3 DEF NewSocket, Socket, States
<1>5. sockets' = [sockets EXCEPT ![Server] = Append(sockets[Server], new)]
      /\ UNCHANGED <<freePort, net, spinning, faults>>
  BY DEF Listen
<1>. HIDE DEF new, n
<1>6. /\ Append(sockets[Server], new) \in Seq(Socket)
      /\ Len(Append(sockets[Server], new)) = n + 1
      /\ \A j \in 1 .. n : Append(sockets[Server], new)[j] = sockets[Server][j]
      /\ Append(sockets[Server], new)[n + 1] = new
  BY <1>1, <1>4, AppendProperties DEF n
<1>7. /\ sockets' \in [Hosts -> Seq(Socket)] /\ sockets'[Client] = sockets[Client]
      /\ Len(sockets'[Server]) = n + 1
      /\ \A j \in 1 .. n : sockets'[Server][j] = sockets[Server][j]
      /\ sockets'[Server][n + 1] = new
  BY <1>1, <1>5, <1>6
<1>8. \A j \in 1 .. n + 1 : j \in 1 .. n \/ j = n + 1
  BY <1>2
<1>9. TypeOK' /\ PortsCounted' /\ ClientTable' /\ Spinners'
  <2>1. TypeOK' /\ PortsCounted' /\ ClientTable'
    BY <1>5, <1>7 DEF IInv, TypeOK, PortsCounted, ClientTable, ClientSocketOK
  <2>2. spinning' = {}
    BY <1>5 DEF Listen, IInv, Spinners
  <2>. QED
    BY <2>1, <2>2 DEF Spinners, SpinsOnLaterRequest
<1>10. \A port \in ClientPorts : /\ port \in ClientPorts' /\ (Opened(port) => Opened(port)')
                                 /\ (Began(port) => Began(port)')
  BY <1>5, <1>7 DEF ClientPorts, Opened, Began
<1>11. ServerTable'
  <2>1. ASSUME NEW j \in 1 .. n PROVE ServerSocketOK(sockets[Server][j])
    BY <2>1 DEF IInv, ServerTable, n
  <2>2. ServerSocketOK(new)
    BY <1>4 DEF ServerSocketOK, OpenStates, FinWait
  <2>3. ASSUME NEW j \in 1 .. n + 1
        PROVE  \E t : t = sockets'[Server][j] /\ ServerSocketOK(t)'
    <3>1. \E t : t = sockets'[Server][j] /\ ServerSocketOK(t)
      BY <1>7, <1>8, <2>1, <2>2
    <3>. QED
      BY <1>10, <3>1, StaysOpened
  <2>. QED
    BY <1>7, <2>3 DEF ServerTable, ServerSocketOK
<1>12. ToServer' /\ ToClient'
  BY <1>5, <1>10, StaysOpened DEF IInv, ToServer, ToClient, Carried
<1>13. ListenersLast' /\ OneSocketPerClient'
  <2>1. \A j, k \in 1 .. n : j < k /\ sockets[Server][j].state = "LISTEN"
                               => sockets[Server][k].state = "LISTEN"
    BY DEF IInv, ListenersLast, n
  <2>2. ListenersLast'
    <3>1. ASSUME NEW j \in 1 .. n + 1, NEW k \in 1 .. n + 1, j < k,
                 sockets'[Server][j].state = "LISTEN"
          PROVE  sockets'[Server][k].state = "LISTEN"
      <4>1. CASE k = n + 1
        BY <1>4, <1>7, <4>1
      <4>2. CASE k \in 1 .. n
        <5>1. j \in 1 .. n
          BY <1>2, <3>1, <4>2
        <5>. QED
          BY <1>7, <2>1, <3>1, <4>2, <5>1
      <4>. QED
        BY <1>8, <4>1, <4>2
    <3>. QED
      BY <1>7, <3>1 DEF ListenersLast
  <2>3. \A j, k \in 1 .. n : j < k /\ sockets[Server][j].rport = sockets[Server][k].rport
                               => sockets[Server][j].rport = NoPort
    BY DEF IInv, OneSocketPerClient, n
  <2>4. OneSocketPerClient'
    <3>1. ASSUME NEW j \in 1 .. n + 1, NEW k \in 1 .. n + 1, j < k,
                 sockets'[Server][j].rport = sockets'[Server][k].rport
          PROVE  sockets'[Server][j].rport = NoPort
      <4>1. CASE k = n + 1
        BY <1>4, <1>7, <3>1, <4>1
      <4>2. CASE k \in 1 .. n
        <5>1. j \in 1 .. n
          BY <1>2, <3>1, <4>2
        <5>. QED
          BY <1>7, <2>3, <3>1, <4>2, <5>1
      <4>. QED
        BY <1>8, <4>1, <4>2
    <3>. QED
      BY <1>7, <3>1 DEF OneSocketPerClient
  <2>. QED
    BY <2>2, <2>4
<1>14. Forward
  <2>1. \A h \in Hosts : \A i \in 1 .. Len(sockets[h]) : sockets'[h][i] = sockets[h][i]
    BY <1>7 DEF n
  <2>. QED
    BY <2>1, ForwardKept
<1>. QED
  BY <1>9, <1>11, <1>12, <1>13, <1>14 DEF IInv

\* A socket that begins to connect has a port of its own.
LEMMA ConnectKeeps ==
    ASSUME IInv, Connect
    PROVE  IInv' /\ Forward
<1>. DEFINE new == NewSocket(freePort, ServerPort, "SYN_SENT")
            n == Len(sockets[Client])
            syn == Out(new, {"SYN"}, NoData)
<1>. USE ConstantTypes
<1>1. sockets \in [Hosts -> Seq(Socket)] /\ sockets[Client] \in Seq(Socket)
      /\ net \in [Hosts -> Seq(Segment)] /\ net[Server] \in Seq(Segment)
  BY DEF IInv, TypeOK
<1>2. n \in Nat /\ n < MaxConnects /\ freePort = FirstFreePort + n /\ MaxConnects \in Nat
  BY <1>1, LenProperties, TCPAssumption DEF Connect, IInv, PortsCounted
<1>3. << >> \in Seq(Payloads)
      /\ << >> \in Seq([seq : 0 .. SeqSpace - 1, data : Payloads])
  OBVIOUS
<1>4. freePort \in Ports
  BY <1>2 DEF Ports, FirstFreePort
<1>5. /\ new \in Socket /\ new.lport = freePort /\ new.rport = ServerPort
      /\ new.state = "SYN_SENT" /\ ~new.opened /\ new.fins = 0
  BY <1>3, <1>4 DEF NewSocket, Socket, States
<1>6. /\ sockets' = [sockets EXCEPT ![Client] = Append(sockets[Client], new)]
      /\ net' = [net EXCEPT ![Server] = Append(net[Server], syn)]
      /\ freePort' = freePort + 1 /\ UNCHANGED <<spinning, faults>>
  BY DEF Connect
<1>7. /\ syn \in Segment /\ syn.sport = freePort /\ syn.dport = ServerPort
      /\ syn.flags = {"SYN"} /\ syn.data = NoData
  BY <1>5, OutType
<1>. HIDE DEF new, n, syn
<1>8. /\ Append(sockets[Client], new) \in Seq(Socket)
      /\ Len(Append(sockets[Client], new)) = n + 1
      /\ \A j \in 1 .. n : Append(sockets[Client], new)[j] = sockets[Client][j]
      /\ Append(sockets[Client], new)[n + 1] = new
  BY <1>1, <1>5, AppendProperties DEF n
<1>9. /\ sockets' \in [Hosts -> Seq(Socket)] /\ sockets'[Server] = sockets[Server]
      /\ Len(sockets'[Client]) = n + 1
      /\ \A j \in 1 .. n : sockets'[Client][j] = sockets[Client][j]
      /\ sockets'[Client][n + 1] = new
  BY <1>1, <1>6, <1>8
<1>10. \A j \in 1 .. n + 1 : j \in 1 .. n \/ j = n + 1
  BY <1>2
<1>11. /\ Append(net[Server], syn) \in Seq(Segment)
       /\ Mixed(Append(net[Server], syn), net[Server], <<syn>>)
  BY <1>1, <1>7, AppendIsMixed
<1>12. /\ net' \in [Hosts -> Seq(Segment)] /\ net'[Client] = net[Client]
       /\ net'[Server] = Append(net[Server], syn)
  BY <1>1, <1>6, <1>11
<1>13. Carried(Server)' \subseteq Carried(Server) \cup {syn} /\ Carried(Client)' = Carried(Client)
  <2>1. Elements(Append(net[Server], syn)) \subseteq Elements(net[Server]) \cup Elements(<<syn>>)
    BY <1>11, MixedIsUnion
  <2>2. Len(<<syn>>) = 1 /\ <<syn>>[1] = syn
    OBVIOUS
  <2>3. \A k \in 1 .. 1 : k = 1
    OBVIOUS
  <2>4. Elements(<<syn>>) \subseteq {syn}
    BY <2>2, <2>3 DEF Elements
  <2>. QED
    BY <1>12, <2>1, <2>4 DEF Carried
<1>14. TypeOK'
  BY <1>2, <1>6, <1>9, <1>12 DEF IInv, TypeOK, FirstFreePort
<1>15. PortsCounted'
  BY <1>2, <1>6, <1>9 DEF PortsCounted, FirstFreePort
<1>16. ClientTable'
  <2>1. ASSUME NEW j \in 1 .. n + 1
        PROVE  ClientSocketOK(j, sockets'[Client][j])
    <3>1. CASE j \in 1 .. n
      BY <1>9, <3>1 DEF IInv, ClientTable, n
    <3>2. CASE j = n + 1
      BY <1>2, <1>5, <1>9, <3>2 DEF ClientSocketOK, FirstFreePort
    <3>. QED
      BY <1>10, <3>1, <3>2
  <2>. QED
    BY <1>9, <2>1 DEF ClientTable, ClientSocketOK
<1>17. ASSUME NEW port \in ClientPorts
       PROVE  /\ port \in ClientPorts' /\ (Opened(port) => Opened(port)')
              /\ (Began(port) => Began(port)')
  <2>1. port - FirstFreePort + 1 \in 1 .. n
    BY ClientPortFacts DEF n
  <2>2. sockets'[Client][port - FirstFreePort + 1] = sockets[Client][port - FirstFreePort + 1]
    BY <1>9, <2>1
  <2>3. port \in ClientPorts'
    BY <1>2, <1>6 DEF ClientPorts, FirstFreePort
  <2>. QED
    BY <2>2, <2>3 DEF Opened, Began
<1>18. ServerTable'
  BY <1>9, <1>17, StaysOpened DEF IInv, ServerTable
<1>19. ASSUME NEW seg, seg = syn PROVE ToServerOK(seg)'
  <2>1. freePort \in ClientPorts'
    BY <1>2, <1>6 DEF ClientPorts, FirstFreePort
  <2>. QED
    BY <1>7, <1>19, <2>1 DEF ToServerOK
<1>20. ToServer' /\ ToClient'
  <2>1. ASSUME NEW seg \in Carried(Server)' PROVE ToServerOK(seg)'
    <3>1. CASE seg \in Carried(Server)
      BY <1>17, <3>1, StaysOpened DEF IInv, ToServer
    <3>2. CASE seg = syn
      BY <1>19, <3>2
    <3>. QED
      BY <1>13, <2>1, <3>1, <3>2
  <2>2. \A seg \in Carried(Client)' : ToClientOK(seg)'
    BY <1>13, <1>17, StaysOpened DEF IInv, ToClient
  <2>. QED
    BY <2>1, <2>2 DEF ToServer, ToClient
<1>21. ListenersLast' /\ OneSocketPerClient' /\ Spinners'
  <2>1. ListenersLast'
    BY <1>9 DEF IInv, ListenersLast
  <2>2. OneSocketPerClient'
    BY <1>9 DEF IInv, OneSocketPerClient
  <2>3. Spinners'
    BY ZenonT(30), <1>6, <1>9 DEF IInv, Spinners, SpinsOnLaterRequest
  <2>. QED
    BY <2>1, <2>2, <2>3
<1>22. Forward
  <2>1. \A i \in 1 .. Len(sockets[Client]) : sockets'[Client][i] = sockets[Client][i]
    BY <1>9 DEF n
  <2>2. \A i \in 1 .. Len(sockets[Server]) : sockets'[Server][i] = sockets[Server][i]
    BY <1>9
  <2>. QED
    BY <2>1, <2>2, ForwardKept
<1>. QED
  BY <1>14, <1>15, <1>16, <1>18, <1>20, <1>21, <1>22 DEF IInv

\* The client's own calls: Send on a socket that is ESTABLISHED, Disconnect on any.
LEMMA ClientCallKeeps ==
    ASSUME IInv, NEW i \in 1 .. Len(sockets[Client]), NEW s \in Socket,
           s.lport = sockets[Client][i].lport, s.rport = sockets[Client][i].rport,
           s.opened = sockets[Client][i].opened,
           NEW flags, NEW data \in Payloads,
           \/ /\ sockets[Client][i].state = "ESTABLISHED" /\ s.state = "ESTABLISHED"
              /\ flags = {"PSH", "ACK"}
           \/ s.state = "FIN_WAIT1" /\ flags = {"FIN", "ACK"} /\ ClientDisconnect(i),
           data.get => flags = {"PSH", "ACK"},
           sockets' = [sockets EXCEPT ![Client][i] = s],
           net' = [net EXCEPT ![Server] = Append(@, Out(sockets[Client][i], flags, data))],
           UNCHANGED <<freePort, spinning, faults>>
    PROVE  IInv' /\ Forward
<1>. DEFINE old == sockets[Client][i]
            seg == Out(old, flags, data)
<1>. USE ConstantTypes
<1>1. /\ sockets[Client] \in Seq(Socket) /\ faults \in Nat
      /\ net \in [Hosts -> Seq(Segment)] /\ net[Server] \in Seq(Segment)
  BY DEF IInv, TypeOK
<1>2. old \in Socket /\ ClientSocketOK(i, old)
  BY <1>1, ElementOfSeq DEF IInv, ClientTable
<1>3. seg \in Segment /\ seg.sport = old.lport /\ seg.dport = old.rport
      /\ seg.flags = flags /\ seg.data = data
  BY <1>2, OutType
<1>4. net' = [net EXCEPT ![Server] = Append(net[Server], seg)]
  OBVIOUS
<1>5. ClientSocketOK(i, s)
  BY <1>2 DEF ClientSocketOK
<1>. HIDE DEF seg
<1>6. /\ Append(net[Server], seg) \in Seq(Segment)
      /\ Mixed(Append(net[Server], seg), net[Server], <<seg>>)
  BY <1>1, <1>3, AppendIsMixed
<1>7. /\ net' \in [Hosts -> Seq(Segment)] /\ net'[Client] = net[Client]
      /\ net'[Server] = Append(net[Server], seg)
  BY <1>1, <1>4, <1>6
<1>8. Part(net'[Client], net[Client]) /\ Mixed(net'[Server], net[Server], <<seg>>)
  BY <1>6, <1>7 DEF Part
<1>9. FromClient(s, seg)
  BY <1>2, <1>3, <1>5 DEF FromClient, ClientFlags, OpenFlags, ClientSocketOK
<1>10. \A m \in 1 .. Len(<<seg>>) : FromClient(s, <<seg>>[m])
  <2>1. Len(<<seg>>) = 1 /\ <<seg>>[1] = seg
    OBVIOUS
  <2>2. \A m \in 1 .. 1 : m = 1
    OBVIOUS
  <2>. QED
    BY <1>9, <2>1, <2>2
<1>11. IInv'
  <2>1. (old.state # "SYN_SENT" => s.state # "SYN_SENT") /\ (old.opened => s.opened)
    OBVIOUS
  <2>2. faults' \in Nat
    BY <1>1
  <2>3. \E out : (\A m \in 1 .. Len(out) : FromClient(s, out[m]))
                 /\ Mixed(net'[Server], net[Server], out)
    BY <1>8, <1>10
  <2>. QED
    BY <1>5, <1>7, <1>8, <2>1, <2>2, <2>3, ClientMoves
<1>12. Rank[s.state] >= Rank[old.state] \/ ClientDisconnect(i)
  BY RankFacts
<1>13. Forward
  BY <1>12, ForwardExcept
<1>. QED
  BY <1>11, <1>13
-----------------------------------------------------------------------------
\* The invariant holds of two hosts without sockets.
LEMMA InitInv == Init => IInv
<1>. SUFFICES ASSUME Init PROVE IInv
  OBVIOUS
<1>1. << >> \in Seq(Socket) /\ << >> \in Seq(Segment) /\ Len(<< >>) = 0
  OBVIOUS
<1>2. \A h \in Hosts : sockets[h] = << >> /\ net[h] = << >>
  BY DEF Init
<1>3. TypeOK
  BY <1>1 DEF Init, TypeOK, FirstFreePort
<1>4. PortsCounted
  BY <1>1, <1>2, ConstantTypes, TCPAssumption DEF Init, PortsCounted, FirstFreePort
<1>5. Len(sockets[Client]) = 0 /\ Len(sockets[Server]) = 0
      /\ Len(net[Client]) = 0 /\ Len(net[Server]) = 0
  BY <1>1, <1>2, ConstantTypes
<1>6. \A k \in 1 .. 0 : FALSE
  OBVIOUS
<1>7. ClientTable /\ ServerTable /\ ListenersLast /\ OneSocketPerClient
  BY <1>5, <1>6 DEF ClientTable, ServerTable, ListenersLast, OneSocketPerClient
<1>8. ToServer /\ ToClient
  BY <1>5, <1>6 DEF ToServer, ToClient, Carried, Elements
<1>9. Spinners
  BY DEF Init, Spinners, SpinsOnLaterRequest
<1>. QED
  BY <1>3, <1>4, <1>7, <1>8, <1>9 DEF IInv

\* Every step keeps the invariant, and only the client's Disconnect goes back.
LEMMA StepInv ==
    ASSUME IInv, [Next]_vars
    PROVE  IInv' /\ Forward
<1>1. net \in [Hosts -> Seq(Segment)] /\ faults \in Nat
  BY DEF IInv, TypeOK
<1>2. CASE Listen
  BY <1>2, ListenKeeps
<1>3. CASE Connect
  BY <1>3, ConnectKeeps
<1>4. ASSUME NEW i \in 1 .. Len(sockets[Client]), NEW data \in Requests, ClientSend(i, data)
      PROVE  IInv' /\ Forward
  <2>. DEFINE old == sockets[Client][i]
  <2>1. old \in Socket
    BY ElementOfSeq, ConstantTypes DEF IInv, TypeOK
  <2>2. data \in Payloads
    BY ConstantTypes
  <2>3. AfterSend(old, data) \in Socket
        /\ AfterSend(old, data).lport = old.lport /\ AfterSend(old, data).rport = old.rport
        /\ AfterSend(old, data).state = old.state
        /\ AfterSend(old, data).opened = old.opened
    BY <2>1, <2>2, AfterSendType DEF AfterSend, Socket
  <2>4. /\ old.state = "ESTABLISHED"
        /\ sockets' = [sockets EXCEPT ![Client][i] = AfterSend(old, data)]
        /\ net' = [net EXCEPT ![Server] = Append(@, Out(old, {"PSH", "ACK"}, data))]
        /\ UNCHANGED <<freePort, spinning, faults>>
    BY <1>4 DEF ClientSend
  <2>. HIDE DEF old
  <2>. QED
    BY <2>2, <2>3, <2>4, ClientCallKeeps DEF old
<1>5. ASSUME NEW i \in 1 .. Len(sockets[Client]), ClientDisconnect(i)
      PROVE  IInv' /\ Forward
  <2>. DEFINE old == sockets[Client][i]
  <2>1. old \in Socket
    BY ElementOfSeq, ConstantTypes DEF IInv, TypeOK
  <2>2. Disconnected(old) \in Socket
        /\ Disconnected(old).lport = old.lport /\ Disconnected(old).rport = old.rport
        /\ Disconnected(old).state = "FIN_WAIT1" /\ Disconnected(old).opened = old.opened
    BY <2>1, DisconnectedType DEF Disconnected, Socket
  <2>3. /\ sockets' = [sockets EXCEPT ![Client][i] = Disconnected(old)]
        /\ net' = [net EXCEPT ![Server] = Append(@, Out(old, {"FIN", "ACK"}, NoData))]
        /\ UNCHANGED <<freePort, spinning, faults>>
    BY <1>5 DEF ClientDisconnect
  <2>. HIDE DEF old
  <2>. QED
    BY <1>5, <2>2, <2>3, ClientCallKeeps, ConstantTypes DEF old
<1>6. ASSUME NEW h \in Hosts, Arrive(h)
      PROVE  IInv' /\ Forward
  <2>1. net[h] \in Seq(Segment) /\ net[h] # << >> /\ h \notin spinning
    BY <1>1, <1>6 DEF Arrive
  <2>2. Len(net[h]) \in Nat /\ 1 \in 1 .. Len(net[h]) /\ Head(net[h]) = net[h][1]
    BY <2>1, LenProperties, EmptySeq
  <2>3. Tail(net[h]) \in Seq(Segment) /\ Part(Tail(net[h]), net[h])
    BY <2>1, RestIsPart
  <2>4. Handle(h, net[h][1], Tail(net[h])) /\ UNCHANGED <<freePort, faults>>
    BY <1>6, <2>2 DEF Arrive
  <2>. QED
    BY <1>1, <2>1, <2>2, <2>3, <2>4, HandleKeeps
<1>7. ASSUME NEW h \in Hosts, ArriveDisturbed(h)
      PROVE  IInv' /\ Forward
  <2>1. net[h] \in Seq(Segment) /\ h \notin spinning /\ faults' \in Nat /\ UNCHANGED freePort
    BY <1>1, <1>7 DEF ArriveDisturbed
  <2>2. ASSUME NEW k \in 2 .. Len(net[h]), Handle(h, net[h][k], RemoveAt(net[h], k))
        PROVE  IInv' /\ Forward
    <3>1. k \in 1 .. Len(net[h])
      BY <2>1, LenProperties
    <3>2. RemoveAt(net[h], k) \in Seq(Segment) /\ Part(RemoveAt(net[h], k), net[h])
      BY <2>1, <3>1, RestIsPart
    <3>. QED
      BY <2>1, <2>2, <3>1, <3>2, HandleKeeps
  <2>3. ASSUME NEW k \in 1 .. Len(net[h]), Handle(h, net[h][k], net[h])
        PROVE  IInv' /\ Forward
    <3>1. Part(net[h], net[h])
      BY <2>1, RestIsPart
    <3>. QED
      BY <2>1, <2>3, <3>1, HandleKeeps
  <2>. QED
    BY <1>7, <2>2, <2>3 DEF ArriveDisturbed
<1>8. ASSUME NEW h \in Hosts, Lose(h)
      PROVE  IInv' /\ Forward
  <2>1. PICK k \in 1 .. Len(net[h]) : net' = [net EXCEPT ![h] = RemoveAt(@, k)]
    BY <1>8 DEF Lose
  <2>2. RemoveAt(net[h], k) \in Seq(Segment) /\ Part(RemoveAt(net[h], k), net[h])
    BY <1>1, RestIsPart
  <2>3. net' \in [Hosts -> Seq(Segment)] /\ net'[h] = RemoveAt(net[h], k)
        /\ \A o \in Hosts : o # h => net'[o] = net[o]
    BY <1>1, <2>1, <2>2
  <2>4. \A o \in Hosts : Part(net'[o], net[o])
    <3>1. \A o \in Hosts : Part(net[o], net[o])
      BY DEF Part
    <3>. QED
      BY <2>2, <2>3, <3>1
  <2>5. UNCHANGED <<sockets, freePort, spinning>> /\ faults' \in Nat
    BY <1>1, <1>8 DEF Lose
  <2>. QED
    BY <2>3, <2>4, <2>5, SegmentsGo, ForwardSame
<1>9. CASE UNCHANGED vars
  <2>1. UNCHANGED <<sockets, freePort, net, spinning, faults>>
    BY <1>9 DEF vars
  <2>2. \A o \in Hosts : Part(net'[o], net[o])
    BY <2>1 DEF Part
  <2>. QED
    BY <1>1, <2>1, <2>2, SegmentsGo, ForwardSame
<1>. QED
  BY <1>2, <1>3, <1>4, <1>5, <1>6, <1>7, <1>8, <1>9 DEF Next

\* So the invariant always holds.
LEMMA Invariance == Spec => []IInv
BY InitInv, StepInv, PTL DEF Spec

\* The socket tables, the queues and the counters hold what the code's types allow,
\* and the client's ports never run into one another (tcp.cpp's tables).
THEOREM TypeCorrect == Spec => []TypeOK
BY Invariance, PTL DEF IInv

\* No client has two of the server's sockets: a repeated SYN finds the socket that
\* the first one took before any that still listens (line 105).
THEOREM OneSocketPerClientHolds == Spec => []OneSocketPerClient
BY Invariance, PTL DEF IInv

\* The handler spins in Socket::Send (line 62) only after a request that it has
\* answered and disconnected after.
THEOREM SpinsOnLaterRequestHolds == Spec => []SpinsOnLaterRequest
BY Invariance, PTL DEF IInv, Spinners

\* An open end of the server has a client's end that has been opened too (line 176).
THEOREM OpenOnBothEndsHolds == Spec => []OpenOnBothEnds
<1>1. IInv => OpenOnBothEnds
  <2>1. ASSUME IInv, NEW i \in 1 .. Len(sockets[Server]),
               sockets[Server][i].state \in OpenStates
        PROVE  \E j \in Peers(Server, sockets[Server][i]) : sockets[Client][j].opened
    <3>. DEFINE s == sockets[Server][i]
                j == s.rport - FirstFreePort + 1
    <3>1. ServerSocketOK(s)
      BY <2>1 DEF IInv, ServerTable
    <3>2. s.rport \in ClientPorts /\ Opened(s.rport)
      BY <2>1, <3>1 DEF ServerSocketOK, OpenStates
    <3>3. j \in 1 .. Len(sockets[Client]) /\ s.rport \in Int
      BY <2>1, <3>2, ClientPortFacts
    <3>4. sockets[Client][j].lport = FirstFreePort + j - 1
      BY <2>1, <3>3 DEF IInv, ClientTable, ClientSocketOK
    <3>5. sockets[Client][j].lport = s.rport
      BY <3>3, <3>4 DEF FirstFreePort
    <3>6. j \in Peers(Server, s)
      BY <3>3, <3>5, ConstantTypes DEF Peers, PortOf
    <3>. QED
      BY <3>2, <3>6 DEF Opened
  <2>. QED
    BY <2>1 DEF OpenOnBothEnds, OpenStates
<1>. QED
  BY <1>1, Invariance, PTL

\* Whatever the network brings, no socket returns to a state it has left, and none
\* that has a peer gets another one (lines 116, 120-190).  Only the client's own
\* Disconnect takes a socket back: lines 320-325 test no state.
THEOREM NeverGoesBackHolds == Spec => NeverGoesBack
<1>1. IInv /\ [Next]_vars => [Forward]_vars
  BY StepInv
<1>. QED
  BY <1>1, Invariance, PTL DEF Spec, NeverGoesBack, Forward
-----------------------------------------------------------------------------
(* No reset without a cause.  While the network makes no mistake and no     *)
(* client sends twice or leaves before its connection is open, the segments *)
(* of a port keep their order, and with them its two sockets go through one *)
(* of few conversations.                                                    *)
Orderly(s) == Len(s.sent) <= 1 /\ (s.fins > 0 => s.opened)
NoCause == faults = 0 /\ \A i \in 1 .. Len(sockets[Client]) : Orderly(sockets[Client][i])

One == Plus(Iss, 1)
Early == {"SYN_RECEIVED", "ESTABLISHED"}
Live == {"ESTABLISHED", "FIN_WAIT1", "FIN_WAIT2"}

\* A connection is a client's port: the segments of queue q, on their way to h, that
\* are of it, and the sockets at its ends.
PortIn(h, seg) == IF h = Server THEN seg.sport ELSE seg.dport
Of(h, q, port) == {g \in Elements(q) : PortIn(h, g) = port}
ClientOf(port) == sockets[Client][port - FirstFreePort + 1]
ServingIn(table, port) ==
    {table[j] : j \in {k \in 1 .. Len(table) : table[k].rport = port}}

\* What may come behind what: all but plain ACKs and FINs come once, and no data
\* comes after a FIN.
Follows(a, b) ==
    /\ a.flags = b.flags => a.flags \in {{"ACK"}, {"FIN", "ACK"}}
    /\ "FIN" \in a.flags => "PSH" \notin b.flags
InLine(h, q) ==
    \A j, k \in 1 .. Len(q) :
        j < k /\ PortIn(h, q[j]) = PortIn(h, q[k]) => Follows(q[j], q[k])

ClientCalm(c) ==
    /\ c.state = "SYN_SENT" => c.seq = Iss /\ c.sent = << >> /\ c.got = << >>
    /\ c.state = "ESTABLISHED" /\ c.sent = << >> => c.seq = One

ServerCalm(s, c) ==
    /\ s.state \in Early =>
         /\ s.seq = One /\ (s.got = << >> => s.ack = One)
         /\ c.state # "SYN_SENT" => c.state \in Live /\ c.got = << >> /\ c.ack = One
    /\ s.state \in {"CLOSE_WAIT", "CLOSED"} => c.state \notin {"SYN_SENT", "ESTABLISHED"}
    /\ s.got # << >> => c.sent # << >>

ToServerCalm(g, c, S) ==
    /\ "RST" \notin g.flags
    /\ "SYN" \in g.flags => g.seq = Iss /\ c.state = "SYN_SENT" /\ S = {}
    /\ "PSH" \in g.flags =>
         g.seq = One /\ c.sent # << >> /\ \A s \in S : s.got = << >> /\ s.state \in Early
    /\ "FIN" \in g.flags => c.state \notin {"SYN_SENT", "ESTABLISHED"}

ToClientCalm(g, c, S) ==
    /\ "RST" \notin g.flags
    /\ "SYN" \in g.flags => g.seq = Iss /\ c.state = "SYN_SENT" /\ S # {}
    /\ "PSH" \in g.flags => g.seq = One /\ c.got = << >> /\ c.ack = One /\ c.state \in Live
    /\ {"PSH", "FIN"} \cap g.flags # {} => \A s \in S : s.state \notin Early

\* What a conversation between the client's socket c and the server's, those of S, is
\* like, Q being on its way to the server and R to the client.
Calm(c, S, Q, R) ==
    /\ ClientCalm(c)
    /\ \A s \in S : ServerCalm(s, c)
    /\ \A g \in Q : ToServerCalm(g, c, S)
    /\ \A g \in R : ToClientCalm(g, c, S)

\* The handshake's ACK is on its way, and no FIN before it.
Waits(c, S) == c.state # "SYN_SENT" /\ \E s \in S : s.state = "SYN_RECEIVED"
Acked(q, port) ==
    \E k \in 1 .. Len(q) :
        /\ q[k].sport = port /\ q[k].flags = {"ACK"}
        /\ \A j \in 1 .. k : q[j].sport = port => "FIN" \notin q[j].flags

CalmOn(port) ==
    LET S == ServingIn(sockets[Server], port) IN
    /\ Calm(ClientOf(port), S, Of(Server, net[Server], port), Of(Client, net[Client], port))
    /\ Waits(ClientOf(port), S) => Acked(net[Server], port)

ListenersFresh ==
    \A j \in 1 .. Len(sockets[Server]) :
        sockets[Server][j].state = "LISTEN" => sockets[Server][j].got = << >>

AllCalm == /\ InLine(Client, net[Client]) /\ InLine(Server, net[Server])
           /\ ListenersFresh
           /\ \A port \in ClientPorts : CalmOn(port)

Quiet == NoCause => AllCalm
-----------------------------------------------------------------------------
\* A queue without its first segment.
LEMMA TailInLine ==
    ASSUME NEW h, NEW q \in Seq(Segment), q # << >>, InLine(h, q)
    PROVE  /\ InLine(h, Tail(q))
           /\ Head(q) \in Elements(q) /\ Elements(Tail(q)) \subseteq Elements(q)
           /\ \A g \in Elements(Tail(q)) :
                PortIn(h, g) = PortIn(h, Head(q)) => Follows(Head(q), g)
<1>1. /\ Tail(q) \in Seq(Segment) /\ Len(Tail(q)) = Len(q) - 1
      /\ \A k \in 1 .. Len(Tail(q)) : Tail(q)[k] = q[k + 1]
  BY HeadTailProperties
<1>2. Len(q) \in Nat /\ 1 \in 1 .. Len(q) /\ Head(q) = q[1]
  BY LenProperties, EmptySeq
<1>3. \A k \in 1 .. Len(Tail(q)) : k + 1 \in 1 .. Len(q) /\ 1 < k + 1
  BY <1>1, <1>2
<1>4. \A j, k \in 1 .. Len(Tail(q)) : j < k => j + 1 < k + 1
  OBVIOUS
<1>5. InLine(h, Tail(q))
  BY <1>1, <1>3, <1>4 DEF InLine
<1>6. Head(q) \in Elements(q) /\ Elements(Tail(q)) \subseteq Elements(q)
  BY <1>1, <1>2, <1>3 DEF Elements
<1>7. ASSUME NEW g \in Elements(Tail(q)), PortIn(h, g) = PortIn(h, Head(q))
      PROVE  Follows(Head(q), g)
  <2>1. PICK k \in 1 .. Len(Tail(q)) : g = Tail(q)[k]
    BY <1>7 DEF Elements
  <2>. QED
    BY <1>1, <1>2, <1>3, <1>7, <2>1 DEF InLine
<1>. QED
  BY <1>5, <1>6, <1>7

\* A queue with segments put behind it.
LEMMA ConcatInLine ==
    ASSUME NEW h, NEW q \in Seq(Segment), NEW out \in Seq(Segment),
           InLine(h, q), InLine(h, out),
           \A a \in Elements(q), b \in Elements(out) : PortIn(h, a) = PortIn(h, b) => Follows(a, b)
    PROVE  InLine(h, q \o out) /\ Elements(q \o out) \subseteq Elements(q) \cup Elements(out)
<1>1. Len(q) \in Nat /\ Len(out) \in Nat
  BY LenProperties
<1>2. /\ q \o out \in Seq(Segment) /\ Len(q \o out) = Len(q) + Len(out)
      /\ \A k \in 1 .. Len(q) + Len(out) :
            (q \o out)[k] = IF k <= Len(q) THEN q[k] ELSE out[k - Len(q)]
  BY ConcatProperties
<1>. DEFINE r == q \o out
<1>3. ASSUME NEW j \in 1 .. Len(r), NEW k \in 1 .. Len(r), j < k,
             PortIn(h, r[j]) = PortIn(h, r[k])
      PROVE  Follows(r[j], r[k])
  <2>1. CASE k <= Len(q)
    <3>1. j \in 1 .. Len(q) /\ k \in 1 .. Len(q) /\ r[j] = q[j] /\ r[k] = q[k]
      BY <1>1, <1>2, <1>3, <2>1
    <3>. QED
      BY <1>3, <3>1 DEF InLine
  <2>2. CASE j <= Len(q) /\ ~(k <= Len(q))
    <3>1. j \in 1 .. Len(q) /\ k - Len(q) \in 1 .. Len(out)
          /\ r[j] = q[j] /\ r[k] = out[k - Len(q)]
      BY <1>1, <1>2, <1>3, <2>2
    <3>. QED
      BY <1>3, <3>1 DEF Elements
  <2>3. CASE ~(j <= Len(q))
    <3>1. /\ j - Len(q) \in 1 .. Len(out) /\ k - Len(q) \in 1 .. Len(out)
          /\ j - Len(q) < k - Len(q)
          /\ r[j] = out[j - Len(q)] /\ r[k] = out[k - Len(q)]
      BY <1>1, <1>2, <1>3, <2>3
    <3>. QED
      BY <1>3, <3>1 DEF InLine
  <2>4. k <= Len(q) \/ (j <= Len(q) /\ ~(k <= Len(q))) \/ ~(j <= Len(q))
    OBVIOUS
  <2>. QED
    BY <2>1, <2>2, <2>3, <2>4
<1>4. InLine(h, r)
  BY <1>3 DEF InLine
<1>5. Elements(r) \subseteq Elements(q) \cup Elements(out)
  BY ConcatIsMixed, MixedIsUnion
<1>. QED
  BY <1>4, <1>5

\* The first segment goes, and is not the handshake's ACK.
LEMMA AckedTail ==
    ASSUME NEW q \in Seq(Segment), q # << >>, NEW port, Acked(q, port),
           ~(Head(q).sport = port /\ Head(q).flags = {"ACK"})
    PROVE  Acked(Tail(q), port)
<1>1. /\ Len(Tail(q)) = Len(q) - 1
      /\ \A k \in 1 .. Len(Tail(q)) : Tail(q)[k] = q[k + 1]
  BY HeadTailProperties
<1>2. Len(q) \in Nat /\ Head(q) = q[1]
  BY LenProperties, EmptySeq
<1>3. PICK k \in 1 .. Len(q) :
        /\ q[k].sport = port /\ q[k].flags = {"ACK"}
        /\ \A j \in 1 .. k : q[j].sport = port => "FIN" \notin q[j].flags
  BY DEF Acked
<1>4. k # 1
  BY <1>2, <1>3
<1>5. k - 1 \in 1 .. Len(Tail(q)) /\ (k - 1) + 1 = k
  BY <1>1, <1>2, <1>4
<1>6. \A j \in 1 .. k - 1 : j \in 1 .. Len(Tail(q)) /\ j + 1 \in 1 .. k
  BY <1>1, <1>2, <1>4
<1>7. Tail(q)[k - 1] = q[k]
  BY <1>1, <1>5
<1>8. \A j \in 1 .. k - 1 : Tail(q)[j].sport = port => "FIN" \notin Tail(q)[j].flags
  BY <1>1, <1>3, <1>6
<1>. QED
  BY <1>3, <1>5, <1>7, <1>8 DEF Acked

\* Segments are put behind it, or the ACK itself is.
LEMMA AckedConcat ==
    ASSUME NEW q \in Seq(Segment), NEW out \in Seq(Segment), NEW port,
           \/ Acked(q, port)
           \/ Of(Server, q, port) = {} /\ Acked(out, port)
    PROVE  Acked(q \o out, port)
<1>1. Len(q) \in Nat /\ Len(out) \in Nat
  BY LenProperties
<1>2. /\ Len(q \o out) = Len(q) + Len(out)
      /\ \A k \in 1 .. Len(q) + Len(out) :
            (q \o out)[k] = IF k <= Len(q) THEN q[k] ELSE out[k - Len(q)]
  BY ConcatProperties
<1>. DEFINE r == q \o out
<1>3. CASE Acked(q, port)
  <2>1. PICK k \in 1 .. Len(q) :
          /\ q[k].sport = port /\ q[k].flags = {"ACK"}
          /\ \A j \in 1 .. k : q[j].sport = port => "FIN" \notin q[j].flags
    BY <1>3 DEF Acked
  <2>2. k \in 1 .. Len(r) /\ \A j \in 1 .. k : r[j] = q[j]
    BY <1>1, <1>2
  <2>3. k \in 1 .. k
    OBVIOUS
  <2>. QED
    BY <2>1, <2>2, <2>3 DEF Acked
<1>4. CASE Of(Server, q, port) = {} /\ Acked(out, port)
  <2>1. PICK k \in 1 .. Len(out) :
          /\ out[k].sport = port /\ out[k].flags = {"ACK"}
          /\ \A j \in 1 .. k : out[j].sport = port => "FIN" \notin out[j].flags
    BY <1>4 DEF Acked
  <2>2. Len(q) + k \in 1 .. Len(r) /\ r[Len(q) + k] = out[k]
    BY <1>1, <1>2
  <2>3. ASSUME NEW j \in 1 .. Len(q) + k, r[j].sport = port
        PROVE  "FIN" \notin r[j].flags
    <3>1. CASE j <= Len(q)
      <4>1. j \in 1 .. Len(q) /\ r[j] = q[j]
        BY <1>1, <1>2, <3>1
      <4>2. q[j] \in Of(Server, q, port)
        BY <2>3, <4>1 DEF Of, PortIn, Elements
      <4>. QED
        BY <1>4, <4>2
    <3>2. CASE ~(j <= Len(q))
      <4>1. j - Len(q) \in 1 .. k /\ r[j] = out[j - Len(q)]
        BY <1>1, <1>2, <3>2
      <4>. QED
        BY <2>1, <2>3, <4>1
    <3>. QED
      BY <3>1, <3>2
  <2>. QED
    BY <2>1, <2>2, <2>3 DEF Acked
<1>. QED
  BY <1>3, <1>4
-----------------------------------------------------------------------------
(* The steps of one conversation.                                          *)

\* What IInv says of it.
Known(c, S, Q, R) ==
    /\ c.state \notin {"LISTEN", "SYN_RECEIVED"}
    /\ \A s \in S : /\ s.state \notin {"LISTEN", "SYN_SENT"}
                    /\ s.state \in OpenStates => c.state # "SYN_SENT"
                    /\ s.state \in FinWait => s.got # << >>
    /\ \A g \in Q : /\ g.flags \in {{"SYN"}, {"RST"}} \cup OpenFlags
                    /\ g.flags \in OpenFlags => c.state # "SYN_SENT"
    /\ \A g \in R : /\ g.flags \in {{"SYN", "ACK"}, {"RST"}} \cup OpenFlags
                    /\ g.flags \in OpenFlags => c.state # "SYN_SENT"

Talk(c, S, Q, R) == Known(c, S, Q, R) /\ Calm(c, S, Q, R)

\* Segment g is taken from those of its port, Q, in their order, and Q2 are left.
Takes(g, Q, Q2) == g \in Q /\ Q2 \in SUBSET Q /\ \A x \in Q2 : Follows(g, x)

\* Segments that are no longer there disturb nobody.
LEMMA CalmSubset ==
    ASSUME NEW c, NEW S, NEW Q, NEW R, Calm(c, S, Q, R),
           NEW Q2 \in SUBSET Q, NEW R2 \in SUBSET R
    PROVE  Calm(c, S, Q2, R2)
BY DEF Calm

\* Data comes once.
LEMMA DataOnce ==
    ASSUME NEW g, NEW Q, NEW Q2, Takes(g, Q, Q2), g.flags = {"PSH", "ACK"}
    PROVE  \A x \in Q2 : x.flags # {"PSH", "ACK"}
<1>1. "PSH" \in {"PSH", "ACK"} /\ "PSH" \notin {"ACK"} /\ "PSH" \notin {"FIN", "ACK"}
  OBVIOUS
<1>2. {"PSH", "ACK"} \notin {{"ACK"}, {"FIN", "ACK"}}
  BY <1>1
<1>. QED
  BY <1>2 DEF Takes, Follows

\* A listening socket takes the SYN: nothing else of the port is on its way.
LEMMA SynTaken ==
    ASSUME NEW c, NEW S, NEW Q, NEW R, Talk(c, S, Q, R),
           NEW g, NEW Q2, Takes(g, Q, Q2), g.flags = {"SYN"},
           NEW s, s.state = "SYN_RECEIVED", s.seq = One, s.ack = One, s.got = << >>,
           NEW a, a.flags = {"SYN", "ACK"}, a.seq = Iss
    PROVE  /\ Calm(c, {s}, Q2, R \cup {a}) /\ ~Waits(c, {s})
           /\ \A x \in R : Follows(x, a)
<1>. USE DEF Talk, Takes
<1>1. c.state = "SYN_SENT" /\ S = {}
  BY DEF Calm, ToServerCalm
<1>2. \A x \in Q : x.flags \notin OpenFlags /\ "RST" \notin x.flags
  BY <1>1 DEF Known, Calm, ToServerCalm
<1>3. \A x \in Q : x.flags = {"SYN"}
  BY <1>2 DEF Known
<1>4. Q2 = {}
  BY <1>3 DEF Follows
<1>5. \A x \in R : x.flags \notin OpenFlags /\ "RST" \notin x.flags /\ "SYN" \notin x.flags
  BY <1>1 DEF Known, Calm, ToClientCalm
<1>6. R = {}
  BY <1>5 DEF Known
<1>7. ClientCalm(c) /\ ServerCalm(s, c)
  BY <1>1 DEF Calm, ServerCalm
<1>8. ToClientCalm(a, c, {s})
  BY <1>1 DEF ToClientCalm
<1>. QED
  BY <1>1, <1>4, <1>6, <1>7, <1>8 DEF Calm, Waits

\* An ACK, or data it carries with it, moves the server's socket: no data is lost
\* unless the socket was not open yet, and then it is as it was before.
LEMMA ServerAcked ==
    ASSUME NEW c, NEW old, NEW S, S = {old}, NEW Q, NEW R, Talk(c, S, Q, R),
           NEW g, NEW Q2, Takes(g, Q, Q2), g.flags \in {{"ACK"}, {"PSH", "ACK"}},
           NEW s, s.seq = old.seq, s.ack = old.ack, s.got = old.got,
           \/ old.state = "SYN_RECEIVED" /\ s.state = "ESTABLISHED"
           \/ old.state = "FIN_WAIT1" /\ s.state = "FIN_WAIT2"
           \/ old.state = "CLOSE_WAIT" /\ s.state = "CLOSED"
    PROVE  Calm(c, {s}, Q2, R) /\ ~Waits(c, {s})
<1>. USE DEF Talk, Takes
<1>1. c.state # "SYN_SENT"
  BY DEF Known, OpenFlags
<1>2. s.state \in Early <=> old.state \in Early
  BY DEF Early
<1>3. ClientCalm(c) /\ ServerCalm(s, c)
  BY <1>1, <1>2 DEF Calm, ServerCalm, Early
<1>4. \A x \in Q2 : ToServerCalm(x, c, {s})
  BY <1>1, <1>2 DEF Calm, ToServerCalm
<1>5. \A x \in R : ToClientCalm(x, c, {s})
  BY <1>1, <1>2 DEF Calm, ToClientCalm
<1>. QED
  BY <1>3, <1>4, <1>5 DEF Calm, Waits

\* An open client's port has nothing but ACKs on its way back while the server's
\* socket has not ended or answered.
LEMMA OnlyAcksBack ==
    ASSUME NEW c, NEW S, NEW Q, NEW R, Talk(c, S, Q, R),
           c.state # "SYN_SENT", NEW old \in S, old.state \in Early
    PROVE  \A x \in R : x.flags = {"ACK"}
<1>. USE DEF Talk, Takes
<1>1. \A x \in R : /\ "RST" \notin x.flags /\ "SYN" \notin x.flags
                   /\ "PSH" \notin x.flags /\ "FIN" \notin x.flags
  BY DEF Calm, ToClientCalm
<1>. QED
  BY <1>1 DEF Known, OpenFlags

\* Text that the server's handler prints.
LEMMA ServerTold ==
    ASSUME NEW c, NEW old, NEW S, S = {old}, NEW Q, NEW R, Talk(c, S, Q, R),
           NEW g, NEW Q2, Takes(g, Q, Q2), g.flags = {"PSH", "ACK"}, old.state = "ESTABLISHED",
           NEW s, s.state = old.state, s.seq = old.seq, s.got # << >>,
           NEW a, a.flags = {"ACK"}
    PROVE  /\ Calm(c, {s}, Q2, R \cup {a}) /\ ~Waits(c, {s})
           /\ \A x \in R : Follows(x, a)
<1>. USE DEF Talk, Takes
<1>1. c.state # "SYN_SENT"
  BY DEF Known, OpenFlags
<1>2. "PSH" \in g.flags /\ "PSH" \notin {"ACK"} /\ "FIN" \notin {"ACK"}
      /\ "RST" \notin {"ACK"} /\ "SYN" \notin {"ACK"}
  OBVIOUS
<1>3. ClientCalm(c) /\ ServerCalm(s, c)
  BY <1>1, <1>2 DEF Calm, ServerCalm, ToServerCalm, Early
<1>4. \A x \in Q2 : "PSH" \notin x.flags
  <2>1. \A x \in Q2 : x.flags # {"PSH", "ACK"}
    BY DataOnce
  <2>. QED
    BY <2>1 DEF Known, OpenFlags
<1>5. \A x \in Q2 : ToServerCalm(x, c, {s})
  BY <1>1, <1>4 DEF Calm, ToServerCalm
<1>6. \A x \in R : x.flags = {"ACK"}
  <2>1. old \in S /\ old.state \in Early
    BY DEF Early
  <2>. QED
    BY <1>1, <2>1, OnlyAcksBack
<1>7. \A x \in R \cup {a} : x.flags = {"ACK"}
  BY <1>6
<1>8. \A x \in R \cup {a} : ToClientCalm(x, c, {s})
  BY <1>7 DEF ToClientCalm
<1>9. \A x \in R : Follows(x, a)
  BY <1>6 DEF Follows
<1>. QED
  BY <1>3, <1>5, <1>8, <1>9 DEF Calm, Waits

\* What socket old sends in answer to a request: data, a FIN and an ACK.
Answers(old, O) ==
    \A y \in O : \/ y.flags = {"PSH", "ACK"} /\ y.seq = old.seq
                 \/ y.flags \in {{"FIN", "ACK"}, {"ACK"}}

\* A request that is answered.
LEMMA ServerAsked ==
    ASSUME NEW c, NEW old, NEW S, S = {old}, NEW Q, NEW R, Talk(c, S, Q, R),
           NEW g, NEW Q2, Takes(g, Q, Q2), g.flags = {"PSH", "ACK"}, old.state = "ESTABLISHED",
           NEW s, s.state = "FIN_WAIT1", s.got # << >>,
           NEW O, Answers(old, O)
    PROVE  /\ Calm(c, {s}, Q2, R \cup O) /\ ~Waits(c, {s})
           /\ \A x \in R, y \in O : Follows(x, y)
<1>. USE DEF Talk, Takes
<1>1. c.state # "SYN_SENT"
  BY DEF Known, OpenFlags
<1>2. "PSH" \in g.flags
  OBVIOUS
<1>3. ClientCalm(c) /\ ServerCalm(s, c)
  BY <1>1, <1>2 DEF Calm, ServerCalm, ToServerCalm, Early
<1>4. \A x \in Q2 : "PSH" \notin x.flags
  <2>1. \A x \in Q2 : x.flags # {"PSH", "ACK"}
    BY DataOnce
  <2>. QED
    BY <2>1 DEF Known, OpenFlags
<1>5. \A x \in Q2 : ToServerCalm(x, c, {s})
  BY <1>1, <1>4 DEF Calm, ToServerCalm
<1>6. \A x \in R : x.flags = {"ACK"}
  <2>1. old \in S /\ old.state \in Early
    BY DEF Early
  <2>. QED
    BY <1>1, <2>1, OnlyAcksBack
<1>7. c.got = << >> /\ c.ack = One /\ c.state \in Live /\ old.seq = One
  BY <1>1 DEF Calm, ServerCalm, Early
<1>8. s.state \notin Early
  BY DEF Early
<1>9. \A x \in R : ToClientCalm(x, c, {s})
  BY <1>6 DEF ToClientCalm
<1>10. \A y \in O : ToClientCalm(y, c, {s})
  BY <1>7, <1>8 DEF Answers, ToClientCalm
<1>11. \A x \in R, y \in O : Follows(x, y)
  BY <1>6 DEF Answers, Follows
<1>. QED
  BY <1>3, <1>5, <1>9, <1>10, <1>11 DEF Calm, Waits

\* The client's FIN: its ACK of the handshake has come before it.
LEMMA ServerEnds ==
    ASSUME NEW c, NEW old, NEW S, S = {old}, NEW Q, NEW R, Talk(c, S, Q, R),
           NEW g, NEW Q2, Takes(g, Q, Q2), g.flags = {"FIN", "ACK"},
           NEW s, s.got = old.got, s.state \in {"CLOSE_WAIT", "CLOSED"},
           NEW O, \A y \in O : \/ y.flags = {"ACK"}
                               \/ y.flags = {"FIN", "ACK"} /\ old.state = "ESTABLISHED"
    PROVE  /\ Calm(c, {s}, Q2, R \cup O) /\ ~Waits(c, {s})
           /\ \A x \in R, y \in O : Follows(x, y)
<1>. USE DEF Talk, Takes
<1>1. c.state \notin {"SYN_SENT", "ESTABLISHED"}
  BY DEF Calm, ToServerCalm
<1>2. s.state \notin Early
  BY DEF Early
<1>3. ClientCalm(c) /\ ServerCalm(s, c)
  BY <1>1, <1>2 DEF Calm, ServerCalm
<1>4. \A x \in Q2 : "PSH" \notin x.flags
  BY DEF Follows
<1>5. \A x \in Q2 : ToServerCalm(x, c, {s})
  BY <1>1, <1>4 DEF Calm, ToServerCalm
<1>6. \A x \in R : "SYN" \notin x.flags
  BY <1>1 DEF Calm, ToClientCalm
<1>7. \A x \in R : ToClientCalm(x, c, {s})
  BY <1>2, <1>6 DEF Calm, ToClientCalm
<1>8. \A y \in O : y.flags \in {{"ACK"}, {"FIN", "ACK"}}
  OBVIOUS
<1>9. \A y \in O : ToClientCalm(y, c, {s})
  BY <1>2, <1>8 DEF ToClientCalm
<1>10. \A x \in R, y \in O : Follows(x, y)
  BY <1>8 DEF Follows
<1>. QED
  BY <1>2, <1>3, <1>5, <1>7, <1>9, <1>10 DEF Calm, Waits, Early

\* The answer to the SYN opens the client's socket: nothing else of the port is on
\* its way.
LEMMA SynAckTaken ==
    ASSUME NEW c, NEW S, NEW Q, NEW R, Talk(c, S, Q, R),
           NEW g, NEW R2, Takes(g, R, R2), g.flags = {"SYN", "ACK"},
           NEW d, d.state = "ESTABLISHED", d.seq = One, d.ack = One,
           d.sent = c.sent, d.got = c.got,
           NEW a, a.flags = {"ACK"}
    PROVE  Q = {} /\ Calm(d, S, {a}, R2)
<1>. USE DEF Talk, Takes
<1>1. c.state = "SYN_SENT" /\ S # {} /\ c.sent = << >> /\ c.got = << >>
  BY DEF Calm, ToClientCalm, ClientCalm
<1>2. \A x \in Q : x.flags \notin OpenFlags /\ "RST" \notin x.flags /\ "SYN" \notin x.flags
  BY <1>1 DEF Known, Calm, ToServerCalm
<1>3. Q = {}
  BY <1>2 DEF Known
<1>4. \A x \in R : x.flags \notin OpenFlags /\ "RST" \notin x.flags
  BY <1>1 DEF Known, Calm, ToClientCalm
<1>5. \A x \in R : x.flags = {"SYN", "ACK"}
  BY <1>4 DEF Known
<1>6. R2 = {}
  BY <1>5 DEF Follows
<1>7. ClientCalm(d)
  BY DEF ClientCalm
<1>8. \A s \in S : ServerCalm(s, d)
  BY <1>1 DEF Calm, Known, ServerCalm, OpenStates, Early, Live
<1>9. ToServerCalm(a, d, S)
  BY DEF ToServerCalm
<1>. QED
  BY <1>3, <1>6, <1>7, <1>8, <1>9 DEF Calm

\* What the client sends when it is open stands behind what it has sent before.
LEMMA SentBehind ==
    ASSUME NEW c, NEW S, NEW Q, NEW R, Talk(c, S, Q, R),
           c.state # "SYN_SENT", NEW O, \A y \in O : y.flags \in {{"ACK"}, {"FIN", "ACK"}}
    PROVE  \A x \in Q, y \in O : Follows(x, y)
<1>. USE DEF Talk, Takes
<1>1. \A x \in Q : "SYN" \notin x.flags
  BY DEF Calm, ToServerCalm
<1>. QED
  BY <1>1 DEF Follows

\* An ACK, or data it carries with it, moves the client's socket.
LEMMA ClientAcked ==
    ASSUME NEW c, NEW S, NEW Q, NEW R, Talk(c, S, Q, R),
           NEW g, NEW R2, Takes(g, R, R2), g.flags \in {{"ACK"}, {"PSH", "ACK"}},
           NEW d, d.seq = c.seq, d.ack = c.ack, d.sent = c.sent, d.got = c.got,
           \/ c.state = "FIN_WAIT1" /\ d.state = "FIN_WAIT2"
           \/ c.state = "CLOSE_WAIT" /\ d.state = "CLOSED"
    PROVE  Calm(d, S, Q, R2) /\ (Waits(d, S) => Waits(c, S))
<1>. USE DEF Talk, Takes
<1>1. c.state \notin {"SYN_SENT", "ESTABLISHED"} /\ d.state \notin {"SYN_SENT", "ESTABLISHED"}
  OBVIOUS
<1>2. c.state \in Live <=> d.state \in Live
  BY DEF Live
<1>3. ClientCalm(d)
  BY <1>1, <1>2 DEF Calm, ClientCalm
<1>4. \A s \in S : ServerCalm(s, d)
  BY <1>1, <1>2 DEF Calm, ServerCalm
<1>5. \A x \in Q : ToServerCalm(x, d, S)
  BY <1>1 DEF Calm, ToServerCalm
<1>6. \A x \in R2 : ToClientCalm(x, d, S)
  BY <1>1, <1>2 DEF Calm, ToClientCalm
<1>. QED
  BY <1>1, <1>3, <1>4, <1>5, <1>6 DEF Calm, Waits

\* Data that the client's handler is given: the server has sent all it will.
LEMMA ClientTold ==
    ASSUME NEW c, NEW S, NEW Q, NEW R, Talk(c, S, Q, R),
           NEW g, NEW R2, Takes(g, R, R2), g.flags = {"PSH", "ACK"},
           NEW d, d.state = c.state, d.seq = c.seq, d.sent = c.sent, d.got # << >>,
           NEW a, a.flags = {"ACK"}
    PROVE  /\ Calm(d, S, Q \cup {a}, R2) /\ ~Waits(d, S)
           /\ \A x \in Q : Follows(x, a)
<1>. USE DEF Talk, Takes
<1>1. c.state # "SYN_SENT"
  BY DEF Known, OpenFlags
<1>2. \A s \in S : s.state \notin Early
  BY DEF Calm, ToClientCalm
<1>3. ClientCalm(d)
  BY <1>1 DEF Calm, ClientCalm
<1>4. \A s \in S : ServerCalm(s, d)
  BY <1>2 DEF Calm, ServerCalm
<1>5. \A x \in Q : ToServerCalm(x, d, S)
  BY DEF Calm, ToServerCalm
<1>6. ToServerCalm(a, d, S)
  BY DEF ToServerCalm
<1>7. \A x \in R2 : "PSH" \notin x.flags
  <2>1. \A x \in R2 : x.flags # {"PSH", "ACK"}
    BY DataOnce
  <2>. QED
    BY <2>1 DEF Known, OpenFlags
<1>8. \A x \in R2 : ToClientCalm(x, d, S)
  BY <1>1, <1>7 DEF Calm, ToClientCalm
<1>9. \A x \in Q : Follows(x, a)
  <2>1. \A y \in {a} : y.flags \in {{"ACK"}, {"FIN", "ACK"}}
    OBVIOUS
  <2>2. \A x \in Q, y \in {a} : Follows(x, y)
    BY <1>1, <2>1, SentBehind
  <2>. QED
    BY <2>2
<1>. QED
  BY <1>2, <1>3, <1>4, <1>5, <1>6, <1>8, <1>9 DEF Calm, Waits, Early

\* The server's FIN.
LEMMA ClientEnds ==
    ASSUME NEW c, NEW S, NEW Q, NEW R, Talk(c, S, Q, R),
           NEW g, NEW R2, Takes(g, R, R2), g.flags = {"FIN", "ACK"},
           NEW d, d.sent = c.sent, d.state \in {"CLOSE_WAIT", "CLOSED"},
           NEW O, \A y \in O : y.flags \in {{"ACK"}, {"FIN", "ACK"}}
    PROVE  /\ Calm(d, S, Q \cup O, R2) /\ ~Waits(d, S)
           /\ \A x \in Q, y \in O : Follows(x, y)
<1>. USE DEF Talk, Takes
<1>1. c.state # "SYN_SENT"
  BY DEF Known, OpenFlags
<1>2. \A s \in S : s.state \notin Early
  BY DEF Calm, ToClientCalm
<1>3. d.state \notin {"SYN_SENT", "ESTABLISHED"} \cup Live
  BY DEF Live
<1>4. ClientCalm(d) /\ \A s \in S : ServerCalm(s, d)
  BY <1>2, <1>3 DEF Calm, ClientCalm, ServerCalm
<1>5. \A x \in Q : ToServerCalm(x, d, S)
  BY <1>1, <1>3 DEF Calm, ToServerCalm
<1>6. \A y \in O : ToServerCalm(y, d, S)
  BY <1>3 DEF ToServerCalm
<1>7. \A x \in R2 : "PSH" \notin x.flags /\ "SYN" \notin x.flags
  BY <1>1 DEF Follows, Calm, ToClientCalm
<1>8. \A x \in R2 : ToClientCalm(x, d, S)
  BY <1>7 DEF Calm, ToClientCalm
<1>9. \A x \in Q, y \in O : Follows(x, y)
  BY <1>1, SentBehind
<1>. QED
  BY <1>2, <1>4, <1>5, <1>6, <1>8, <1>9 DEF Calm, Waits, Early

\* The client's only data.
LEMMA ClientSpeaks ==
    ASSUME NEW c, NEW S, NEW Q, NEW R, Talk(c, S, Q, R),
           c.state = "ESTABLISHED", c.sent = << >>,
           NEW d, d.state = "ESTABLISHED", d.ack = c.ack, d.got = c.got, d.sent # << >>,
           NEW a, a.flags = {"PSH", "ACK"}, a.seq = c.seq,
           \A s \in S : s.state \in States
    PROVE  /\ Calm(d, S, Q \cup {a}, R) /\ (Waits(d, S) => Waits(c, S))
           /\ \A x \in Q : Follows(x, a)
<1>. USE DEF Talk, Takes
<1>1. c.seq = One
  BY DEF Calm, ClientCalm
<1>2. ClientCalm(d)
  BY DEF Calm, ClientCalm
<1>3. \A s \in S : ServerCalm(s, d)
  BY DEF Calm, ServerCalm
<1>4. \A s \in S : s.got = << >>
  BY DEF Calm, ServerCalm
<1>5. \A s \in S : s.state \in Early
  <2>1. ASSUME NEW s \in S PROVE s.state \in Early
    <3>1. s.state \notin {"CLOSE_WAIT", "CLOSED"}
      BY DEF Calm, ServerCalm
    <3>2. s.state \notin {"LISTEN", "SYN_SENT"} \cup FinWait /\ s.state \in States
      BY <1>4 DEF Known
    <3>. QED
      BY <3>1, <3>2 DEF States, FinWait, Early
  <2>. QED
    BY <2>1
<1>6. \A x \in Q : ToServerCalm(x, d, S)
  BY DEF Calm, ToServerCalm
<1>7. ToServerCalm(a, d, S)
  BY <1>1, <1>4, <1>5 DEF ToServerCalm
<1>8. \A x \in R : ToClientCalm(x, d, S)
  BY DEF Calm, ToClientCalm
<1>9. \A x \in Q : x.flags = {"ACK"}
  <2>1. \A x \in Q : /\ "RST" \notin x.flags /\ "SYN" \notin x.flags
                     /\ "PSH" \notin x.flags /\ "FIN" \notin x.flags
    BY DEF Calm, ToServerCalm
  <2>. QED
    BY <2>1 DEF Known, OpenFlags
<1>10. \A x \in Q : Follows(x, a)
  BY <1>9 DEF Follows
<1>. QED
  BY <1>2, <1>3, <1>6, <1>7, <1>8, <1>10 DEF Calm, Waits

\* The client's own FIN.
LEMMA ClientLeaves ==
    ASSUME NEW c, NEW S, NEW Q, NEW R, Talk(c, S, Q, R),
           c.state # "SYN_SENT",
           NEW d, d.state = "FIN_WAIT1", d.ack = c.ack, d.got = c.got, d.sent = c.sent,
           NEW a, a.flags = {"FIN", "ACK"}
    PROVE  /\ Calm(d, S, Q \cup {a}, R) /\ (Waits(d, S) => Waits(c, S))
           /\ \A x \in Q : Follows(x, a)
<1>. USE DEF Talk, Takes
<1>1. d.state \in Live
  BY DEF Live
<1>2. ClientCalm(d)
  BY <1>1 DEF Calm, ClientCalm
<1>3. \A s \in S : ServerCalm(s, d)
  BY <1>1 DEF Calm, ServerCalm
<1>4. \A x \in Q : ToServerCalm(x, d, S)
  BY DEF Calm, ToServerCalm
<1>5. ToServerCalm(a, d, S)
  BY DEF ToServerCalm
<1>6. \A x \in R : ToClientCalm(x, d, S)
  BY <1>1 DEF Calm, ToClientCalm
<1>7. \A x \in Q : Follows(x, a)
  <2>1. \A y \in {a} : y.flags \in {{"ACK"}, {"FIN", "ACK"}}
    OBVIOUS
  <2>2. c.state # "SYN_SENT"
    OBVIOUS
  <2>3. \A x \in Q, y \in {a} : Follows(x, y)
    BY <2>1, <2>2, SentBehind
  <2>. QED
    BY <2>3
<1>. QED
  BY <1>2, <1>3, <1>4, <1>5, <1>6, <1>7 DEF Calm, Waits
-----------------------------------------------------------------------------
(* The steps of the program.                                               *)

\* What the invariant says of a port's conversation.
LEMMA Conversation ==
    ASSUME IInv, NEW port \in ClientPorts
    PROVE  /\ ClientOf(port) \in Socket
           /\ \A s \in ServingIn(sockets[Server], port) :
                s \in Socket /\ s.rport = port /\ s.lport = ServerPort
           /\ Known(ClientOf(port), ServingIn(sockets[Server], port),
                    Of(Server, net[Server], port), Of(Client, net[Client], port))
<1>. DEFINE c == ClientOf(port)
            S == ServingIn(sockets[Server], port)
<1>1. sockets[Server] \in Seq(Socket)
  BY ConstantTypes DEF IInv, TypeOK
<1>2. c \in Socket /\ c.state \notin {"LISTEN", "SYN_RECEIVED"}
      /\ (Began(port) <=> c.state # "SYN_SENT") /\ (Opened(port) => c.state # "SYN_SENT")
  <2>1. port - FirstFreePort + 1 \in 1 .. Len(sockets[Client])
    BY ClientPortFacts
  <2>2. ClientSocketOK(port - FirstFreePort + 1, c) /\ c \in Socket
    BY <2>1, ClientPortFacts, ElementOfSeq DEF IInv, ClientTable, ClientOf
  <2>. QED
    BY <2>2 DEF ClientSocketOK, Opened, Began, ClientOf
<1>3. ASSUME NEW s \in S
      PROVE  s \in Socket /\ s.rport = port /\ ServerSocketOK(s)
  <2>1. PICK j \in 1 .. Len(sockets[Server]) : s = sockets[Server][j] /\ s.rport = port
    BY <1>3 DEF ServingIn
  <2>. QED
    BY <1>1, <2>1, ElementOfSeq DEF IInv, ServerTable
<1>4. port # NoPort
  BY DEF ClientPorts, FirstFreePort, NoPort
<1>5. ASSUME NEW s \in S
      PROVE  /\ s.state \notin {"LISTEN", "SYN_SENT"}
             /\ s.state \in OpenStates => c.state # "SYN_SENT"
             /\ s.state \in FinWait => s.got # << >>
  <2>1. HasRequest(s) => s.got # << >>
    BY DEF HasRequest
  <2>. QED
    BY <1>2, <1>3, <1>4, <1>5, <2>1 DEF ServerSocketOK
<1>6. ASSUME NEW g \in Of(Server, net[Server], port)
      PROVE  /\ g.flags \in {{"SYN"}, {"RST"}} \cup OpenFlags
             /\ g.flags \in OpenFlags => c.state # "SYN_SENT"
  <2>1. ToServerOK(g) /\ g.sport = port
    BY <1>6 DEF Of, PortIn, IInv, ToServer, Carried
  <2>. QED
    BY <1>2, <2>1 DEF ToServerOK, OpenFlags
<1>7. ASSUME NEW g \in Of(Client, net[Client], port)
      PROVE  /\ g.flags \in {{"SYN", "ACK"}, {"RST"}} \cup OpenFlags
             /\ g.flags \in OpenFlags => c.state # "SYN_SENT"
  <2>1. ToClientOK(g) /\ g.dport = port
    BY <1>7, ConstantTypes DEF Of, PortIn, IInv, ToClient, Carried
  <2>. QED
    BY <1>2, <2>1 DEF ToClientOK, OpenFlags
<1>8. \A s \in S : s.lport = ServerPort
  BY <1>3 DEF ServerSocketOK
<1>. QED
  BY <1>2, <1>3, <1>5, <1>6, <1>7, <1>8 DEF Known

\* The segments of a port in a longer queue.
LEMMA OfConcat ==
    ASSUME NEW h, NEW q, NEW r, NEW out, Elements(r) \subseteq Elements(q) \cup Elements(out),
           NEW port
    PROVE  Of(h, r, port) \subseteq Of(h, q, port) \cup Of(h, out, port)
BY DEF Of

\* The segments of a port in a shorter one.
LEMMA OfSubset ==
    ASSUME NEW h, NEW q, NEW r, Elements(r) \subseteq Elements(q), NEW port
    PROVE  Of(h, r, port) \in SUBSET Of(h, q, port)
BY DEF Of

\* Tables that agree on a port's sockets.
LEMMA ServingSame ==
    ASSUME NEW t, NEW u, Len(t) = Len(u), NEW port,
           \A k \in 1 .. Len(u) : /\ t[k].rport = port <=> u[k].rport = port
                                  /\ u[k].rport = port => t[k] = u[k]
    PROVE  ServingIn(t, port) = ServingIn(u, port)
<1>1. ASSUME NEW x \in ServingIn(t, port) PROVE x \in ServingIn(u, port)
  <2>1. PICK k \in 1 .. Len(t) : t[k].rport = port /\ x = t[k]
    BY <1>1 DEF ServingIn
  <2>. QED
    BY <2>1 DEF ServingIn
<1>2. ASSUME NEW x \in ServingIn(u, port) PROVE x \in ServingIn(t, port)
  <2>1. PICK k \in 1 .. Len(u) : u[k].rport = port /\ x = u[k]
    BY <1>2 DEF ServingIn
  <2>. QED
    BY <2>1 DEF ServingIn
<1>. QED
  BY <1>1, <1>2

\* A segment is dropped, which is not the ACK the server's socket waits for.
LEMMA DropsCalm ==
    ASSUME IInv, AllCalm, NEW h \in Hosts, net[h] # << >>,
           net' = [net EXCEPT ![h] = Tail(net[h])], UNCHANGED <<sockets, freePort>>,
           h = Server /\ Head(net[h]).flags = {"ACK"} =>
             LET port == Head(net[h]).sport IN
             ~Waits(ClientOf(port), ServingIn(sockets[Server], port))
    PROVE  AllCalm'
<1>. USE ConstantTypes
<1>1. net \in [Hosts -> Seq(Segment)] /\ net[h] \in Seq(Segment)
  BY DEF IInv, TypeOK
<1>2. net'[h] = Tail(net[h]) /\ \A o \in Hosts : o # h => net'[o] = net[o]
  BY <1>1
<1>3. \A o \in Hosts : InLine(o, net[o])
  BY DEF AllCalm
<1>4. InLine(h, Tail(net[h])) /\ Elements(Tail(net[h])) \subseteq Elements(net[h])
  BY <1>1, <1>3, TailInLine
<1>5. \A o \in Hosts : InLine(o, net'[o]) /\ Elements(net'[o]) \subseteq Elements(net[o])
  <2>1. TAKE o \in Hosts
  <2>2. CASE o = h
    BY <1>2, <1>4, <2>2
  <2>3. CASE o # h
    BY <1>2, <1>3, <2>3
  <2>. QED
    BY <2>2, <2>3
<1>6. InLine(Client, net'[Client]) /\ InLine(Server, net'[Server])
  BY <1>5
<1>7. ASSUME NEW port \in ClientPorts PROVE CalmOn(port)'
  <2>. DEFINE c == ClientOf(port)
              S == ServingIn(sockets[Server], port)
  <2>1. Calm(c, S, Of(Server, net[Server], port), Of(Client, net[Client], port))
        /\ (Waits(c, S) => Acked(net[Server], port))
    BY DEF AllCalm, CalmOn
  <2>2. /\ Of(Server, net'[Server], port) \in SUBSET Of(Server, net[Server], port)
        /\ Of(Client, net'[Client], port) \in SUBSET Of(Client, net[Client], port)
    BY <1>5, OfSubset
  <2>3. Calm(c, S, Of(Server, net'[Server], port), Of(Client, net'[Client], port))
    BY <2>1, <2>2, CalmSubset
  <2>4. ASSUME Waits(c, S) PROVE Acked(net'[Server], port)
    <3>1. Acked(net[Server], port)
      BY <2>1, <2>4
    <3>2. CASE h = Server
      <4>1. ~(Head(net[h]).sport = port /\ Head(net[h]).flags = {"ACK"})
        BY <2>4, <3>2
      <4>. QED
        BY <1>1, <1>2, <3>1, <3>2, <4>1, AckedTail
    <3>3. CASE h # Server
      BY <1>2, <3>1, <3>3
    <3>. QED
      BY <3>2, <3>3
  <2>. QED
    BY <2>3, <2>4 DEF CalmOn, ClientOf
<1>8. ListenersFresh' /\ ClientPorts' = ClientPorts
  BY DEF AllCalm, ListenersFresh, ClientPorts
<1>. QED
  BY <1>6, <1>7, <1>8 DEF AllCalm

\* The first segment for the server moves one of its sockets.
LEMMA ServerTurns ==
    ASSUME IInv, IInv', AllCalm, net[Server] # << >>,
           NEW i \in 1 .. Len(sockets[Server]), NEW s \in Socket, NEW out \in Seq(Segment),
           Becomes(Server, Tail(net[Server]), i, s, out), UNCHANGED freePort,
           NEW port \in ClientPorts, Head(net[Server]).sport = port, s.rport = port,
           sockets[Server][i].rport \in {NoPort, port}, s.state # "LISTEN",
           InLine(Client, out), \A y \in Elements(out) : y.dport = port,
           \A x \in Of(Client, net[Client], port), y \in Elements(out) : Follows(x, y),
           Calm(ClientOf(port), {s}, Of(Server, Tail(net[Server]), port),
                Of(Client, net[Client], port) \cup Elements(out)),
           ~Waits(ClientOf(port), {s})
    PROVE  AllCalm'
<1>. USE ConstantTypes
<1>1. net \in [Hosts -> Seq(Segment)] /\ net[Server] \in Seq(Segment)
      /\ net[Client] \in Seq(Segment) /\ sockets \in [Hosts -> Seq(Socket)]
  BY DEF IInv, TypeOK
<1>2. net'[Server] = Tail(net[Server]) /\ net'[Client] = net[Client] \o out
  BY <1>1 DEF Becomes
<1>3. /\ sockets'[Client] = sockets[Client]
      /\ Len(sockets'[Server]) = Len(sockets[Server])
      /\ sockets'[Server][i] = s
      /\ \A j \in 1 .. Len(sockets[Server]) : j # i => sockets'[Server][j] = sockets[Server][j]
  BY <1>1, TableExcept DEF Becomes
<1>4. /\ InLine(Server, net'[Server])
      /\ Elements(net'[Server]) \subseteq Elements(net[Server])
  <2>1. InLine(Server, net[Server])
    BY DEF AllCalm
  <2>2. /\ InLine(Server, Tail(net[Server]))
        /\ Elements(Tail(net[Server])) \subseteq Elements(net[Server])
    BY <1>1, <2>1, TailInLine
  <2>. QED
    BY <1>2, <2>2
<1>5. /\ InLine(Client, net'[Client])
      /\ Elements(net'[Client]) \subseteq Elements(net[Client]) \cup Elements(out)
  <2>1. ASSUME NEW x \in Elements(net[Client]), NEW y \in Elements(out),
               PortIn(Client, x) = PortIn(Client, y)
        PROVE  Follows(x, y)
    BY <2>1 DEF PortIn, Of
  <2>2. InLine(Client, net[Client])
    BY DEF AllCalm
  <2>. QED
    BY <1>1, <1>2, <2>1, <2>2, ConcatInLine
<1>6. ListenersFresh'
  <2>1. ASSUME NEW j \in 1 .. Len(sockets[Server]), sockets'[Server][j].state = "LISTEN"
        PROVE  sockets'[Server][j].got = << >>
    <3>1. j # i
      BY <1>3, <2>1
    <3>2. sockets'[Server][j] = sockets[Server][j]
      BY <1>3, <3>1
    <3>. QED
      BY <2>1, <3>2 DEF AllCalm, ListenersFresh
  <2>. QED
    BY <1>3, <2>1 DEF ListenersFresh
<1>7. ServingIn(sockets'[Server], port) = {s}
  <2>1. ASSUME NEW j \in 1 .. Len(sockets[Server]), sockets'[Server][j].rport = port
        PROVE  j = i
    <3>1. OneSocketPerClient'
      BY DEF IInv
    <3>2. port # NoPort
      BY DEF ClientPorts, FirstFreePort, NoPort
    <3>3. Len(sockets[Server]) \in Nat
      BY <1>1, LenProperties
    <3>4. ~(j < i) /\ ~(i < j)
      BY <1>3, <2>1, <3>1, <3>2 DEF OneSocketPerClient
    <3>. QED
      BY <3>3, <3>4
  <2>2. ASSUME NEW x \in ServingIn(sockets'[Server], port) PROVE x = s
    <3>1. PICK j \in 1 .. Len(sockets[Server]) :
            x = sockets'[Server][j] /\ sockets'[Server][j].rport = port
      BY <1>3, <2>2 DEF ServingIn
    <3>. QED
      BY <1>3, <2>1, <3>1
  <2>3. s \in ServingIn(sockets'[Server], port)
    <3>1. i \in 1 .. Len(sockets'[Server]) /\ sockets'[Server][i].rport = port
      BY <1>3
    <3>. QED
      BY <1>3, <3>1 DEF ServingIn
  <2>. QED
    BY <2>2, <2>3
<1>8. ASSUME NEW o \in ClientPorts, o # port
      PROVE  ServingIn(sockets'[Server], o) = ServingIn(sockets[Server], o)
  <2>1. o # NoPort
    BY DEF ClientPorts, FirstFreePort, NoPort
  <2>2. \A k \in 1 .. Len(sockets[Server]) :
          /\ sockets'[Server][k].rport = o <=> sockets[Server][k].rport = o
          /\ sockets[Server][k].rport = o => sockets'[Server][k] = sockets[Server][k]
    BY <1>3, <1>8, <2>1
  <2>3. PICK t, u : t = sockets'[Server] /\ u = sockets[Server]
    OBVIOUS
  <2>4. Len(t) = Len(u)
    BY <1>3, <2>3
  <2>5. \A k \in 1 .. Len(u) : /\ t[k].rport = o <=> u[k].rport = o
                               /\ u[k].rport = o => t[k] = u[k]
    BY <2>2, <2>3
  <2>6. ServingIn(t, o) = ServingIn(u, o)
    BY ONLY <2>4, <2>5, ServingSame
  <2>. QED
    BY <2>3, <2>6
<1>9. ASSUME NEW o \in ClientPorts PROVE CalmOn(o)'
  <2>. DEFINE Q == Of(Server, net[Server], o)
              Q2 == Of(Server, net'[Server], o)
              R == Of(Client, net[Client], o)
              R2 == Of(Client, net'[Client], o)
  <2>1. ClientOf(o)' = ClientOf(o)
    BY <1>3 DEF ClientOf
  <2>2. Q2 \in SUBSET Q
    BY <1>4, OfSubset
  <2>3. R2 \subseteq R \cup Of(Client, out, o)
    BY <1>5, OfConcat
  <2>4. CASE o = port
    <3>1. Of(Client, out, port) \subseteq Elements(out)
      BY DEF Of
    <3>2. R2 \in SUBSET (Of(Client, net[Client], port) \cup Elements(out))
      BY <2>3, <2>4, <3>1
    <3>3. Q2 \in SUBSET Of(Server, Tail(net[Server]), port)
      BY <1>2, <2>4
    <3>4. Calm(ClientOf(port), {s}, Q2, R2)
      BY <3>2, <3>3, CalmSubset
    <3>. QED
      BY <1>7, <2>1, <2>4, <3>4 DEF CalmOn
  <2>5. CASE o # port
    <3>1. Of(Client, out, o) = {}
      BY <2>5 DEF Of, PortIn
    <3>2. R2 \in SUBSET R
      BY <2>3, <3>1
    <3>. DEFINE S == ServingIn(sockets[Server], o)
    <3>3. Calm(ClientOf(o), S, Q, R) /\ (Waits(ClientOf(o), S) => Acked(net[Server], o))
      BY DEF AllCalm, CalmOn
    <3>4. Calm(ClientOf(o), S, Q2, R2)
      BY <2>2, <3>2, <3>3, CalmSubset
    <3>5. Waits(ClientOf(o), S) => Acked(net'[Server], o)
      BY <1>1, <1>2, <2>5, <3>3, AckedTail
    <3>. QED
      BY <1>8, <2>1, <2>5, <3>4, <3>5 DEF CalmOn
  <2>. QED
    BY <2>4, <2>5
<1>10. ClientPorts' = ClientPorts
  BY DEF ClientPorts
<1>. QED
  BY <1>4, <1>5, <1>6, <1>9, <1>10 DEF AllCalm

\* One of the client's sockets moves, on its first segment or on the client's call.
LEMMA ClientTurns ==
    ASSUME IInv, AllCalm,
           NEW i \in 1 .. Len(sockets[Client]), NEW d \in Socket,
           NEW rest \in Seq(Segment), NEW out \in Seq(Segment),
           sockets' = [sockets EXCEPT ![Client][i] = d],
           net' = [net EXCEPT ![Client] = rest, ![Server] = @ \o out], UNCHANGED freePort,
           InLine(Client, rest), Elements(rest) \subseteq Elements(net[Client]),
           NEW port, port = FirstFreePort + i - 1,
           InLine(Server, out), \A y \in Elements(out) : y.sport = port,
           \A x \in Of(Server, net[Server], port), y \in Elements(out) : Follows(x, y),
           Calm(d, ServingIn(sockets[Server], port),
                Of(Server, net[Server], port) \cup Elements(out), Of(Client, rest, port)),
           Waits(d, ServingIn(sockets[Server], port)) => Acked(net[Server] \o out, port)
    PROVE  AllCalm'
<1>. USE ConstantTypes
<1>1. net \in [Hosts -> Seq(Segment)] /\ net[Server] \in Seq(Segment)
      /\ net[Client] \in Seq(Segment) /\ sockets \in [Hosts -> Seq(Socket)]
  BY DEF IInv, TypeOK
<1>2. net'[Client] = rest /\ net'[Server] = net[Server] \o out
  BY <1>1
<1>3. /\ sockets'[Server] = sockets[Server]
      /\ sockets'[Client][i] = d
      /\ \A j \in 1 .. Len(sockets[Client]) : j # i => sockets'[Client][j] = sockets[Client][j]
  BY <1>1, TableExcept
<1>4. /\ InLine(Server, net'[Server])
      /\ Elements(net'[Server]) \subseteq Elements(net[Server]) \cup Elements(out)
  <2>1. ASSUME NEW x \in Elements(net[Server]), NEW y \in Elements(out),
               PortIn(Server, x) = PortIn(Server, y)
        PROVE  Follows(x, y)
    BY <2>1 DEF PortIn, Of
  <2>2. InLine(Server, net[Server])
    BY DEF AllCalm
  <2>. QED
    BY <1>1, <1>2, <2>1, <2>2, ConcatInLine
<1>5. ListenersFresh'
  BY <1>3 DEF AllCalm, ListenersFresh
<1>6. ASSUME NEW o \in ClientPorts PROVE CalmOn(o)'
  <2>. DEFINE S == ServingIn(sockets[Server], o)
              Q == Of(Server, net[Server], o)
              Q2 == Of(Server, net'[Server], o)
              R == Of(Client, net[Client], o)
              R2 == Of(Client, net'[Client], o)
  <2>1. ServingIn(sockets'[Server], o) = S
    BY <1>3
  <2>2. Q2 \subseteq Q \cup Of(Server, out, o)
    BY <1>4, OfConcat
  <2>3. R2 \in SUBSET R
    BY <1>2, OfSubset
  <2>4. o \in Int /\ o - FirstFreePort + 1 \in 1 .. Len(sockets[Client])
    BY ClientPortFacts
  <2>5. Len(sockets[Client]) \in Nat
    BY ClientPortFacts
  <2>6. CASE o = port
    <3>1. o - FirstFreePort + 1 = i
      BY <2>5, <2>6 DEF FirstFreePort
    <3>2. ClientOf(o)' = d
      BY <1>3, <3>1 DEF ClientOf
    <3>3. Of(Server, out, port) \subseteq Elements(out)
      BY DEF Of
    <3>4. Q2 \in SUBSET (Of(Server, net[Server], port) \cup Elements(out))
      BY <2>2, <2>6, <3>3
    <3>5. R2 \in SUBSET Of(Client, rest, port)
      BY <1>2, <2>6
    <3>6. Calm(d, S, Q2, R2)
      <4>1. Calm(d, S, Of(Server, net[Server], port) \cup Elements(out),
                 Of(Client, rest, port))
        BY <2>6
      <4>. QED
        BY ZenonT(30), <3>4, <3>5, <4>1, CalmSubset
    <3>. QED
      BY <1>2, <2>1, <2>6, <3>2, <3>6 DEF CalmOn
  <2>7. CASE o # port
    <3>1. o - FirstFreePort + 1 # i
      BY <2>4, <2>5, <2>7 DEF FirstFreePort
    <3>2. ClientOf(o)' = ClientOf(o)
      BY <1>3, <2>4, <3>1 DEF ClientOf
    <3>3. Of(Server, out, o) = {}
      BY <2>7 DEF Of, PortIn
    <3>4. Q2 \in SUBSET Q
      BY <2>2, <3>3
    <3>5. Calm(ClientOf(o), S, Q, R) /\ (Waits(ClientOf(o), S) => Acked(net[Server], o))
      BY DEF AllCalm, CalmOn
    <3>6. Calm(ClientOf(o), S, Q2, R2)
      BY <2>3, <3>4, <3>5, CalmSubset
    <3>7. Waits(ClientOf(o), S) => Acked(net'[Server], o)
      BY <1>1, <1>2, <3>5, AckedConcat
    <3>. QED
      BY <2>1, <3>2, <3>6, <3>7 DEF CalmOn
  <2>. QED
    BY <2>6, <2>7
<1>7. ClientPorts' = ClientPorts
  BY DEF ClientPorts
<1>. QED
  BY <1>2, <1>4, <1>5, <1>6, <1>7 DEF AllCalm

\* What leaves a socket when it answers.
LEMMA OutIs ==
    ASSUME NEW t \in Socket, NEW data \in Payloads,
           NEW flags \in {{"SYN"}, {"SYN", "ACK"}, {"ACK"}, {"PSH", "ACK"}, {"FIN", "ACK"}}
    PROVE  /\ Out(t, flags, data) \in Segment
           /\ Out(t, flags, data).sport = t.lport /\ Out(t, flags, data).dport = t.rport
           /\ Out(t, flags, data).flags = flags /\ Out(t, flags, data).seq = t.seq
<1>1. flags \in SUBSET {"SYN", "ACK", "FIN", "RST", "PSH"}
  OBVIOUS
<1>. QED
  BY <1>1, OutType DEF Out

\* A segment for which no socket is found matches none.
LEMMA NoSocketFor ==
    ASSUME NEW h, NEW seg, NEW S, sockets[h] \in Seq(S), SocketFor(h, seg) = 0
    PROVE  \A j \in 1 .. Len(sockets[h]) : ~Matches(sockets[h][j], seg)
<1>. DEFINE I == {i \in 1 .. Len(sockets[h]) : Matches(sockets[h][i], seg)}
<1>1. SocketFor(h, seg) = IF I # {} THEN Min(I) ELSE 0
  BY DEF SocketFor, SelectInSeq
<1>2. Len(sockets[h]) \in Nat
  BY LenProperties
<1>3. I \subseteq Nat
  BY <1>2
<1>4. ASSUME I # {} PROVE FALSE
  <2>1. Min(I) = 0
    BY <1>1, <1>4
  <2>2. \E m \in I : \A j \in I : m <= j
    BY <1>3, <1>4, Smallest
  <2>3. Min(I) \in I
    BY <2>2 DEF Min
  <2>. QED
    BY <1>2, <2>1, <2>3
<1>. QED
  BY <1>4

\* What a host sends at once is in line.
LEMMA OutInLine ==
    ASSUME NEW h
    PROVE  /\ << >> \in Seq(Segment) /\ Elements(<< >>) = {} /\ InLine(h, << >>)
           /\ \A a \in Segment :
                <<a>> \in Seq(Segment) /\ Elements(<<a>>) = {a} /\ InLine(h, <<a>>)
           /\ \A a, b \in Segment :
                Follows(a, b) =>
                  <<a, b>> \in Seq(Segment) /\ Elements(<<a, b>>) = {a, b} /\ InLine(h, <<a, b>>)
           /\ \A a, b, c \in Segment :
                Follows(a, b) /\ Follows(a, c) /\ Follows(b, c) =>
                  /\ <<a, b, c>> \in Seq(Segment) /\ Elements(<<a, b, c>>) = {a, b, c}
                  /\ InLine(h, <<a, b, c>>)
<1>0. (\A k \in 1 .. 0 : FALSE) /\ (\A k \in 1 .. 1 : k = 1)
      /\ (\A k \in 1 .. 2 : k = 1 \/ k = 2) /\ (\A k \in 1 .. 3 : k = 1 \/ k = 2 \/ k = 3)
      /\ 1 \in 1 .. 1 /\ {1, 2} \subseteq 1 .. 2 /\ {1, 2, 3} \subseteq 1 .. 3
      /\ ~(1 < 1) /\ ~(2 < 1) /\ ~(2 < 2) /\ ~(3 < 1) /\ ~(3 < 2) /\ ~(3 < 3)
  OBVIOUS
<1>1. << >> \in Seq(Segment) /\ Elements(<< >>) = {} /\ InLine(h, << >>)
  <2>1. << >> \in Seq(Segment) /\ Len(<< >>) = 0
    OBVIOUS
  <2>. QED
    BY <1>0, <2>1 DEF Elements, InLine
<1>2. ASSUME NEW a \in Segment
      PROVE  <<a>> \in Seq(Segment) /\ Elements(<<a>>) = {a} /\ InLine(h, <<a>>)
  <2>1. <<a>> \in Seq(Segment) /\ Len(<<a>>) = 1 /\ <<a>>[1] = a
    OBVIOUS
  <2>. QED
    BY <1>0, <2>1 DEF Elements, InLine
<1>3. ASSUME NEW a \in Segment, NEW b \in Segment, Follows(a, b)
      PROVE  <<a, b>> \in Seq(Segment) /\ Elements(<<a, b>>) = {a, b} /\ InLine(h, <<a, b>>)
  <2>1. <<a, b>> \in Seq(Segment) /\ Len(<<a, b>>) = 2 /\ <<a, b>>[1] = a /\ <<a, b>>[2] = b
    OBVIOUS
  <2>. QED
    BY <1>0, <1>3, <2>1 DEF Elements, InLine
<1>4. ASSUME NEW a \in Segment, NEW b \in Segment, NEW c \in Segment,
             Follows(a, b), Follows(a, c), Follows(b, c)
      PROVE  /\ <<a, b, c>> \in Seq(Segment) /\ Elements(<<a, b, c>>) = {a, b, c}
             /\ InLine(h, <<a, b, c>>)
  <2>1. /\ <<a, b, c>> \in Seq(Segment) /\ Len(<<a, b, c>>) = 3
        /\ <<a, b, c>>[1] = a /\ <<a, b, c>>[2] = b /\ <<a, b, c>>[3] = c
    OBVIOUS
  <2>. QED
    BY <1>0, <1>4, <2>1 DEF Elements, InLine
<1>. QED
  BY <1>1, <1>2, <1>3, <1>4

\* The first segment of a queue and the conversation it is of.
LEMMA FirstOf ==
    ASSUME IInv, AllCalm, NEW h \in Hosts, net[h] # << >>,
           NEW g, g = Head(net[h]), NEW port, port = PortIn(h, g),
           NEW c, c = ClientOf(port), NEW S, S = ServingIn(sockets[Server], port),
           NEW Q, Q = Of(Server, net[Server], port), NEW R, R = Of(Client, net[Client], port)
    PROVE  /\ port \in ClientPorts /\ port # NoPort /\ g \in Segment
           /\ g \in Of(h, net[h], port)
           /\ h = Server => ToServerOK(g)
           /\ h = Client => ToClientOK(g)
           /\ Tail(net[h]) \in Seq(Segment)
           /\ InLine(h, Tail(net[h])) /\ Elements(Tail(net[h])) \subseteq Elements(net[h])
           /\ Of(h, Tail(net[h]), port) \in SUBSET Of(h, net[h], port)
           /\ \A x \in Of(h, Tail(net[h]), port) : Follows(g, x)
           /\ c \in Socket /\ \A s \in S : s \in Socket /\ s.rport = port /\ s.lport = ServerPort
           /\ Known(c, S, Q, R) /\ Calm(c, S, Q, R)
           /\ Waits(c, S) => Acked(net[Server], port)
<1>. USE ConstantTypes
<1>1. net[h] \in Seq(Segment)
  BY DEF IInv, TypeOK
<1>2. InLine(h, net[h])
  BY DEF AllCalm
<1>3. /\ InLine(h, Tail(net[h]))
      /\ g \in Elements(net[h]) /\ Elements(Tail(net[h])) \subseteq Elements(net[h])
      /\ \A x \in Elements(Tail(net[h])) : PortIn(h, x) = port => Follows(g, x)
  BY <1>1, <1>2, TailInLine
<1>4. g \in Segment
  BY <1>1, HeadTailProperties
<1>5. Tail(net[h]) \in Seq(Segment)
  BY <1>1, HeadTailProperties
<1>6. (h = Server => ToServerOK(g)) /\ (h = Client => ToClientOK(g))
  BY <1>3 DEF IInv, ToServer, ToClient, Carried
<1>7. port \in ClientPorts
  BY <1>6 DEF PortIn, ToServerOK, ToClientOK
<1>8. port # NoPort
  BY <1>7 DEF ClientPorts, FirstFreePort, NoPort
<1>9. g \in Of(h, net[h], port)
  BY <1>3 DEF Of
<1>10. Of(h, Tail(net[h]), port) \in SUBSET Of(h, net[h], port)
  BY <1>3, OfSubset
<1>11. \A x \in Of(h, Tail(net[h]), port) : Follows(g, x)
  BY <1>3 DEF Of
<1>12. Calm(c, S, Q, R) /\ (Waits(c, S) => Acked(net[Server], port))
  BY <1>7 DEF AllCalm, CalmOn
<1>13. c \in Socket /\ (\A s \in S : s \in Socket /\ s.rport = port /\ s.lport = ServerPort)
       /\ Known(c, S, Q, R)
  BY <1>7, Conversation
<1>. QED
  BY <1>3, <1>4, <1>5, <1>6, <1>7, <1>8, <1>9, <1>10, <1>11, <1>12, <1>13

\* The server's handler keeps the peace.
LEMMA ServerQuiet ==
    ASSUME IInv, IInv', AllCalm, net[Server] # << >>, UNCHANGED freePort,
           Handle(Server, Head(net[Server]), Tail(net[Server]))
    PROVE  AllCalm'
<1>0. PICK g, port, c, S, Q, R, rest, Q2 :
       /\ g = Head(net[Server]) /\ port = g.sport /\ rest = Tail(net[Server])
       /\ c = ClientOf(port) /\ S = ServingIn(sockets[Server], port)
       /\ Q = Of(Server, net[Server], port) /\ R = Of(Client, net[Client], port)
       /\ Q2 = Of(Server, rest, port)
  OBVIOUS
<1>1. /\ port \in ClientPorts /\ port # NoPort /\ g \in Segment /\ ToServerOK(g)
      /\ g \in Q /\ Takes(g, Q, Q2)
      /\ c \in Socket /\ \A s \in S : s \in Socket /\ s.rport = port /\ s.lport = ServerPort
      /\ Known(c, S, Q, R) /\ Calm(c, S, Q, R) /\ Talk(c, S, Q, R)
      /\ Waits(c, S) => Acked(net[Server], port)
  <2>1. port = PortIn(Server, g) /\ Server \in Hosts
    BY <1>0, ConstantTypes DEF PortIn
  <2>2. /\ port \in ClientPorts /\ port # NoPort /\ g \in Segment
        /\ g \in Of(Server, net[Server], port) /\ ToServerOK(g)
    BY <1>0, <2>1, FirstOf
  <2>3. /\ Of(Server, Tail(net[Server]), port) \in SUBSET Of(Server, net[Server], port)
        /\ \A x \in Of(Server, Tail(net[Server]), port) : Follows(g, x)
    <3>1. net[Server] \in Seq(Segment) /\ InLine(Server, net[Server])
      BY ConstantTypes DEF IInv, TypeOK, AllCalm
    <3>2. /\ Elements(Tail(net[Server])) \subseteq Elements(net[Server])
          /\ \A x \in Elements(Tail(net[Server])) :
               PortIn(Server, x) = port => Follows(g, x)
      BY <1>0, <2>1, <3>1, TailInLine
    <3>. QED
      BY <3>2 DEF Of
  <2>4. c \in Socket /\ \A s \in S : s \in Socket /\ s.rport = port /\ s.lport = ServerPort
    BY <1>0, <2>2, Conversation
  <2>5. /\ Known(c, S, Q, R) /\ Calm(c, S, Q, R)
        /\ Waits(c, S) => Acked(net[Server], port)
    BY <1>0, <2>1, FirstOf
  <2>. QED
    BY <1>0, <2>2, <2>3, <2>4, <2>5 DEF Takes, Talk
<1>2. sockets[Server] \in Seq(Socket)
  BY ConstantTypes DEF IInv, TypeOK
<1>3. PICK i : i = SocketFor(Server, g)
  OBVIOUS
<1>4. PICK old : old = sockets[Server][i]
  OBVIOUS
<1>5. ToServerCalm(g, c, S)
  BY <1>1 DEF Calm
<1>6. g.flags \in {{"SYN"}} \cup OpenFlags
  BY <1>1, <1>5 DEF Known, ToServerCalm
<1>7. ASSUME Ignores(Server, rest), g.flags = {"ACK"} => ~Waits(c, S)
      PROVE  AllCalm'
  <2>1. net' = [net EXCEPT ![Server] = Tail(net[Server])] /\ UNCHANGED <<sockets, freePort>>
    BY <1>0, <1>7 DEF Ignores
  <2>. QED
    BY <1>0, <1>7, <2>1, DropsCalm, ConstantTypes
<1>8. CASE i = 0
  <2>1. ASSUME NEW s \in S PROVE FALSE
    <3>1. PICK j \in 1 .. Len(sockets[Server]) : s = sockets[Server][j]
      BY <1>0, <2>1 DEF ServingIn
    <3>2. ~Matches(s, g)
      BY <1>2, <1>3, <1>8, <3>1, NoSocketFor
    <3>. QED
      BY <1>0, <1>1, <3>2 DEF Matches, ToServerOK
  <2>2. ~Waits(c, S)
    BY <2>1 DEF Waits
  <2>3. Ignores(Server, rest)
    BY <1>0, <1>3, <1>8 DEF Handle
  <2>. QED
    BY <1>7, <2>2, <2>3
<1>9. CASE i # 0
  <2>1. i \in 1 .. Len(sockets[Server]) /\ Matches(old, g)
    BY <1>2, <1>3, <1>4, <1>9, SocketForIsFirst
  <2>2. old \in Socket /\ ServerSocketOK(old)
    BY <1>2, <1>4, <2>1, ElementOfSeq DEF IInv, ServerTable
  <2>3. ASSUME old.state # "LISTEN" PROVE old.rport = port /\ S = {old}
    <3>1. old.rport = port
      BY <1>0, <2>1, <2>3 DEF Matches
    <3>2. ASSUME NEW s \in S PROVE s = old
      <4>1. PICK j \in 1 .. Len(sockets[Server]) : s = sockets[Server][j] /\ s.rport = port
        BY <1>0, <3>2 DEF ServingIn
      <4>2. Len(sockets[Server]) \in Nat
        BY <1>2, LenProperties
      <4>3. ~(j < i) /\ ~(i < j)
        BY <1>1, <1>4, <2>1, <3>1, <4>1 DEF IInv, OneSocketPerClient
      <4>. QED
        BY <1>4, <2>1, <4>1, <4>2, <4>3
    <3>3. old \in S
      BY <1>0, <1>4, <2>1, <3>1 DEF ServingIn
    <3>. QED
      BY <3>1, <3>2, <3>3
  <2>4. CASE old.state = "CLOSED"
    <3>1. S = {old}
      BY <2>3, <2>4
    <3>2. ~Waits(c, S)
      BY <2>4, <3>1 DEF Waits
    <3>3. Ignores(Server, rest)
      BY <1>0, <1>3, <1>4, <1>9, <2>4 DEF Handle
    <3>. QED
      BY <1>7, <3>2, <3>3
  <2>5. CASE old.state # "CLOSED"
    <3>1. \/ SynArrives(Server, g, rest, i) \/ SynAckArrives(Server, g, rest, i)
          \/ FinArrives(Server, g, rest, i) \/ AckArrives(Server, g, rest, i)
          \/ PlainAckArrives(Server, g, rest, i) \/ TextArrives(Server, g, rest, i)
          \/ RequestArrives(Server, g, rest, i) \/ RequestSpins(Server, g, rest, i)
          \/ IsRefused(Server, g, rest, i)
      <4>1. "RST" \notin g.flags
        BY <1>5 DEF ToServerCalm
      <4>. QED
        BY <1>0, <1>3, <1>4, <1>9, <2>5, <4>1 DEF Handle, RstArrives
    \* What suffices of the new socket and of what it sends.
    <3>2. ASSUME old.rport \in {NoPort, port},
                 NEW s \in Socket, s.rport = port, s.state # "LISTEN", NEW out \in Seq(Segment),
                 Becomes(Server, rest, i, s, out), InLine(Client, out),
                 NEW O, O = Elements(out), \A y \in O : y.dport = port,
                 \A x \in R, y \in O : Follows(x, y),
                 Calm(c, {s}, Q2, R \cup O), ~Waits(c, {s})
          PROVE  AllCalm'
      BY <1>0, <1>1, <1>4, <2>1, <3>2, ServerTurns
    <3>3. old.seq \in Int /\ old.ack \in Int /\ g.seq \in Int /\ Iss \in Int /\ 1 \in Int
      BY <1>1, <2>2, ConstantTypes, SocketFields DEF Segment
    <3>4. Plus(old.ack, 1) \in 0 .. SeqSpace - 1 /\ Plus(g.seq, 1) \in 0 .. SeqSpace - 1
          /\ Plus(Iss, 1) \in 0 .. SeqSpace - 1
      BY <3>3, PlusType
    <3>5. CASE old.state = "LISTEN"
      <4>1. g.flags = {"SYN"}
        <5>1. old.rport = NoPort
          BY <2>2, <3>5 DEF ServerSocketOK
        <5>2. g.flags \cap {"SYN", "ACK"} = {"SYN"}
          BY <1>0, <1>1, <2>1, <5>1 DEF Matches
        <5>. QED
          BY <1>6, <5>2 DEF OpenFlags
      <4>2. SynArrives(Server, g, rest, i)
        <5>1. Switched(g) = {"SYN"} /\ g.flags # {"ACK"} /\ ~({"SYN", "FIN"} \subseteq g.flags)
          BY <4>1 DEF Switched
        <5>2. {"SYN"} \notin {{}, {"ACK"}, {"SYN", "ACK"}, {"FIN"}, {"FIN", "ACK"}}
          <6>1. "SYN" \in {"SYN"} /\ "ACK" \notin {"SYN"}
            OBVIOUS
          <6>2. "SYN" \notin {} /\ "ACK" \in {"SYN", "ACK"} /\ "SYN" \notin {"ACK"}
                /\ "SYN" \notin {"FIN"} /\ "SYN" \notin {"FIN", "ACK"}
            OBVIOUS
          <6>. QED
            BY <6>1, <6>2
        <5>3. ~IsData(g, old)
          BY <5>1, <5>2 DEF IsData
        <5>4. ~Refused(g, old)
          BY <3>5, <5>1, <5>2, <5>3 DEF Refused, WrongOrder
        <5>5. ~SynAckArrives(Server, g, rest, i) /\ ~FinArrives(Server, g, rest, i)
              /\ ~AckArrives(Server, g, rest, i) /\ ~PlainAckArrives(Server, g, rest, i)
          BY <5>1, <5>2 DEF SynAckArrives, FinArrives, AckArrives, PlainAckArrives
        <5>6. ~TextArrives(Server, g, rest, i) /\ ~RequestArrives(Server, g, rest, i)
              /\ ~RequestSpins(Server, g, rest, i) /\ ~IsRefused(Server, g, rest, i)
          BY <1>4, <5>3, <5>4 DEF TextArrives, RequestArrives, RequestSpins, IsRefused
        <5>. QED
          BY <3>1, <5>5, <5>6
      <4>. DEFINE t == [old EXCEPT !.state = "SYN_RECEIVED", !.rport = g.sport,
                                   !.ack = Plus(g.seq, 1), !.seq = Iss]
                  s == [t EXCEPT !.seq = Plus(@, 1)]
                  a == Out(t, {"SYN", "ACK"}, NoData)
      <4>3. t \in Socket /\ t.rport = port /\ t.seq = Iss /\ t.state = "SYN_RECEIVED"
            /\ t.ack = Plus(g.seq, 1) /\ t.got = old.got
        <5>1. g.sport = port /\ port \in Ports /\ Iss \in 0 .. SeqSpace - 1
          BY <1>0, <1>1, ConstantTypes DEF Segment
        <5>2. "SYN_RECEIVED" \in States /\ old \in Socket
          BY <2>2 DEF States
        <5>. QED
          BY <3>4, <5>1, <5>2 DEF Socket
      <4>4. s \in Socket /\ s.rport = port /\ s.seq = One /\ s.state = "SYN_RECEIVED"
            /\ s.ack = Plus(g.seq, 1) /\ s.got = old.got
        BY <3>4, <4>3 DEF Socket, One
      <4>5. Becomes(Server, rest, i, s, <<a>>)
        BY <1>4, <4>2 DEF SynArrives
      <4>. HIDE DEF t, s
      <4>6. a \in Segment /\ a.dport = port /\ a.flags = {"SYN", "ACK"} /\ a.seq = Iss
        BY <4>3, OutIs, ConstantTypes
      <4>. HIDE DEF a
      <4>7. s.ack = One /\ s.got = << >>
        <5>1. g.seq = Iss
          BY <1>5, <4>1 DEF ToServerCalm
        <5>2. old.got = << >>
          BY <1>4, <2>1, <3>5 DEF AllCalm, ListenersFresh
        <5>. QED
          BY <4>4, <5>1, <5>2 DEF One
      <4>8. Calm(c, {s}, Q2, R \cup {a}) /\ ~Waits(c, {s}) /\ \A x \in R : Follows(x, a)
        BY <1>1, <4>1, <4>4, <4>6, <4>7, SynTaken
      <4>9. <<a>> \in Seq(Segment) /\ Elements(<<a>>) = {a} /\ InLine(Client, <<a>>)
        BY <4>6, OutInLine
      <4>10. old.rport = NoPort
        BY <2>2, <3>5 DEF ServerSocketOK
      <4>11. PICK out, O : out = <<a>> /\ O = {a}
        OBVIOUS
      <4>12. /\ old.rport \in {NoPort, port} /\ s.state # "LISTEN"
             /\ out \in Seq(Segment) /\ O = Elements(out) /\ InLine(Client, out)
             /\ Becomes(Server, rest, i, s, out)
             /\ \A y \in O : y.dport = port
             /\ \A x \in R, y \in O : Follows(x, y)
             /\ Calm(c, {s}, Q2, R \cup O) /\ ~Waits(c, {s})
        BY <4>4, <4>5, <4>6, <4>8, <4>9, <4>10, <4>11
      <4>. QED
        BY <3>2, <4>4, <4>12
    <3>6. CASE old.state # "LISTEN"
      <4>1. old.rport = port /\ S = {old} /\ old.rport \in {NoPort, port}
        BY <2>3, <3>6
      <4>2. g.flags \in OpenFlags /\ c.state # "SYN_SENT"
        <5>1. S # {}
          BY <4>1
        <5>2. "SYN" \notin g.flags
          BY <1>5, <5>1 DEF ToServerCalm
        <5>. QED
          BY <1>1, <1>6, <5>2 DEF Known
      <4>3. S = {old} /\ Talk(c, S, Q, R) /\ Takes(g, Q, Q2)
        BY <1>1, <4>1
      <4>4. g.flags = {"PSH", "ACK"} => /\ g.seq = One /\ old.got = << >> /\ old.state \in Early
                                        /\ old.seq = One /\ old.ack = One
        <5>1. ASSUME g.flags = {"PSH", "ACK"}
              PROVE  g.seq = One /\ old.got = << >> /\ old.state \in Early
          BY <1>5, <4>1, <5>1 DEF ToServerCalm
        <5>2. ServerCalm(old, c)
          BY <4>3 DEF Talk, Calm
        <5>. QED
          BY <5>1, <5>2 DEF ServerCalm
      <4>5. CASE SynArrives(Server, g, rest, i) \/ SynAckArrives(Server, g, rest, i)
        <5>1. "SYN" \notin g.flags
          BY <4>2 DEF OpenFlags
        <5>2. "SYN" \in Switched(g)
          BY <4>5 DEF SynArrives, SynAckArrives
        <5>. QED
          BY <5>1, <5>2 DEF Switched
      <4>6. CASE FinArrives(Server, g, rest, i)
        <5>1. g.flags = {"FIN", "ACK"}
          <6>1. Switched(g) \in {{"FIN"}, {"FIN", "ACK"}}
            BY <4>6 DEF FinArrives
          <6>2. "FIN" \in g.flags
            BY <6>1 DEF Switched
          <6>. QED
            BY <4>2, <6>2 DEF OpenFlags
        <5>. DEFINE counted == [old EXCEPT !.ack = Plus(@, 1)]
                    a == Out(counted, {"ACK"}, NoData)
                    f == Out(counted, {"FIN", "ACK"}, NoData)
        <5>2. counted \in Socket /\ counted.rport = old.rport /\ counted.got = old.got
          BY <2>2, <3>4 DEF Socket
        <5>3. /\ a \in Segment /\ a.dport = port /\ a.flags = {"ACK"}
              /\ f \in Segment /\ f.dport = port /\ f.flags = {"FIN", "ACK"}
          BY <4>1, <5>2, OutIs, ConstantTypes
        <5>4. ASSUME NEW s \in Socket, s.rport = port, s.got = old.got,
                     s.state \in {"CLOSE_WAIT", "CLOSED"}, NEW out \in Seq(Segment),
                     Becomes(Server, rest, i, s, out), InLine(Client, out),
                     NEW O, O = Elements(out),
                     \A y \in O : y = a \/ (y = f /\ old.state = "ESTABLISHED")
              PROVE  AllCalm'
          <6>1. \A y \in O : \/ y.flags = {"ACK"}
                             \/ y.flags = {"FIN", "ACK"} /\ old.state = "ESTABLISHED"
            BY <5>3, <5>4
          <6>2. /\ Calm(c, {s}, Q2, R \cup O) /\ ~Waits(c, {s})
                /\ \A x \in R, y \in O : Follows(x, y)
            BY ZenonT(30), <4>3, <5>1, <5>4, <6>1, ServerEnds
          <6>3. (\A y \in O : y.dport = port) /\ s.state # "LISTEN"
            BY <5>3, <5>4
          <6>. QED
            BY <3>2, <4>1, <5>4, <6>2, <6>3
        <5>5. CASE old.state = "ESTABLISHED"
          <6>. DEFINE s == [counted EXCEPT !.state = "CLOSE_WAIT"]
          <6>1. s \in Socket /\ s.rport = port /\ s.got = old.got /\ s.state = "CLOSE_WAIT"
            BY <4>1, <5>2 DEF Socket, States
          <6>2. Becomes(Server, rest, i, s, <<a, f>>)
            BY <1>4, <4>6, <5>5 DEF FinArrives
          <6>. HIDE DEF s, counted, a, f
          <6>3. Follows(a, f)
            BY <5>3 DEF Follows
          <6>4. /\ <<a, f>> \in Seq(Segment) /\ Elements(<<a, f>>) = {a, f}
                /\ InLine(Client, <<a, f>>)
            BY <5>3, <6>3, OutInLine
          <6>5. \A y \in {a, f} : y = a \/ (y = f /\ old.state = "ESTABLISHED")
            BY <5>5
          <6>. QED
            BY <5>4, <6>1, <6>2, <6>4, <6>5
        <5>6. CASE old.state = "CLOSE_WAIT"
          <6>. DEFINE s == [old EXCEPT !.state = "CLOSED"]
          <6>1. s \in Socket /\ s.rport = port /\ s.got = old.got /\ s.state = "CLOSED"
            BY <2>2, <4>1 DEF Socket, States
          <6>2. Becomes(Server, rest, i, s, << >>)
            BY <1>4, <4>6, <5>6 DEF FinArrives
          <6>. HIDE DEF s, counted, a, f
          <6>3. << >> \in Seq(Segment) /\ Elements(<< >>) = {} /\ InLine(Client, << >>)
            BY OutInLine
          <6>. QED
            BY <5>4, <6>1, <6>2, <6>3
        <5>7. CASE old.state \in {"FIN_WAIT1", "FIN_WAIT2"}
          <6>. DEFINE s == [counted EXCEPT !.state = "CLOSED"]
          <6>1. s \in Socket /\ s.rport = port /\ s.got = old.got /\ s.state = "CLOSED"
            BY <4>1, <5>2 DEF Socket, States
          <6>2. Becomes(Server, rest, i, s, <<a>>)
            BY <1>4, <4>6, <5>7 DEF FinArrives
          <6>. HIDE DEF s, counted, a, f
          <6>3. <<a>> \in Seq(Segment) /\ Elements(<<a>>) = {a} /\ InLine(Client, <<a>>)
            BY <5>3, OutInLine
          <6>. QED
            BY <5>4, <6>1, <6>2, <6>3
        <5>. QED
          BY <1>4, <4>6, <5>5, <5>6, <5>7 DEF FinArrives
      <4>7. CASE AckArrives(Server, g, rest, i)
        <5>. DEFINE s == [old EXCEPT !.state = AckMoves[old.state]]
        <5>1. g.flags \in {{"ACK"}, {"PSH", "ACK"}}
          BY <4>2, <4>7 DEF AckArrives, Switched, OpenFlags
        <5>2. \/ old.state = "SYN_RECEIVED" /\ AckMoves[old.state] = "ESTABLISHED"
              \/ old.state = "FIN_WAIT1" /\ AckMoves[old.state] = "FIN_WAIT2"
              \/ old.state = "CLOSE_WAIT" /\ AckMoves[old.state] = "CLOSED"
          BY <1>4, <4>7, AckMovesFacts DEF AckArrives
        <5>3. AckMoves[old.state] \in States \ {"LISTEN"}
          BY <5>2 DEF States
        <5>4. s \in Socket /\ s.rport = port /\ s.state = AckMoves[old.state]
              /\ s.seq = old.seq /\ s.ack = old.ack /\ s.got = old.got
          BY <2>2, <4>1, <5>3 DEF Socket
        <5>5. Becomes(Server, rest, i, s, << >>)
          BY <1>4, <4>7 DEF AckArrives
        <5>. HIDE DEF s
        <5>6. Calm(c, {s}, Q2, R) /\ ~Waits(c, {s})
          BY <4>3, <5>1, <5>2, <5>4, ServerAcked
        <5>7. Elements(<< >>) = {} /\ << >> \in Seq(Segment) /\ InLine(Client, << >>)
          BY OutInLine
        <5>8. Calm(c, {s}, Q2, R \cup {})
          BY <5>6
        <5>. QED
          BY <3>2, <4>1, <5>3, <5>4, <5>5, <5>6, <5>7, <5>8
      <4>8. CASE PlainAckArrives(Server, g, rest, i)
        <5>1. Ignores(Server, rest) /\ old.state # "SYN_RECEIVED"
          BY <1>4, <4>8, AckMovesFacts DEF PlainAckArrives
        <5>2. ~Waits(c, S)
          BY <4>1, <5>1 DEF Waits
        <5>. QED
          BY <1>7, <5>1, <5>2
      <4>9. ASSUME IsData(g, old)
            PROVE  g.flags = {"PSH", "ACK"} /\ old.state = "ESTABLISHED" /\ InOrder(g, old)
        <5>1. g.flags = {"PSH", "ACK"} /\ old.state \notin DOMAIN AckMoves
          BY <4>2, <4>9 DEF IsData, Switched, OpenFlags
        <5>. QED
          BY <4>4, <5>1, AckMovesFacts DEF Early, InOrder
      <4>10. PICK item : item = [seq |-> g.seq, data |-> g.data]
        OBVIOUS
      <4>11. ASSUME NEW t \in Socket PROVE Append(t.got, item) # << >>
        <5>1. t.got \in Seq([seq : 0 .. SeqSpace - 1, data : Payloads])
              /\ item \in [seq : 0 .. SeqSpace - 1, data : Payloads]
          BY <1>1, <4>10, SocketFields DEF Segment
        <5>. QED
          BY <5>1, AppendProperties
      <4>12. CASE TextArrives(Server, g, rest, i)
        <5>. DEFINE s == Counted(old, g)
                    a == Out(s, {"ACK"}, NoData)
        <5>1. g.flags = {"PSH", "ACK"} /\ old.state = "ESTABLISHED"
          BY <1>4, <4>9, <4>12 DEF TextArrives
        <5>2. s \in Socket /\ s.rport = port /\ s.state = old.state /\ s.seq = old.seq
              /\ s.got = Append(old.got, item)
          BY <1>1, <2>2, <4>1, <4>10, CountedType DEF Counted, Socket
        <5>3. Becomes(Server, rest, i, s, <<a>>)
          BY <1>4, <4>12 DEF TextArrives
        <5>4. a \in Segment /\ a.dport = port /\ a.flags = {"ACK"}
          BY <5>2, OutIs, ConstantTypes
        <5>. HIDE DEF s, a
        <5>5. s.got # << >> /\ s.state # "LISTEN"
          BY <2>2, <3>6, <4>11, <5>2
        <5>6. Calm(c, {s}, Q2, R \cup {a}) /\ ~Waits(c, {s}) /\ \A x \in R : Follows(x, a)
          <6>1. s.state = old.state /\ s.seq = old.seq /\ s.got # << >> /\ a.flags = {"ACK"}
            BY <5>2, <5>4, <5>5
          <6>. QED
            BY ONLY ZenonT(30), <4>3, <5>1, <6>1, ServerTold
        <5>7. <<a>> \in Seq(Segment) /\ Elements(<<a>>) = {a} /\ InLine(Client, <<a>>)
          BY <5>4, OutInLine
        <5>8. PICK out, O : out = <<a>> /\ O = {a}
          OBVIOUS
        <5>9. /\ out \in Seq(Segment) /\ O = Elements(out) /\ InLine(Client, out)
              /\ Becomes(Server, rest, i, s, out)
              /\ \A y \in O : y.dport = port
              /\ \A x \in R, y \in O : Follows(x, y)
              /\ Calm(c, {s}, Q2, R \cup O) /\ ~Waits(c, {s})
          BY <5>3, <5>4, <5>6, <5>7, <5>8
        <5>. QED
          BY <3>2, <4>1, <5>2, <5>5, <5>9
      <4>13. CASE RequestArrives(Server, g, rest, i)
        <5>. DEFINE sent == AfterSend(old, Response)
                    fin == Disconnected(sent)
                    s == Counted(fin, g)
                    a == Out(old, {"PSH", "ACK"}, Response)
                    f == Out(sent, {"FIN", "ACK"}, NoData)
                    b == Out(s, {"ACK"}, NoData)
        <5>1. g.flags = {"PSH", "ACK"} /\ old.state = "ESTABLISHED"
          BY <1>4, <4>9, <4>13 DEF RequestArrives
        <5>2. sent \in Socket /\ sent.rport = port
          BY <2>2, <4>1, AfterSendType, ConstantTypes DEF AfterSend, Socket
        <5>3. fin \in Socket /\ fin.rport = port /\ fin.state = "FIN_WAIT1"
          BY <5>2, DisconnectedType DEF Disconnected, Socket
        <5>4. s \in Socket /\ s.rport = port /\ s.state = "FIN_WAIT1"
              /\ s.got = Append(fin.got, item)
          BY <1>1, <4>10, <5>3, CountedType DEF Counted, Socket
        <5>5. Becomes(Server, rest, i, s, <<a, f, b>>)
          BY <1>4, <4>13 DEF RequestArrives
        <5>6. /\ a \in Segment /\ a.dport = port /\ a.flags = {"PSH", "ACK"}
              /\ f \in Segment /\ f.dport = port /\ f.flags = {"FIN", "ACK"}
              /\ b \in Segment /\ b.dport = port /\ b.flags = {"ACK"}
          BY <2>2, <4>1, <5>2, <5>4, OutIs, ConstantTypes
        <5>7. a.seq = old.seq
          BY <2>2, OutIs, ConstantTypes
        <5>. HIDE DEF sent, fin, s, a, f, b
        <5>8. s.got # << >> /\ s.state # "LISTEN"
          BY <4>11, <5>3, <5>4
        <5>9. Follows(a, f) /\ Follows(a, b) /\ Follows(f, b)
          BY <5>6 DEF Follows
        <5>10. PICK out, O : out = <<a, f, b>> /\ O = {a, f, b}
          OBVIOUS
        <5>11. /\ out \in Seq(Segment) /\ O = Elements(out) /\ InLine(Client, out)
               /\ Becomes(Server, rest, i, s, out)
          BY <5>5, <5>6, <5>9, <5>10, OutInLine
        <5>12. \A y \in O : /\ y.dport = port
                            /\ \/ y.flags = {"PSH", "ACK"} /\ y.seq = old.seq
                               \/ y.flags \in {{"FIN", "ACK"}, {"ACK"}}
          BY <5>6, <5>7, <5>10
        <5>13. /\ Calm(c, {s}, Q2, R \cup O) /\ ~Waits(c, {s})
               /\ \A x \in R, y \in O : Follows(x, y)
          <6>1. Answers(old, O)
            BY <5>12 DEF Answers
          <6>2. s.state = "FIN_WAIT1" /\ s.got # << >>
            BY <5>4, <5>8
          <6>. QED
            BY ONLY <4>3, <5>1, <6>1, <6>2, ServerAsked
        <5>. QED
          BY <3>2, <4>1, <5>4, <5>8, <5>11, <5>12, <5>13
      <4>14. CASE RequestSpins(Server, g, rest, i)
        BY <1>4, <4>9, <4>14 DEF RequestSpins
      <4>15. CASE IsRefused(Server, g, rest, i)
        <5>1. Refused(g, old)
          BY <1>4, <4>15 DEF IsRefused
        <5>2. ~WrongOrder(g, old)
          BY <4>9 DEF WrongOrder
        <5>3. g.flags = {"FIN", "ACK"} /\ old.state \in {"LISTEN", "SYN_SENT", "SYN_RECEIVED"}
          <6>1. "SYN" \notin g.flags
            BY <4>2 DEF OpenFlags
          <6>2. Switched(g) \in {{"FIN"}, {"FIN", "ACK"}}
                /\ old.state \in {"LISTEN", "SYN_SENT", "SYN_RECEIVED"}
            BY <5>1, <5>2, <6>1 DEF Refused, Switched
          <6>3. "FIN" \in Switched(g)
            BY <6>2
          <6>4. "FIN" \in g.flags
            BY <6>3 DEF Switched
          <6>. QED
            BY <4>2, <6>2, <6>4 DEF OpenFlags
        <5>4. old.state = "SYN_RECEIVED"
          BY <2>2, <3>6, <5>3 DEF ServerSocketOK
        <5>5. Waits(c, S)
          BY <4>1, <4>2, <5>4 DEF Waits
        <5>6. PICK k \in 1 .. Len(net[Server]) :
                \A j \in 1 .. k : net[Server][j].sport = port => "FIN" \notin net[Server][j].flags
          BY <1>1, <5>5 DEF Acked
        <5>7. net[Server] \in Seq(Segment)
          BY ConstantTypes DEF IInv, TypeOK
        <5>8. 1 \in 1 .. k /\ net[Server][1] = g
          BY <1>0, <5>7, LenProperties, EmptySeq
        <5>9. "FIN" \notin g.flags
          BY <1>0, <5>6, <5>8
        <5>10. "FIN" \in g.flags
          BY <5>3
        <5>. QED
          BY <5>9, <5>10
      <4>. QED
        BY <3>1, <4>5, <4>6, <4>7, <4>8, <4>12, <4>13, <4>14, <4>15
    <3>. QED
      BY <3>5, <3>6
  <2>. QED
    BY <2>4, <2>5
<1>. QED
  BY <1>8, <1>9

\* The ACK that is all a host sends.
LEMMA AckedAlone ==
    ASSUME NEW a, a.flags = {"ACK"}, NEW port, a.sport = port
    PROVE  Acked(<<a>>, port)
<1>1. Len(<<a>>) = 1 /\ <<a>>[1] = a
  OBVIOUS
<1>2. \A k \in 1 .. 1 : k = 1
  OBVIOUS
<1>3. 1 \in 1 .. 1 /\ "FIN" \notin {"ACK"}
  OBVIOUS
<1>. QED
  BY <1>1, <1>2, <1>3 DEF Acked

\* So does the client's.
LEMMA ClientQuiet ==
    ASSUME IInv, AllCalm, net[Client] # << >>, UNCHANGED freePort,
           Handle(Client, Head(net[Client]), Tail(net[Client]))
    PROVE  AllCalm'
<1>0. PICK g, port, c, S, Q, R, rest, R2 :
       /\ g = Head(net[Client]) /\ port = g.dport /\ rest = Tail(net[Client])
       /\ c = ClientOf(port) /\ S = ServingIn(sockets[Server], port)
       /\ Q = Of(Server, net[Server], port) /\ R = Of(Client, net[Client], port)
       /\ R2 = Of(Client, rest, port)
  OBVIOUS
<1>1. /\ port \in ClientPorts /\ g \in Segment /\ ToClientOK(g)
      /\ Takes(g, R, R2)
      /\ c \in Socket /\ Known(c, S, Q, R) /\ Calm(c, S, Q, R) /\ Talk(c, S, Q, R)
      /\ Waits(c, S) => Acked(net[Server], port)
  <2>1. port = PortIn(Client, g) /\ Client \in Hosts
    BY <1>0, ConstantTypes DEF PortIn
  <2>2. /\ port \in ClientPorts /\ g \in Segment
        /\ g \in Of(Client, net[Client], port) /\ ToClientOK(g)
    BY <1>0, <2>1, FirstOf
  <2>3. /\ Of(Client, Tail(net[Client]), port) \in SUBSET Of(Client, net[Client], port)
        /\ \A x \in Of(Client, Tail(net[Client]), port) : Follows(g, x)
    <3>1. net[Client] \in Seq(Segment) /\ InLine(Client, net[Client])
      BY ConstantTypes DEF IInv, TypeOK, AllCalm
    <3>2. /\ Elements(Tail(net[Client])) \subseteq Elements(net[Client])
          /\ \A x \in Elements(Tail(net[Client])) :
               PortIn(Client, x) = port => Follows(g, x)
      BY <1>0, <2>1, <3>1, TailInLine
    <3>. QED
      BY <3>2 DEF Of
  <2>4. c \in Socket
    BY <1>0, <2>2, Conversation
  <2>5. /\ Known(c, S, Q, R) /\ Calm(c, S, Q, R)
        /\ Waits(c, S) => Acked(net[Server], port)
    BY <1>0, <2>1, FirstOf
  <2>. QED
    BY <1>0, <2>2, <2>3, <2>4, <2>5 DEF Takes, Talk
<1>2. /\ rest \in Seq(Segment) /\ InLine(Client, rest)
      /\ Elements(rest) \subseteq Elements(net[Client])
  <2>1. net[Client] \in Seq(Segment) /\ InLine(Client, net[Client])
    BY ConstantTypes DEF IInv, TypeOK, AllCalm
  <2>2. Tail(net[Client]) \in Seq(Segment)
    BY <2>1, HeadTailProperties
  <2>. QED
    BY <1>0, <2>1, <2>2, TailInLine
<1>3. PICK i : i = SocketFor(Client, g)
  OBVIOUS
<1>4. ToClientCalm(g, c, S)
  BY <1>1 DEF Calm, Takes
<1>5. g.flags \in {{"SYN", "ACK"}} \cup OpenFlags
  BY <1>1, <1>4 DEF Known, ToClientCalm, Takes
<1>6. ASSUME Ignores(Client, rest) PROVE AllCalm'
  <2>1. net' = [net EXCEPT ![Client] = Tail(net[Client])] /\ UNCHANGED <<sockets, freePort>>
    BY <1>0, <1>6 DEF Ignores
  <2>. QED
    BY <2>1, DropsCalm, ConstantTypes
<1>7. CASE i = 0
  BY <1>0, <1>3, <1>6, <1>7 DEF Handle
<1>8. CASE i # 0 /\ sockets[Client][i].state = "CLOSED"
  BY <1>0, <1>3, <1>6, <1>8 DEF Handle
<1>9. CASE i # 0 /\ sockets[Client][i].state # "CLOSED"
  <2>1. i \in 1 .. Len(sockets[Client]) /\ Matches(sockets[Client][i], g)
    BY <1>3, <1>9, SocketForIsFirst, ClientPortFacts
  <2>2. port = FirstFreePort + i - 1 /\ sockets[Client][i] = c
    <3>1. ClientSocketOK(i, sockets[Client][i])
      BY <2>1 DEF IInv, ClientTable
    <3>2. port = FirstFreePort + i - 1
      BY <1>0, <2>1, <3>1 DEF ClientSocketOK, Matches
    <3>3. port - FirstFreePort + 1 = i
      BY <2>1, <3>2, ClientPortFacts DEF FirstFreePort
    <3>. QED
      BY <1>0, <3>2, <3>3 DEF ClientOf
  <2>3. c.lport = port /\ c.rport = ServerPort /\ c.state \notin {"LISTEN", "SYN_RECEIVED"}
    BY <2>1, <2>2 DEF IInv, ClientTable, ClientSocketOK
  <2>4. \/ SynArrives(Client, g, rest, i) \/ SynAckArrives(Client, g, rest, i)
        \/ FinArrives(Client, g, rest, i) \/ AckArrives(Client, g, rest, i)
        \/ PlainAckArrives(Client, g, rest, i) \/ TextArrives(Client, g, rest, i)
        \/ RequestArrives(Client, g, rest, i) \/ RequestSpins(Client, g, rest, i)
        \/ IsRefused(Client, g, rest, i)
    <3>1. "RST" \notin g.flags
      BY <1>4 DEF ToClientCalm
    <3>. QED
      BY <1>0, <1>3, <1>9, <3>1 DEF Handle, RstArrives
  \* What suffices of the socket's new state and of what it sends.
  <2>5. ASSUME NEW d \in Socket, NEW out \in Seq(Segment),
               Becomes(Client, rest, i, d, out), InLine(Server, out),
               NEW O, O = Elements(out), \A y \in O : y.sport = port,
               \A x \in Q, y \in O : Follows(x, y),
               Calm(d, S, Q \cup O, R2),
               Waits(d, S) => Waits(c, S) \/ (Q = {} /\ Acked(out, port))
        PROVE  AllCalm'
    <3>1. sockets' = [sockets EXCEPT ![Client][i] = d]
          /\ net' = [net EXCEPT ![Client] = rest, ![Server] = @ \o out]
      BY <2>5, ConstantTypes DEF Becomes
    <3>2. net[Server] \in Seq(Segment)
      BY ConstantTypes DEF IInv, TypeOK
    <3>3. Waits(d, S) => Acked(net[Server] \o out, port)
      BY <1>0, <1>1, <2>5, <3>2, AckedConcat
    <3>. QED
      BY <1>0, <1>2, <2>1, <2>2, <2>5, <3>1, <3>3, ClientTurns
  <2>6. c.seq \in Int /\ c.ack \in Int /\ g.seq \in Int /\ 1 \in Int
    BY <1>1, ConstantTypes, SocketFields DEF Segment
  <2>7. /\ Plus(c.ack, 1) \in 0 .. SeqSpace - 1 /\ Plus(g.seq, 1) \in 0 .. SeqSpace - 1
        /\ Plus(c.seq, 1) \in 0 .. SeqSpace - 1
    BY <2>6, PlusType
  <2>8. ASSUME IsData(g, c)
        PROVE  g.flags = {"PSH", "ACK"} /\ InOrder(g, c)
    <3>1. Switched(g) \in {{}, {"ACK"}} /\ g.flags # {"ACK"}
      <4>1. "ACK" \in g.flags
        BY <1>5 DEF OpenFlags
      <4>2. Switched(g) # {}
        BY <4>1 DEF Switched
      <4>. QED
        BY <2>8, <4>2 DEF IsData
    <3>2. "SYN" \notin g.flags /\ "FIN" \notin g.flags
      <4>1. "SYN" \notin Switched(g) /\ "FIN" \notin Switched(g)
        BY <3>1
      <4>. QED
        BY <4>1 DEF Switched
    <3>3. g.flags = {"PSH", "ACK"}
      BY <1>5, <3>1, <3>2 DEF OpenFlags
    <3>4. g.seq = One /\ c.ack = One
      BY <1>4, <3>3 DEF ToClientCalm
    <3>. QED
      BY <3>3, <3>4 DEF InOrder
  <2>9. ~g.data.get
    BY <1>1 DEF ToClientOK
  <2>10. CASE SynArrives(Client, g, rest, i)
    <3>1. sockets[Client][i].state = "LISTEN"
      BY <2>10 DEF SynArrives
    <3>. QED
      BY <2>2, <2>3, <3>1
  <2>11. CASE SynAckArrives(Client, g, rest, i)
    <3>1. g.flags = {"SYN", "ACK"} /\ c.state = "SYN_SENT"
      <4>1. Switched(g) = {"SYN", "ACK"} /\ sockets[Client][i].state = "SYN_SENT"
        BY <2>11 DEF SynAckArrives
      <4>2. "SYN" \in g.flags
        BY <4>1 DEF Switched
      <4>. QED
        BY <1>5, <2>2, <4>1, <4>2 DEF OpenFlags
    <3>. DEFINE d == [c EXCEPT !.state = "ESTABLISHED", !.opened = TRUE,
                               !.ack = Plus(g.seq, 1), !.seq = Plus(@, 1)]
                a == Out(d, {"ACK"}, NoData)
    <3>2. /\ d \in Socket /\ d.state = "ESTABLISHED" /\ d.lport = port
          /\ d.seq = Plus(c.seq, 1) /\ d.ack = Plus(g.seq, 1)
          /\ d.sent = c.sent /\ d.got = c.got
      BY <1>1, <2>3, <2>7 DEF Socket, States
    <3>3. Becomes(Client, rest, i, d, <<a>>)
      BY <2>2, <2>11 DEF SynAckArrives
    <3>4. a \in Segment /\ a.sport = port /\ a.flags = {"ACK"}
      BY <3>2, OutIs, ConstantTypes
    <3>. HIDE DEF d, a
    <3>5. d.seq = One /\ d.ack = One
      <4>1. g.seq = Iss
        BY <1>4, <3>1 DEF ToClientCalm
      <4>2. c.seq = Iss
        BY <1>1, <3>1 DEF Calm, ClientCalm
      <4>. QED
        BY <3>2, <4>1, <4>2 DEF One
    <3>6. Q = {} /\ Calm(d, S, {a}, R2)
      BY <1>1, <3>1, <3>2, <3>4, <3>5, SynAckTaken
    <3>7. PICK out, O : out = <<a>> /\ O = {a}
      OBVIOUS
    <3>8. /\ out \in Seq(Segment) /\ O = Elements(out) /\ InLine(Server, out)
          /\ Becomes(Client, rest, i, d, out)
      BY <3>3, <3>4, <3>7, OutInLine
    <3>9. /\ \A y \in O : y.sport = port
          /\ \A x \in Q, y \in O : Follows(x, y)
          /\ Calm(d, S, Q \cup O, R2)
      <4>1. Q \cup O = {a}
        BY <3>6, <3>7
      <4>. QED
        BY <3>4, <3>6, <3>7, <4>1
    <3>10. Acked(out, port)
      BY <3>4, <3>7, AckedAlone
    <3>. QED
      BY <2>5, <3>2, <3>6, <3>8, <3>9, <3>10
  <2>12. CASE FinArrives(Client, g, rest, i)
    <3>1. g.flags = {"FIN", "ACK"}
      <4>1. Switched(g) \in {{"FIN"}, {"FIN", "ACK"}}
        BY <2>12 DEF FinArrives
      <4>2. "FIN" \in g.flags
        BY <4>1 DEF Switched
      <4>. QED
        BY <1>5, <4>2 DEF OpenFlags
    <3>. DEFINE counted == [c EXCEPT !.ack = Plus(@, 1)]
                a == Out(counted, {"ACK"}, NoData)
                f == Out(counted, {"FIN", "ACK"}, NoData)
    <3>2. counted \in Socket /\ counted.lport = port /\ counted.sent = c.sent
      BY <1>1, <2>3, <2>7 DEF Socket
    <3>3. /\ a \in Segment /\ a.sport = port /\ a.flags = {"ACK"}
          /\ f \in Segment /\ f.sport = port /\ f.flags = {"FIN", "ACK"}
      BY <3>2, OutIs, ConstantTypes
    <3>4. ASSUME NEW d \in Socket, d.sent = c.sent, d.state \in {"CLOSE_WAIT", "CLOSED"},
                 NEW out \in Seq(Segment),
                 Becomes(Client, rest, i, d, out), InLine(Server, out),
                 NEW O, O = Elements(out), \A y \in O : y = a \/ y = f
          PROVE  AllCalm'
      <4>. HIDE DEF counted, a, f
      <4>1. \A y \in O : y.sport = port /\ y.flags \in {{"ACK"}, {"FIN", "ACK"}}
        BY <3>3, <3>4
      <4>2. /\ Calm(d, S, Q \cup O, R2) /\ ~Waits(d, S)
            /\ \A x \in Q, y \in O : Follows(x, y)
        BY <1>1, <3>1, <3>4, <4>1, ClientEnds
      <4>. QED
        BY <2>5, <3>4, <4>1, <4>2
    <3>5. CASE c.state = "ESTABLISHED"
      <4>. DEFINE d == [counted EXCEPT !.state = "CLOSE_WAIT"]
      <4>1. d \in Socket /\ d.sent = c.sent /\ d.state = "CLOSE_WAIT"
        BY <3>2 DEF Socket, States
      <4>2. Becomes(Client, rest, i, d, <<a, f>>)
        BY <2>2, <2>12, <3>5 DEF FinArrives
      <4>. HIDE DEF d, counted, a, f
      <4>3. Follows(a, f)
        BY <3>3 DEF Follows
      <4>4. /\ <<a, f>> \in Seq(Segment) /\ Elements(<<a, f>>) = {a, f}
            /\ InLine(Server, <<a, f>>)
        BY <3>3, <4>3, OutInLine
      <4>. QED
        BY <3>4, <4>1, <4>2, <4>4
    <3>6. CASE c.state = "CLOSE_WAIT"
      <4>. DEFINE d == [c EXCEPT !.state = "CLOSED"]
      <4>1. d \in Socket /\ d.sent = c.sent /\ d.state = "CLOSED"
        BY <1>1 DEF Socket, States
      <4>2. Becomes(Client, rest, i, d, << >>)
        BY <2>2, <2>12, <3>6 DEF FinArrives
      <4>. HIDE DEF d, counted, a, f
      <4>3. << >> \in Seq(Segment) /\ Elements(<< >>) = {} /\ InLine(Server, << >>)
        BY OutInLine
      <4>. QED
        BY <3>4, <4>1, <4>2, <4>3
    <3>7. CASE c.state \in {"FIN_WAIT1", "FIN_WAIT2"}
      <4>. DEFINE d == [counted EXCEPT !.state = "CLOSED"]
      <4>1. d \in Socket /\ d.sent = c.sent /\ d.state = "CLOSED"
        BY <3>2 DEF Socket, States
      <4>2. Becomes(Client, rest, i, d, <<a>>)
        BY <2>2, <2>12, <3>7 DEF FinArrives
      <4>. HIDE DEF d, counted, a, f
      <4>3. <<a>> \in Seq(Segment) /\ Elements(<<a>>) = {a} /\ InLine(Server, <<a>>)
        BY <3>3, OutInLine
      <4>. QED
        BY <3>4, <4>1, <4>2, <4>3
    <3>. QED
      BY <2>2, <2>12, <3>5, <3>6, <3>7 DEF FinArrives
  <2>13. CASE AckArrives(Client, g, rest, i)
    <3>. DEFINE d == [c EXCEPT !.state = AckMoves[c.state]]
    <3>1. g.flags \in {{"ACK"}, {"PSH", "ACK"}}
      <4>1. Switched(g) = {"ACK"}
        BY <2>13 DEF AckArrives
      <4>2. "SYN" \notin Switched(g) /\ "FIN" \notin Switched(g)
        BY <4>1
      <4>3. "SYN" \notin g.flags /\ "FIN" \notin g.flags
        BY <4>2 DEF Switched
      <4>. QED
        BY <1>5, <4>3 DEF OpenFlags
    <3>2. \/ c.state = "FIN_WAIT1" /\ AckMoves[c.state] = "FIN_WAIT2"
          \/ c.state = "CLOSE_WAIT" /\ AckMoves[c.state] = "CLOSED"
      BY <2>2, <2>3, <2>13, AckMovesFacts DEF AckArrives
    <3>3. AckMoves[c.state] \in States
      BY <3>2 DEF States
    <3>4. d \in Socket /\ d.state = AckMoves[c.state]
          /\ d.seq = c.seq /\ d.ack = c.ack /\ d.sent = c.sent /\ d.got = c.got
      BY <1>1, <3>3 DEF Socket
    <3>5. Becomes(Client, rest, i, d, << >>)
      BY <2>2, <2>13 DEF AckArrives
    <3>. HIDE DEF d
    <3>6. Calm(d, S, Q, R2) /\ (Waits(d, S) => Waits(c, S))
      BY <1>1, <3>1, <3>2, <3>4, ClientAcked
    <3>7. Elements(<< >>) = {} /\ << >> \in Seq(Segment) /\ InLine(Server, << >>)
      BY OutInLine
    <3>8. Calm(d, S, Q \cup {}, R2)
      BY <3>6
    <3>. QED
      BY <2>5, <3>4, <3>5, <3>6, <3>7, <3>8
  <2>14. CASE PlainAckArrives(Client, g, rest, i)
    BY <1>6, <2>14 DEF PlainAckArrives
  <2>15. CASE TextArrives(Client, g, rest, i)
    <3>. DEFINE d == Counted(c, g)
                a == Out(d, {"ACK"}, NoData)
    <3>1. PICK item : item = [seq |-> g.seq, data |-> g.data]
      OBVIOUS
    <3>2. g.flags = {"PSH", "ACK"}
      BY <2>2, <2>8, <2>15 DEF TextArrives
    <3>3. d \in Socket /\ d.lport = port /\ d.state = c.state /\ d.seq = c.seq
          /\ d.sent = c.sent /\ d.got = Append(c.got, item)
      BY <1>1, <2>3, <3>1, CountedType DEF Counted, Socket
    <3>4. Becomes(Client, rest, i, d, <<a>>)
      BY <2>2, <2>15 DEF TextArrives
    <3>5. a \in Segment /\ a.sport = port /\ a.flags = {"ACK"}
      BY <3>3, OutIs, ConstantTypes
    <3>. HIDE DEF d, a
    <3>6. d.got # << >>
      <4>1. c.got \in Seq([seq : 0 .. SeqSpace - 1, data : Payloads])
            /\ item \in [seq : 0 .. SeqSpace - 1, data : Payloads]
        BY <1>1, <3>1, SocketFields DEF Segment
      <4>. QED
        BY <3>3, <4>1, AppendProperties
    <3>7. /\ Calm(d, S, Q \cup {a}, R2) /\ ~Waits(d, S)
          /\ \A x \in Q : Follows(x, a)
      <4>1. d.state = c.state /\ d.seq = c.seq /\ d.sent = c.sent
        BY <3>3
      <4>2. Talk(c, S, Q, R) /\ Takes(g, R, R2)
        BY <1>1
      <4>. QED
        BY <3>2, <3>5, <3>6, <4>1, <4>2, ClientTold
    <3>8. PICK out, O : out = <<a>> /\ O = {a}
      OBVIOUS
    <3>9. /\ out \in Seq(Segment) /\ O = Elements(out) /\ InLine(Server, out)
          /\ Becomes(Client, rest, i, d, out)
          /\ \A y \in O : y.sport = port
          /\ \A x \in Q, y \in O : Follows(x, y)
          /\ Calm(d, S, Q \cup O, R2) /\ ~Waits(d, S)
      BY <3>4, <3>5, <3>7, <3>8, OutInLine
    <3>10. d \in Socket
      BY <3>3
    <3>. QED
      BY <2>5, <3>9, <3>10
  <2>16. CASE RequestArrives(Client, g, rest, i) \/ RequestSpins(Client, g, rest, i)
    BY <2>9, <2>16 DEF RequestArrives, RequestSpins
  <2>17. CASE IsRefused(Client, g, rest, i)
    <3>1. Refused(g, c)
      BY <2>2, <2>17 DEF IsRefused
    <3>2. ~WrongOrder(g, c)
      BY <2>8 DEF WrongOrder
    <3>3. CASE "SYN" \in g.flags
      <4>1. g.flags = {"SYN", "ACK"} /\ c.state = "SYN_SENT"
        BY <1>4, <1>5, <3>3 DEF OpenFlags, ToClientCalm
      <4>2. "SYN" \in Switched(g) /\ "ACK" \in Switched(g) /\ "FIN" \notin g.flags
        BY <4>1 DEF Switched
      <4>3. Switched(g) \notin {{"SYN"}, {"FIN"}, {"FIN", "ACK"}}
        <5>1. "ACK" \notin {"SYN"} /\ "SYN" \notin {"FIN"} /\ "SYN" \notin {"FIN", "ACK"}
          OBVIOUS
        <5>. QED
          BY <4>2, <5>1
      <4>. QED
        BY <3>1, <3>2, <4>1, <4>2, <4>3 DEF Refused
    <3>4. CASE "SYN" \notin g.flags
      <4>1. "SYN" \notin Switched(g)
        BY <3>4 DEF Switched
      <4>2. Switched(g) # {"SYN"} /\ Switched(g) # {"SYN", "ACK"}
        BY <4>1
      <4>3. c.state \in {"LISTEN", "SYN_SENT", "SYN_RECEIVED"}
        BY <3>1, <3>2, <3>4, <4>2 DEF Refused
      <4>4. g.flags \in OpenFlags
        BY <1>5, <3>4
      <4>5. c.state # "SYN_SENT"
        BY <1>1, <4>4 DEF Known, Takes
      <4>. QED
        BY <2>3, <4>3, <4>5
    <3>. QED
      BY <3>3, <3>4
  <2>. QED
    BY <2>4, <2>10, <2>11, <2>12, <2>13, <2>14, <2>15, <2>16, <2>17
<1>. QED
  BY <1>7, <1>8, <1>9

\* A new listener has no port yet.
LEMMA ListenQuiet ==
    ASSUME IInv, AllCalm, Listen
    PROVE  AllCalm'
<1>. DEFINE new == NewSocket(ServerPort, NoPort, "LISTEN")
            n == Len(sockets[Server])
<1>. USE ConstantTypes
<1>1. sockets \in [Hosts -> Seq(Socket)] /\ sockets[Server] \in Seq(Socket)
  BY DEF IInv, TypeOK
<1>2. n \in Nat
  BY <1>1, LenProperties
<1>3. << >> \in Seq(Payloads)
      /\ << >> \in Seq([seq : 0 .. SeqSpace - 1, data : Payloads])
  OBVIOUS
<1>4. new \in Socket /\ new.rport = NoPort /\ new.got = << >>
  BY <1>3 DEF NewSocket, Socket, States
<1>5. sockets' = [sockets EXCEPT ![Server] = Append(sockets[Server], new)]
      /\ UNCHANGED <<freePort, net>>
  BY DEF Listen
<1>. HIDE DEF new, n
<1>6. /\ Len(Append(sockets[Server], new)) = n + 1
      /\ \A j \in 1 .. n : Append(sockets[Server], new)[j] = sockets[Server][j]
      /\ Append(sockets[Server], new)[n + 1] = new
  BY <1>1, <1>4, AppendProperties DEF n
<1>7. /\ sockets'[Client] = sockets[Client]
      /\ Len(sockets'[Server]) = n + 1
      /\ \A j \in 1 .. n : sockets'[Server][j] = sockets[Server][j]
      /\ sockets'[Server][n + 1] = new
  BY <1>1, <1>5, <1>6
<1>8. (\A j \in 1 .. n + 1 : j \in 1 .. n \/ j = n + 1) /\ 1 .. n \subseteq 1 .. n + 1
  BY <1>2
<1>9. ListenersFresh'
  <2>1. \A j \in 1 .. n : sockets[Server][j].state = "LISTEN" => sockets[Server][j].got = << >>
    BY DEF AllCalm, ListenersFresh, n
  <2>. QED
    BY <1>4, <1>7, <1>8, <2>1 DEF ListenersFresh
<1>10. ASSUME NEW port \in ClientPorts
       PROVE  ServingIn(sockets'[Server], port) = ServingIn(sockets[Server], port)
  <2>1. port # NoPort
    BY DEF ClientPorts, FirstFreePort, NoPort
  <2>2. ASSUME NEW x \in ServingIn(sockets'[Server], port)
        PROVE  x \in ServingIn(sockets[Server], port)
    <3>1. PICK j \in 1 .. n + 1 : x = sockets'[Server][j] /\ sockets'[Server][j].rport = port
      BY <1>7, <2>2 DEF ServingIn
    <3>2. j \in 1 .. n
      BY <1>4, <1>7, <1>8, <2>1, <3>1
    <3>3. x = sockets[Server][j] /\ sockets[Server][j].rport = port
      BY <1>7, <3>1, <3>2
    <3>. QED
      BY <3>2, <3>3 DEF ServingIn, n
  <2>3. ASSUME NEW x \in ServingIn(sockets[Server], port)
        PROVE  x \in ServingIn(sockets'[Server], port)
    <3>1. PICK j \in 1 .. n : x = sockets[Server][j] /\ sockets[Server][j].rport = port
      BY <2>3 DEF ServingIn, n
    <3>2. j \in 1 .. n + 1 /\ x = sockets'[Server][j] /\ sockets'[Server][j].rport = port
      BY <1>7, <1>8, <3>1
    <3>. QED
      BY <1>7, <3>2 DEF ServingIn
  <2>. QED
    BY <2>2, <2>3
<1>11. ClientPorts' = ClientPorts
  BY <1>5 DEF ClientPorts
<1>12. ASSUME NEW port \in ClientPorts PROVE CalmOn(port)'
  BY <1>5, <1>7, <1>10 DEF AllCalm, CalmOn, ClientOf
<1>. QED
  BY <1>5, <1>9, <1>11, <1>12 DEF AllCalm

\* A new client's port has nothing on its way but the SYN.
LEMMA ConnectQuiet ==
    ASSUME IInv, AllCalm, Connect
    PROVE  AllCalm'
<1>. DEFINE new == NewSocket(freePort, ServerPort, "SYN_SENT")
            n == Len(sockets[Client])
            syn == Out(new, {"SYN"}, NoData)
<1>. USE ConstantTypes
<1>1. sockets \in [Hosts -> Seq(Socket)] /\ sockets[Client] \in Seq(Socket)
      /\ net \in [Hosts -> Seq(Segment)] /\ net[Server] \in Seq(Segment)
  BY DEF IInv, TypeOK
<1>2. n \in Nat /\ n < MaxConnects /\ freePort = FirstFreePort + n /\ MaxConnects \in Nat
  BY <1>1, LenProperties, TCPAssumption DEF Connect, IInv, PortsCounted
<1>3. << >> \in Seq(Payloads)
      /\ << >> \in Seq([seq : 0 .. SeqSpace - 1, data : Payloads])
  OBVIOUS
<1>4. freePort \in Ports
  BY <1>2 DEF Ports, FirstFreePort
<1>5. /\ new \in Socket /\ new.state = "SYN_SENT" /\ new.seq = Iss
      /\ new.sent = << >> /\ new.got = << >> /\ new.lport = freePort
  BY <1>3, <1>4 DEF NewSocket, Socket, States
<1>6. /\ sockets' = [sockets EXCEPT ![Client] = Append(sockets[Client], new)]
      /\ net' = [net EXCEPT ![Server] = Append(net[Server], syn)]
      /\ freePort' = freePort + 1
  BY DEF Connect
<1>7. syn \in Segment /\ syn.sport = freePort /\ syn.flags = {"SYN"} /\ syn.seq = Iss
  BY <1>5, OutIs
<1>. HIDE DEF new, n, syn
<1>8. /\ Len(Append(sockets[Client], new)) = n + 1
      /\ \A j \in 1 .. n : Append(sockets[Client], new)[j] = sockets[Client][j]
      /\ Append(sockets[Client], new)[n + 1] = new
  BY <1>1, <1>5, AppendProperties DEF n
<1>9. /\ sockets'[Server] = sockets[Server]
      /\ \A j \in 1 .. n : sockets'[Client][j] = sockets[Client][j]
      /\ sockets'[Client][n + 1] = new
  BY <1>1, <1>6, <1>8
<1>10. PICK out : /\ out = <<syn>> /\ out \in Seq(Segment)
                 /\ Elements(out) = {syn} /\ InLine(Server, out)
  BY <1>7, OutInLine
<1>11. net'[Client] = net[Client] /\ net'[Server] = net[Server] \o out
  <2>1. Append(net[Server], syn) = net[Server] \o out
    BY <1>1, <1>7, <1>10, AppendIsConcat
  <2>. QED
    BY <1>1, <1>6, <2>1
<1>12. freePort \notin ClientPorts /\ freePort # NoPort
  BY <1>2 DEF ClientPorts, FirstFreePort, NoPort
<1>13. \A x \in Elements(net[Server]) : x.sport # freePort
  BY <1>12 DEF IInv, ToServer, ToServerOK, Carried
<1>14. /\ InLine(Server, net'[Server])
       /\ Elements(net'[Server]) \subseteq Elements(net[Server]) \cup Elements(out)
  <2>1. ASSUME NEW x \in Elements(net[Server]), NEW y \in Elements(out),
               PortIn(Server, x) = PortIn(Server, y)
        PROVE  Follows(x, y)
    BY <1>7, <1>10, <1>13, <2>1 DEF PortIn
  <2>2. InLine(Server, net[Server])
    BY DEF AllCalm
  <2>3. out \in Seq(Segment) /\ InLine(Server, out)
    BY <1>10
  <2>. QED
    BY <1>1, <1>11, <2>1, <2>2, <2>3, ConcatInLine
<1>15. ASSUME NEW o \in ClientPorts PROVE CalmOn(o)'
  <2>. DEFINE S == ServingIn(sockets[Server], o)
              Q == Of(Server, net[Server], o)
              Q2 == Of(Server, net'[Server], o)
              R == Of(Client, net[Client], o)
  <2>1. ClientOf(o)' = ClientOf(o)
    <3>1. o - FirstFreePort + 1 \in 1 .. n
      BY ClientPortFacts DEF n
    <3>. QED
      BY <1>9, <3>1 DEF ClientOf
  <2>2. Q2 \subseteq Q \cup Of(Server, out, o)
    BY <1>14, OfConcat
  <2>3. Of(Server, out, o) = {}
    BY <1>7, <1>10, <1>12 DEF Of, PortIn
  <2>4. Q2 \in SUBSET Q /\ R \in SUBSET R
    BY <2>2, <2>3
  <2>5. Calm(ClientOf(o), S, Q, R) /\ (Waits(ClientOf(o), S) => Acked(net[Server], o))
    BY DEF AllCalm, CalmOn
  <2>6. Calm(ClientOf(o), S, Q2, R)
    BY <2>4, <2>5, CalmSubset
  <2>7. Waits(ClientOf(o), S) => Acked(net'[Server], o)
    BY <1>1, <1>10, <1>11, <2>5, AckedConcat
  <2>. QED
    BY <1>9, <1>11, <2>1, <2>6, <2>7 DEF CalmOn
<1>16. ASSUME NEW o, o = freePort PROVE CalmOn(o)'
  <2>1. ClientOf(o)' = new
    <3>1. o - FirstFreePort + 1 = n + 1
      BY <1>2, <1>16 DEF FirstFreePort
    <3>. QED
      BY <1>9, <3>1 DEF ClientOf
  <2>2. ServingIn(sockets'[Server], o) = {}
    <3>1. \A j \in 1 .. Len(sockets[Server]) : sockets[Server][j].rport # freePort
      BY <1>12 DEF IInv, ServerTable, ServerSocketOK
    <3>. QED
      BY <1>9, <1>16, <3>1 DEF ServingIn
  <2>3. Of(Server, net'[Server], o) \subseteq {syn}
    BY <1>10, <1>13, <1>14, <1>16 DEF Of, PortIn
  <2>4. Of(Client, net'[Client], o) = {}
    <3>1. \A x \in Elements(net[Client]) : x.dport # freePort
      BY <1>12 DEF IInv, ToClient, ToClientOK, Carried
    <3>. QED
      BY <1>11, <1>16, <3>1 DEF Of, PortIn
  <2>5. PICK Q2 : Q2 = Of(Server, net'[Server], o) /\ Q2 \subseteq {syn}
    BY <2>3
  <2>6. ClientCalm(new) /\ ToServerCalm(syn, new, {})
    BY <1>5, <1>7 DEF ClientCalm, ToServerCalm, Live
  <2>7. Calm(new, {}, Q2, {}) /\ ~Waits(new, {})
    BY <2>5, <2>6 DEF Calm, Waits
  <2>. QED
    BY <2>1, <2>2, <2>4, <2>5, <2>7 DEF CalmOn
<1>17. \A o \in ClientPorts' : o \in ClientPorts \/ o = freePort
  BY <1>2, <1>6 DEF ClientPorts, FirstFreePort
<1>18. ListenersFresh' /\ InLine(Client, net'[Client])
  BY <1>9, <1>11 DEF AllCalm, ListenersFresh
<1>19. \A o \in ClientPorts' : CalmOn(o)'
  BY <1>15, <1>16, <1>17
<1>. QED
  BY <1>14, <1>18, <1>19 DEF AllCalm

\* The client's own calls.
LEMMA ClientCallQuiet ==
    ASSUME IInv, AllCalm, NEW i \in 1 .. Len(sockets[Client]),
           sockets[Client][i].state # "SYN_SENT",
           NEW d \in Socket, NEW a \in Segment, a.sport = sockets[Client][i].lport,
           d.ack = sockets[Client][i].ack, d.got = sockets[Client][i].got,
           \/ /\ a.flags = {"PSH", "ACK"} /\ a.seq = sockets[Client][i].seq
              /\ sockets[Client][i].state = "ESTABLISHED" /\ d.state = "ESTABLISHED"
              /\ sockets[Client][i].sent = << >> /\ d.sent # << >>
           \/ /\ a.flags = {"FIN", "ACK"}
              /\ d.state = "FIN_WAIT1" /\ d.sent = sockets[Client][i].sent,
           sockets' = [sockets EXCEPT ![Client][i] = d],
           net' = [net EXCEPT ![Server] = Append(@, a)], UNCHANGED freePort
    PROVE  AllCalm'
<1>. USE ConstantTypes
<1>0. PICK port, c, S, Q, R, rest :
        /\ port = FirstFreePort + i - 1
        /\ c = sockets[Client][i] /\ S = ServingIn(sockets[Server], port)
        /\ Q = Of(Server, net[Server], port) /\ R = Of(Client, net[Client], port)
        /\ rest = net[Client]
  OBVIOUS
<1>1. net \in [Hosts -> Seq(Segment)] /\ net[Server] \in Seq(Segment)
      /\ net[Client] \in Seq(Segment)
  BY DEF IInv, TypeOK
<1>2. port \in ClientPorts /\ ClientOf(port) = c /\ a.sport = port
  <2>1. port \in ClientPorts
    BY <1>0, ClientPortFacts
  <2>2. port - FirstFreePort + 1 = i
    BY <1>0 DEF FirstFreePort
  <2>3. a.sport = port
    BY <1>0 DEF IInv, ClientTable, ClientSocketOK
  <2>. QED
    BY <1>0, <2>1, <2>2, <2>3 DEF ClientOf
<1>3. Talk(c, S, Q, R) /\ \A s \in S : s.state \in States
  <2>1. Known(c, S, Q, R) /\ \A s \in S : s \in Socket
    BY <1>0, <1>2, Conversation
  <2>2. Calm(c, S, Q, R)
    BY <1>0, <1>2 DEF AllCalm, CalmOn
  <2>. QED
    BY <2>1, <2>2, SocketFields DEF Talk
<1>4. Waits(c, S) => Acked(net[Server], port)
  BY <1>0, <1>2 DEF AllCalm, CalmOn
<1>5. /\ Calm(d, S, Q \cup {a}, R) /\ (Waits(d, S) => Waits(c, S))
      /\ \A x \in Q : Follows(x, a)
  <2>1. CASE a.flags = {"PSH", "ACK"}
    <3>1. "PSH" \in {"PSH", "ACK"} /\ "PSH" \notin {"FIN", "ACK"}
      OBVIOUS
    <3>2. /\ a.seq = c.seq /\ d.state = "ESTABLISHED" /\ c.sent = << >> /\ d.sent # << >>
          /\ c.state = "ESTABLISHED" /\ d.ack = c.ack /\ d.got = c.got
      BY <1>0, <2>1, <3>1
    <3>. QED
      BY ZenonT(30), <1>3, <2>1, <3>2, ClientSpeaks
  <2>2. CASE a.flags = {"FIN", "ACK"}
    <3>1. "PSH" \in {"PSH", "ACK"} /\ "PSH" \notin {"FIN", "ACK"}
      OBVIOUS
    <3>2. /\ d.state = "FIN_WAIT1" /\ d.sent = c.sent
          /\ c.state # "SYN_SENT" /\ d.ack = c.ack /\ d.got = c.got
      BY <1>0, <2>2, <3>1
    <3>. QED
      BY <1>3, <2>2, <3>2, ClientLeaves
  <2>. QED
    BY <2>1, <2>2
<1>6. PICK out, O : out = <<a>> /\ O = {a}
  OBVIOUS
<1>7. out \in Seq(Segment) /\ O = Elements(out) /\ InLine(Server, out)
  BY <1>6, OutInLine
<1>8. /\ \A y \in O : y.sport = port
      /\ \A x \in Q, y \in O : Follows(x, y)
      /\ Calm(d, S, Q \cup O, R)
  BY <1>2, <1>5, <1>6
<1>9. Waits(d, S) => Acked(net[Server] \o out, port)
  BY <1>1, <1>4, <1>5, <1>7, AckedConcat
<1>10. net' = [net EXCEPT ![Client] = rest, ![Server] = @ \o out]
  <2>1. Append(net[Server], a) = net[Server] \o out
    BY <1>1, <1>6, AppendIsConcat
  <2>. QED
    BY <1>0, <1>1, <2>1
<1>11. rest \in Seq(Segment) /\ InLine(Client, rest)
       /\ Elements(rest) \subseteq Elements(net[Client]) /\ R = Of(Client, rest, port)
  BY <1>0, <1>1 DEF AllCalm
<1>12. /\ \A y \in Elements(out) : y.sport = port
       /\ \A x \in Of(Server, net[Server], port), y \in Elements(out) : Follows(x, y)
       /\ Calm(d, ServingIn(sockets[Server], port),
               Of(Server, net[Server], port) \cup Elements(out), Of(Client, rest, port))
       /\ Waits(d, ServingIn(sockets[Server], port)) => Acked(net[Server] \o out, port)
  BY <1>0, <1>7, <1>8, <1>9, <1>11
<1>13. port = FirstFreePort + i - 1
  BY <1>0
<1>14. /\ IInv /\ AllCalm /\ i \in 1 .. Len(sockets[Client]) /\ d \in Socket
       /\ sockets' = [sockets EXCEPT ![Client][i] = d] /\ UNCHANGED freePort
  OBVIOUS
<1>. QED
  BY ONLY <1>7, <1>10, <1>11, <1>12, <1>13, <1>14, ClientTurns
-----------------------------------------------------------------------------
\* There was no cause before a step that gives none of the client's sockets one.
LEMMA NoCauseBefore ==
    ASSUME IInv, NoCause', faults' = faults,
           1 .. Len(sockets[Client]) \subseteq 1 .. Len(sockets'[Client]),
           \A i \in 1 .. Len(sockets[Client]) :
              Orderly(sockets'[Client][i]) => Orderly(sockets[Client][i])
    PROVE  NoCause
<1>1. \A i \in 1 .. Len(sockets'[Client]) : Orderly(sockets'[Client][i])
  BY DEF NoCause, Orderly
<1>. QED
  BY <1>1 DEF NoCause

\* All but one of its sockets are as they were.
LEMMA NoCauseBeforeExcept ==
    ASSUME IInv, NoCause', faults' = faults,
           NEW i \in 1 .. Len(sockets[Client]), NEW d \in Socket,
           Orderly(d) => Orderly(sockets[Client][i]),
           sockets' = [sockets EXCEPT ![Client][i] = d]
    PROVE  NoCause
<1>1. sockets \in [Hosts -> Seq(Socket)] /\ Client \in Hosts
  BY ConstantTypes DEF IInv, TypeOK
<1>2. /\ Len(sockets'[Client]) = Len(sockets[Client])
      /\ sockets'[Client][i] = d
      /\ \A j \in 1 .. Len(sockets[Client]) : j # i => sockets'[Client][j] = sockets[Client][j]
  BY <1>1, TableExcept
<1>3. ASSUME NEW j \in 1 .. Len(sockets[Client])
      PROVE  Orderly(sockets'[Client][j]) => Orderly(sockets[Client][j])
  BY <1>2
<1>. QED
  BY <1>2, <1>3, NoCauseBefore

\* The network brings the oldest segment to h.
LEMMA ArriveQuiet ==
    ASSUME IInv, IInv', Quiet, NoCause', NEW h \in Hosts, Arrive(h)
    PROVE  AllCalm'
<1>1. /\ net[h] \in Seq(Segment) /\ net[h] # << >> /\ UNCHANGED <<freePort, faults>>
      /\ Handle(h, Head(net[h]), Tail(net[h]))
  BY DEF Arrive, IInv, TypeOK
<1>2. 1 \in 1 .. Len(net[h]) /\ Head(net[h]) = net[h][1]
  BY <1>1, LenProperties, EmptySeq
<1>3. ASSUME sockets'[Client] = sockets[Client] PROVE NoCause
  <2>1. /\ 1 .. Len(sockets[Client]) \subseteq 1 .. Len(sockets'[Client])
        /\ \A i \in 1 .. Len(sockets[Client]) :
             Orderly(sockets'[Client][i]) => Orderly(sockets[Client][i])
    BY <1>3
  <2>. QED
    BY <1>1, <2>1, NoCauseBefore
<1>4. CASE h = Client
  <2>1. Handle(Client, net[Client][1], Tail(net[Client])) /\ 1 \in 1 .. Len(net[Client])
    BY <1>1, <1>2, <1>4
  <2>2. \/ Ignores(Client, Tail(net[Client]))
        \/ \E i \in 1 .. Len(sockets[Client]) : \E s, out :
             ClientBecomes(i, s, out) /\ Becomes(Client, Tail(net[Client]), i, s, out)
    BY <2>1, ClientHandles
  <2>3. CASE Ignores(Client, Tail(net[Client]))
    <3>1. NoCause
      BY <1>3, <2>3 DEF Ignores
    <3>. QED
      BY <1>1, <1>4, <3>1, ClientQuiet DEF Quiet
  <2>4. ASSUME NEW i \in 1 .. Len(sockets[Client]), NEW s, NEW out,
               ClientBecomes(i, s, out), Becomes(Client, Tail(net[Client]), i, s, out)
        PROVE  AllCalm'
    <3>1. /\ s \in Socket /\ s.sent = sockets[Client][i].sent
          /\ s.fins = sockets[Client][i].fins
          /\ s.opened = sockets[Client][i].opened \/ sockets[Client][i].state = "SYN_SENT"
          /\ sockets' = [sockets EXCEPT ![Client][i] = s]
      BY <2>4 DEF ClientBecomes, Becomes
    <3>0. Orderly(s) => Orderly(sockets[Client][i])
      <4>1. ClientSocketOK(i, sockets[Client][i])
        BY DEF IInv, ClientTable
      <4>2. sockets[Client][i].state = "SYN_SENT" => ~(sockets[Client][i].fins > 0)
        BY <4>1 DEF ClientSocketOK
      <4>. QED
        BY <3>1, <4>2 DEF Orderly
    <3>2. NoCause
      BY <1>1, <3>0, <3>1, NoCauseBeforeExcept
    <3>. QED
      BY <1>1, <1>4, <3>2, ClientQuiet DEF Quiet
  <2>. QED
    BY <2>2, <2>3, <2>4
<1>5. CASE h = Server
  <2>1. Handle(Server, net[Server][1], Tail(net[Server])) /\ 1 \in 1 .. Len(net[Server])
    BY <1>1, <1>2, <1>5
  <2>2. \/ Ignores(Server, Tail(net[Server])) \/ ServerSpins(Tail(net[Server]))
        \/ \E i \in 1 .. Len(sockets[Server]) : \E s, out :
             ServerBecomes(i, s, out) /\ Becomes(Server, Tail(net[Server]), i, s, out)
    BY <2>1, ServerHandles
  <2>3. sockets'[Client] = sockets[Client]
    <3>1. sockets \in [Hosts -> Seq(Socket)]
      BY DEF IInv, TypeOK
    <3>. QED
      BY <2>2, <3>1, ConstantTypes DEF Ignores, ServerSpins, Becomes
  <2>4. NoCause
    BY <1>3, <2>3
  <2>. QED
    BY <1>1, <1>5, <2>4, ServerQuiet DEF Quiet
<1>. QED
  BY <1>4, <1>5, ConstantTypes

\* Every step keeps the peace while there is no cause to break it.
LEMMA StepQuiet ==
    ASSUME IInv, IInv', Quiet, [Next]_vars
    PROVE  Quiet'
<1>. SUFFICES ASSUME NoCause' PROVE AllCalm'
  BY DEF Quiet
<1>0. sockets \in [Hosts -> Seq(Socket)] /\ sockets[Client] \in Seq(Socket)
      /\ Len(sockets[Client]) \in Nat /\ faults \in Nat
  BY ConstantTypes, LenProperties DEF IInv, TypeOK
<1>1. CASE Listen
  <2>1. faults' = faults /\ sockets'[Client] = sockets[Client]
    BY <1>0, <1>1, ConstantTypes DEF Listen
  <2>2. /\ 1 .. Len(sockets[Client]) \subseteq 1 .. Len(sockets'[Client])
        /\ \A i \in 1 .. Len(sockets[Client]) :
             Orderly(sockets'[Client][i]) => Orderly(sockets[Client][i])
    BY <2>1
  <2>3. NoCause
    BY <2>1, <2>2, NoCauseBefore
  <2>. QED
    BY <1>1, <2>3, ListenQuiet DEF Quiet
<1>2. CASE Connect
  <2>. DEFINE new == NewSocket(freePort, ServerPort, "SYN_SENT")
  <2>1. faults' = faults
        /\ sockets' = [sockets EXCEPT ![Client] = Append(sockets[Client], new)]
    BY <1>2 DEF Connect
  <2>. HIDE DEF new
  <2>2. /\ Len(sockets'[Client]) = Len(sockets[Client]) + 1
        /\ \A i \in 1 .. Len(sockets[Client]) : sockets'[Client][i] = sockets[Client][i]
    BY <1>0, <2>1, ConstantTypes
  <2>3. 1 .. Len(sockets[Client]) \subseteq 1 .. Len(sockets'[Client])
    BY <1>0, <2>2
  <2>4. \A i \in 1 .. Len(sockets[Client]) :
          Orderly(sockets'[Client][i]) => Orderly(sockets[Client][i])
    BY <2>2
  <2>5. NoCause
    BY <2>1, <2>3, <2>4, NoCauseBefore
  <2>. QED
    BY <1>2, <2>5, ConnectQuiet DEF Quiet
<1>3. ASSUME NEW i \in 1 .. Len(sockets[Client]), NEW data \in Requests, ClientSend(i, data)
      PROVE  AllCalm'
  <2>. DEFINE old == sockets[Client][i]
              d == AfterSend(old, data)
              a == Out(old, {"PSH", "ACK"}, data)
  <2>1. old \in Socket /\ data \in Payloads
    BY <1>0, ElementOfSeq, ConstantTypes
  <2>2. d \in Socket /\ d.state = old.state /\ d.ack = old.ack /\ d.got = old.got
        /\ d.sent = Append(old.sent, data) /\ d.fins = old.fins /\ d.opened = old.opened
    BY <2>1, AfterSendType DEF AfterSend, Socket
  <2>3. a \in Segment /\ a.sport = old.lport /\ a.flags = {"PSH", "ACK"} /\ a.seq = old.seq
    BY <2>1, OutIs
  <2>4. /\ old.state = "ESTABLISHED" /\ faults' = faults /\ UNCHANGED freePort
        /\ sockets' = [sockets EXCEPT ![Client][i] = d]
        /\ net' = [net EXCEPT ![Server] = Append(@, a)]
    BY <1>3 DEF ClientSend
  <2>. HIDE DEF d, a
  <2>5. /\ Len(sockets'[Client]) = Len(sockets[Client])
        /\ sockets'[Client][i] = d
        /\ \A j \in 1 .. Len(sockets[Client]) : j # i => sockets'[Client][j] = sockets[Client][j]
    BY <1>0, <2>2, <2>4, TableExcept, ConstantTypes
  <2>6. \A j \in 1 .. Len(sockets[Client]) : Orderly(sockets'[Client][j])
    BY <2>5 DEF NoCause, Orderly
  <2>7. old.sent = << >> /\ d.sent # << >> /\ Len(old.sent) = 0
    <3>1. old.sent \in Seq(Payloads)
      BY <2>1, SocketFields
    <3>2. Len(Append(old.sent, data)) = Len(old.sent) + 1 /\ Append(old.sent, data) # << >>
          /\ Len(old.sent) \in Nat
      BY <2>1, <3>1, AppendProperties, LenProperties
    <3>3. Len(Append(old.sent, data)) <= 1
      BY <2>2, <2>5, <2>6 DEF Orderly
    <3>4. Len(old.sent) = 0
      BY <3>2, <3>3
    <3>. QED
      BY <2>2, <3>1, <3>2, <3>4, EmptySeq
  <2>10. faults = 0
    BY <2>4 DEF NoCause
  <2>8. NoCause
    <3>1. Orderly(old)
      <4>1. Orderly(d)
        BY <2>5, <2>6
      <4>. QED
        BY <2>2, <2>7, <4>1 DEF Orderly
    <3>2. \A j \in 1 .. Len(sockets[Client]) : Orderly(sockets[Client][j])
      BY <2>5, <2>6, <3>1
    <3>. QED
      BY <2>4, <3>2, <2>10 DEF NoCause
  <2>9. AllCalm
    BY <2>8 DEF Quiet
  <2>. HIDE DEF old
  <2>. QED
    BY <2>2, <2>3, <2>4, <2>7, <2>9, ClientCallQuiet DEF old
<1>4. ASSUME NEW i \in 1 .. Len(sockets[Client]), ClientDisconnect(i)
      PROVE  AllCalm'
  <2>. DEFINE old == sockets[Client][i]
              d == Disconnected(old)
              a == Out(old, {"FIN", "ACK"}, NoData)
  <2>1. old \in Socket
    BY <1>0, ElementOfSeq
  <2>2. d \in Socket /\ d.state = "FIN_WAIT1" /\ d.ack = old.ack /\ d.got = old.got
        /\ d.sent = old.sent /\ d.fins = old.fins + 1 /\ d.opened = old.opened
        /\ old.fins \in Nat
    BY <2>1, DisconnectedType DEF Disconnected, Socket
  <2>3. a \in Segment /\ a.sport = old.lport /\ a.flags = {"FIN", "ACK"}
    BY <2>1, OutIs, ConstantTypes
  <2>4. /\ faults' = faults /\ UNCHANGED freePort
        /\ sockets' = [sockets EXCEPT ![Client][i] = d]
        /\ net' = [net EXCEPT ![Server] = Append(@, a)]
    BY <1>4 DEF ClientDisconnect
  <2>. HIDE DEF d, a
  <2>5. Orderly(d)
    <3>1. sockets'[Client][i] = d /\ i \in 1 .. Len(sockets'[Client])
      BY <1>0, <2>2, <2>4, TableExcept, ConstantTypes
    <3>2. \A j \in 1 .. Len(sockets'[Client]) : Orderly(sockets'[Client][j])
      BY DEF NoCause, Orderly
    <3>. QED
      BY <3>1, <3>2
  <2>6. old.opened /\ Orderly(old)
    <3>1. d.fins > 0
      BY <2>2
    <3>. QED
      BY <2>2, <2>5, <3>1 DEF Orderly
  <2>7. old.state # "SYN_SENT"
    <3>1. ClientSocketOK(i, old)
      BY DEF IInv, ClientTable
    <3>. QED
      BY <2>6, <3>1 DEF ClientSocketOK
  <2>8. NoCause
    BY <2>2, <2>4, <2>6, NoCauseBeforeExcept
  <2>9. AllCalm
    BY <2>8 DEF Quiet
  <2>. HIDE DEF old
  <2>. QED
    BY <2>2, <2>3, <2>4, <2>7, <2>9, ClientCallQuiet DEF old
<1>5. ASSUME NEW h \in Hosts, Arrive(h) PROVE AllCalm'
  BY <1>5, ArriveQuiet
<1>6. ASSUME NEW h \in Hosts, ArriveDisturbed(h) \/ Lose(h) PROVE AllCalm'
  <2>1. faults' = faults + 1
    BY <1>6 DEF ArriveDisturbed, Lose
  <2>2. faults' = 0
    BY DEF NoCause
  <2>. QED
    BY <1>0, <2>1, <2>2
<1>7. CASE UNCHANGED vars
  <2>1. UNCHANGED <<sockets, freePort, net, faults>>
    BY <1>7 DEF vars
  <2>2. /\ 1 .. Len(sockets[Client]) \subseteq 1 .. Len(sockets'[Client])
        /\ \A i \in 1 .. Len(sockets[Client]) :
             Orderly(sockets'[Client][i]) => Orderly(sockets[Client][i])
    BY <2>1
  <2>3. NoCause
    BY <2>1, <2>2, NoCauseBefore
  <2>4. AllCalm
    BY <2>3 DEF Quiet
  <2>. QED
    BY <2>1, <2>4 DEF AllCalm, ListenersFresh, ClientPorts, CalmOn, ClientOf
<1>. QED
  BY <1>1, <1>2, <1>3, <1>4, <1>5, <1>6, <1>7 DEF Next

\* Two hosts without sockets are quiet.
LEMMA InitQuiet == Init => Quiet
<1>. SUFFICES ASSUME Init PROVE AllCalm
  BY DEF Quiet
<1>1. /\ sockets[Server] = << >> /\ net[Client] = << >> /\ net[Server] = << >>
      /\ freePort = FirstFreePort
  BY ConstantTypes DEF Init
<1>2. InLine(Client, << >>) /\ InLine(Server, << >>)
  BY OutInLine
<1>3. Len(<< >>) = 0 /\ \A j \in 1 .. 0 : FALSE
  OBVIOUS
<1>4. ClientPorts = {}
  BY <1>1 DEF ClientPorts, FirstFreePort
<1>5. ListenersFresh
  BY <1>1, <1>3 DEF ListenersFresh
<1>. QED
  BY <1>1, <1>2, <1>4, <1>5 DEF AllCalm

\* Neither host has a reason to reset a connection (lines 132-172, 213) while the
\* network brings every segment once and in order and no client sends twice or
\* disconnects before its connection is open.
THEOREM NoResetWithoutCauseHolds == Spec => []NoResetWithoutCause
<1>1. IInv /\ IInv' /\ Quiet /\ [Next]_vars => Quiet'
  BY StepQuiet
<1>2. IInv /\ Quiet => NoResetWithoutCause
  <2>1. ASSUME IInv, AllCalm, NEW h \in Hosts, NEW k \in 1 .. Len(net[h])
        PROVE  "RST" \notin net[h][k].flags
    <3>1. PICK g, port : g = net[h][k] /\ port = PortIn(h, g)
      OBVIOUS
    <3>2. g \in Elements(net[h]) /\ g \in Of(h, net[h], port)
      BY <3>1 DEF Elements, Of
    <3>3. CASE h = Server
      <4>1. port \in ClientPorts
        BY <2>1, <3>1, <3>2, <3>3 DEF IInv, ToServer, Carried, ToServerOK, PortIn
      <4>2. CalmOn(port)
        BY <2>1, <4>1 DEF AllCalm
      <4>. QED
        BY <3>1, <3>2, <3>3, <4>2 DEF CalmOn, Calm, ToServerCalm
    <3>4. CASE h = Client
      <4>1. port \in ClientPorts
        BY <2>1, <3>1, <3>2, <3>4, ConstantTypes
           DEF IInv, ToClient, Carried, ToClientOK, PortIn
      <4>2. CalmOn(port)
        BY <2>1, <4>1 DEF AllCalm
      <4>. QED
        BY <3>1, <3>2, <3>4, <4>2 DEF CalmOn, Calm, ToClientCalm
    <3>. QED
      BY <3>3, <3>4, ConstantTypes
  <2>. QED
    BY <2>1 DEF Quiet, NoCause, Orderly, NoResetWithoutCause
<1>. QED
  BY <1>1, <1>2, InitQuiet, Invariance, PTL DEF Spec
-----------------------------------------------------------------------------
(* What is handed up is what was sent.  The numbers of a connection's bytes *)
(* are all different, so a socket that waits for a number waits for one     *)
(* byte of one payload, and nothing else that is on its way starts there.   *)

\* Where byte x of a connection stands, the SYN being byte 0.
At(x) == Plus(Iss, x)

\* The states in which a socket may still hand something up.
Taking == {"SYN_RECEIVED", "ESTABLISHED", "FIN_WAIT1", "FIN_WAIT2"}

\* Payload k of those sent starts with byte b[k], and the next one with the last b.
Starts(b, sent) ==
    /\ b \in [1 .. Len(sent) + 1 -> Nat] /\ b[1] = 1
    /\ \A k \in 1 .. Len(sent) : sent[k] \in Requests /\ b[k + 1] = b[k] + sent[k].len
    /\ \A k \in 1 .. Len(sent) + 1 :
         /\ MaxSends * (b[k] - 1) <= (k - 1) * (SeqSpace - 1)
         /\ \A j \in 1 .. k - 1 : b[j] < b[k]

\* The byte behind the n payloads handed up, without the zeros at the end of the last.
Behind(b, sent, n) == IF n = 0 THEN 1 ELSE b[n] + sent[n].sig

\* The server's socket s is handed what the client sent, and answers once.
ServerInStep(b, sent, s) ==
    /\ Len(s.got) <= Len(sent) /\ \A n \in 1 .. Len(s.got) : s.got[n].data = sent[n]
    /\ s.state \in Taking => s.ack = At(Behind(b, sent, Len(s.got)))
    /\ s.state \in Early => s.seq = One /\ s.sent = << >>
    /\ s.sent \in {<< >>, <<Response>>}

Answered(S) == \E s \in S : s.sent = <<Response>>

\* The client, after the answer: it has counted at most one FIN more than it sent,
\* and it counts one only as it stops taking anything.
PastAnswer(c) ==
    \E k \in 0 .. c.fins + 1 : /\ c.ack = Plus(One, ResponseLen + k)
                               /\ c.state \in Taking => k <= c.fins

ClientInStep(b, c, S) ==
    /\ Len(c.sent) <= MaxSends /\ c.fins <= MaxDisconnects
    /\ c.state = "SYN_SENT" => c.seq = Iss /\ c.sent = << >> /\ c.got = << >>
    /\ c.state = "ESTABLISHED" => c.seq = At(b[Len(c.sent) + 1])
    /\ c.got # << >> =>
         Len(c.got) = 1 /\ c.got[1].data = Response /\ Answered(S) /\ PastAnswer(c)

ToServerInStep(b, sent, g) ==
    /\ "SYN" \in g.flags => g.seq = Iss
    /\ "PSH" \in g.flags => \E k \in 1 .. Len(sent) : g.seq = At(b[k]) /\ g.data = sent[k]

ToClientInStep(g, S) ==
    /\ "SYN" \in g.flags => g.seq = Iss
    /\ "PSH" \in g.flags => g.seq = One /\ g.data = Response /\ Answered(S)

\* The conversation, where what the client sends starts with the bytes b.
InStep(b, c, S, Q, R) ==
    /\ Starts(b, c.sent) /\ ClientInStep(b, c, S)
    /\ \A s \in S : ServerInStep(b, c.sent, s)
    /\ \A g \in Q : ToServerInStep(b, c.sent, g)
    /\ \A g \in R : ToClientInStep(g, S)

InStepOn(port) ==
    \E b : InStep(b, ClientOf(port), ServingIn(sockets[Server], port),
                  Of(Server, net[Server], port), Of(Client, net[Client], port))

\* Nothing was sent or handed up by a socket that listens.
ListenersNew ==
    \A j \in 1 .. Len(sockets[Server]) :
        sockets[Server][j].state = "LISTEN" =>
          sockets[Server][j].got = << >> /\ sockets[Server][j].sent = << >>

AllInStep == ListenersNew /\ \A port \in ClientPorts : InStepOn(port)
-----------------------------------------------------------------------------
\* A remainder of less than two turns.
LEMMA Wraps ==
    ASSUME NEW n \in Nat \ {0}, NEW x \in 0 .. 2 * n - 1
    PROVE  x % n = IF x < n THEN x ELSE x - n
<1>. DEFINE q == x \div n
            r == x % n
<1>1. q \in Nat /\ r \in 0 .. n - 1 /\ x = n * q + r
  OBVIOUS
<1>. HIDE DEF q, r
<1>2. q < 2
  <2>1. ASSUME 2 <= q PROVE FALSE
    <3>1. PICK p \in Nat : q = 2 + p
      <4>1. q - 2 \in Nat /\ q = 2 + (q - 2)
        BY <1>1, <2>1
      <4>. QED
        BY <4>1
    <3>2. n * q = 2 * n + n * p /\ n * p \in Nat
      BY <1>1, <3>1
    <3>. QED
      BY <1>1, <3>2
  <2>. QED
    BY <1>1, <2>1
<1>3. CASE q = 0
  BY <1>1, <1>3 DEF r
<1>4. CASE q = 1
  BY <1>1, <1>4 DEF r
<1>. QED
  BY <1>1, <1>2, <1>3, <1>4

\* Adding at most one turn to a number.
LEMMA PlusWraps ==
    ASSUME NEW v \in 0 .. SeqSpace - 1, NEW x \in 0 .. SeqSpace
    PROVE  Plus(v, x) = IF v + x < SeqSpace THEN v + x ELSE v + x - SeqSpace
<1>1. SeqSpace \in Nat \ {0}
  BY TCPAssumption
<1>2. PICK n, m : n = SeqSpace /\ m = v + x
  OBVIOUS
<1>3. n \in Nat \ {0} /\ m \in 0 .. 2 * n - 1
  BY <1>1, <1>2
<1>4. m % n = IF m < n THEN m ELSE m - n
  BY ONLY <1>3, Wraps
<1>5. PICK r : r = m % n
  OBVIOUS
<1>6. r = Plus(v, x)
  BY ONLY <1>2, <1>5 DEF Plus
<1>7. r = IF m < n THEN m ELSE m - n
  BY ONLY <1>4, <1>5
<1>. QED
  BY <1>1, <1>2, <1>6, <1>7

\* Bytes further on, and bytes that are the same because their numbers are.
LEMMA AtFacts ==
    ASSUME NEW x \in 0 .. SeqSpace
    PROVE  /\ At(x) \in 0 .. SeqSpace - 1
           /\ \A y \in 0 .. SeqSpace - x : Plus(At(x), y) = At(x + y)
           /\ \A y \in 1 .. SeqSpace : 0 < x /\ At(x) = At(y) => x = y
<1>1. SeqSpace \in Nat \ {0} /\ Iss \in 0 .. SeqSpace - 1
  BY TCPAssumption
<1>2. PICK n, i : n = SeqSpace /\ i = Iss
  OBVIOUS
<1>3. \A y \in 0 .. n : At(y) = IF i + y < n THEN i + y ELSE i + y - n
  BY <1>1, <1>2, PlusWraps DEF At
<1>4. At(x) \in 0 .. n - 1
  BY <1>1, <1>2, <1>3
<1>5. ASSUME NEW y \in 0 .. n - x PROVE Plus(At(x), y) = At(x + y)
  <2>1. PICK v : v = At(x)
    OBVIOUS
  <2>2. y \in 0 .. n /\ x + y \in 0 .. n /\ v \in 0 .. n - 1
    BY <1>1, <1>2, <1>4, <2>1
  <2>3. Plus(v, y) = IF v + y < n THEN v + y ELSE v + y - n
    BY <1>2, <2>2, PlusWraps
  <2>4. v = IF i + x < n THEN i + x ELSE i + x - n
    BY <1>2, <1>3, <2>1
  <2>5. At(x + y) = IF i + (x + y) < n THEN i + (x + y) ELSE i + (x + y) - n
    BY <1>3, <2>2
  <2>6. Plus(v, y) = At(x + y)
    BY <1>1, <1>2, <2>2, <2>3, <2>4, <2>5
  <2>. QED
    BY <2>1, <2>6
<1>6. ASSUME NEW y \in 1 .. n, 0 < x, At(x) = At(y) PROVE x = y
  <2>1. At(x) = IF i + x < n THEN i + x ELSE i + x - n
    BY <1>2, <1>3
  <2>2. At(y) = IF i + y < n THEN i + y ELSE i + y - n
    BY <1>3, <1>6
  <2>3. n \in Nat /\ i \in 0 .. n - 1 /\ x \in 1 .. n /\ y \in 1 .. n
    BY <1>1, <1>2, <1>6
  <2>4. PICK v : v = At(x)
    OBVIOUS
  <2>5. /\ v = (IF i + x < n THEN i + x ELSE i + x - n)
        /\ v = (IF i + y < n THEN i + y ELSE i + y - n)
    BY <1>6, <2>1, <2>2, <2>4
  <2>. QED
    BY ONLY <2>3, <2>5
<1>. QED
  BY <1>2, <1>4, <1>5, <1>6

\* The number behind the answer, and behind the FINs counted after it, is not that
\* of its first byte.
LEMMA BehindAnswer ==
    ASSUME NumbersSuffice, NEW k \in 0 .. MaxDisconnects
    PROVE  /\ Plus(One, ResponseLen + k) # One
           /\ Plus(Plus(One, ResponseLen + k), 1) = Plus(One, ResponseLen + (k + 1))
<1>1. /\ SeqSpace \in Nat \ {0} /\ ResponseLen \in Nat /\ MaxDisconnects \in Nat
      /\ 0 < ResponseLen /\ ResponseLen + MaxDisconnects < SeqSpace
  BY TCPAssumption DEF NumbersSuffice
<1>2. One \in 0 .. SeqSpace - 1
  <2>1. Iss \in Int /\ 1 \in Int
    BY ConstantTypes
  <2>. QED
    BY <2>1, PlusType DEF One
<1>3. PICK o, n, x : o = One /\ n = SeqSpace /\ x = ResponseLen + k
  OBVIOUS
<1>4. o \in 0 .. n - 1 /\ x \in 1 .. n - 1 /\ n \in Nat \ {0} /\ x + 1 = ResponseLen + (k + 1)
  BY <1>1, <1>2, <1>3
<1>5. /\ Plus(o, x) = IF o + x < n THEN o + x ELSE o + x - n
      /\ Plus(o, x + 1) = IF o + (x + 1) < n THEN o + (x + 1) ELSE o + (x + 1) - n
  <2>1. o \in 0 .. n - 1 /\ x \in 0 .. n /\ x + 1 \in 0 .. n
    BY <1>4
  <2>. QED
    BY <1>3, <2>1, PlusWraps
<1>6. PICK p : p = Plus(o, x)
  OBVIOUS
<1>7. p \in 0 .. n - 1 /\ p # o
  BY <1>4, <1>5, <1>6
<1>8. Plus(p, 1) = IF p + 1 < n THEN p + 1 ELSE p + 1 - n
  <2>1. 1 \in 0 .. n
    BY <1>4
  <2>. QED
    BY <1>3, <1>7, <2>1, PlusWraps
<1>9. Plus(p, 1) = Plus(o, x + 1)
  BY <1>4, <1>5, <1>6, <1>7, <1>8
<1>. QED
  BY <1>3, <1>4, <1>6, <1>7, <1>9

\* No sum of payloads goes once round.
LEMMA FitsOnce ==
    ASSUME NEW m \in Nat, NEW n \in Nat \ {0}, NEW k \in 0 .. m, NEW x \in Nat,
           m * x <= k * (n - 1), k = 0 => x = 0
    PROVE  x < n
<1>1. CASE m = 0
  BY <1>1
<1>2. CASE m # 0
  <2>1. ASSUME n <= x PROVE FALSE
    <3>1. PICK d \in Nat : x = n + d
      <4>1. x - n \in Nat /\ x = n + (x - n)
        BY <2>1
      <4>. QED
        BY <4>1
    <3>2. PICK e \in Nat : m = k + e
      <4>1. m - k \in Nat /\ m = k + (m - k)
        OBVIOUS
      <4>. QED
        BY <4>1
    <3>3. m * x = m * n + m * d /\ m * n = k * n + e * n /\ k * (n - 1) = k * n - k
      BY <3>1, <3>2
    <3>4. m * d \in Nat /\ e * n \in Nat /\ k * n \in Nat /\ m * n \in Nat /\ e <= e * n
      BY <3>1, <3>2
    <3>5. k = 0 /\ e = 0
      BY <3>3, <3>4
    <3>. QED
      BY <1>2, <3>2, <3>5
  <2>. QED
    BY <2>1
<1>. QED
  BY <1>1, <1>2

\* Where the payloads start, and where the bytes behind them that count are.
LEMMA StartsFacts ==
    ASSUME NumbersSuffice, NEW sent \in Seq(Payloads), Len(sent) <= MaxSends,
           NEW b, Starts(b, sent)
    PROVE  /\ \A k \in 1 .. Len(sent) + 1 : b[k] \in 1 .. SeqSpace
           /\ \A k \in 1 .. Len(sent) :
                /\ sent[k].sig \in Nat /\ sent[k].sig # 0 /\ b[k] + sent[k].sig <= b[k + 1]
                /\ b[k] + sent[k].sig \in 1 .. SeqSpace
<1>1. Len(sent) \in Nat /\ MaxSends \in Nat /\ SeqSpace \in Nat \ {0}
  BY LenProperties, TCPAssumption
<1>2. ASSUME NEW k \in 1 .. Len(sent) + 1 PROVE b[k] \in 1 .. SeqSpace
  <2>1. PICK x, m, n, j : x = b[k] - 1 /\ m = MaxSends /\ n = SeqSpace /\ j = k - 1
    OBVIOUS
  <2>2. b[k] \in Nat /\ b[1] = 1 /\ MaxSends * (b[k] - 1) <= (k - 1) * (SeqSpace - 1)
        /\ \A i \in 1 .. k - 1 : b[i] < b[k]
    BY DEF Starts
  <2>3. k = 1 \/ 1 \in 1 .. k - 1
    BY <1>1
  <2>4. b[k] >= 1 /\ (k = 1 => b[k] = 1)
    BY <2>2, <2>3
  <2>5. x \in Nat /\ j \in 0 .. m /\ (j = 0 => x = 0) /\ m \in Nat /\ n \in Nat \ {0}
    BY <1>1, <2>1, <2>2, <2>4
  <2>6. m * x <= j * (n - 1)
    BY ONLY <2>1, <2>2
  <2>7. x < n
    BY ONLY <2>5, <2>6, FitsOnce
  <2>. QED
    BY <1>1, <2>1, <2>2, <2>4, <2>7
<1>3. ASSUME NEW k \in 1 .. Len(sent)
      PROVE  /\ sent[k].sig \in Nat /\ sent[k].sig # 0 /\ b[k] + sent[k].sig <= b[k + 1]
             /\ b[k] + sent[k].sig \in 1 .. SeqSpace
  <2>1. sent[k] \in Requests /\ b[k + 1] = b[k] + sent[k].len
    BY DEF Starts
  <2>2. /\ sent[k].sig \in Nat /\ sent[k].len \in Nat
        /\ 0 < sent[k].sig /\ sent[k].sig <= sent[k].len
    BY <2>1, ConstantTypes DEF NumbersSuffice
  <2>3. k \in 1 .. Len(sent) + 1 /\ k + 1 \in 1 .. Len(sent) + 1
    BY <1>1
  <2>4. b[k] \in 1 .. SeqSpace /\ b[k + 1] \in 1 .. SeqSpace
    BY <1>2, <2>3
  <2>. QED
    BY SMTT(30), <1>1, <2>1, <2>2, <2>4
<1>. QED
  BY <1>2, <1>3

\* The payload that starts with the byte behind those handed up is the next one.
LEMMA NextPayload ==
    ASSUME NumbersSuffice, NEW sent \in Seq(Payloads), Len(sent) <= MaxSends,
           NEW b, Starts(b, sent), NEW n \in 0 .. Len(sent), NEW k \in 1 .. Len(sent),
           At(b[k]) = At(Behind(b, sent, n))
    PROVE  k = n + 1
<1>1. Len(sent) \in Nat /\ SeqSpace \in Nat \ {0}
  BY LenProperties, TCPAssumption
<1>2. /\ \A j \in 1 .. Len(sent) + 1 : b[j] \in 1 .. SeqSpace
      /\ \A j \in 1 .. Len(sent) :
           /\ sent[j].sig \in Nat /\ sent[j].sig # 0 /\ b[j] + sent[j].sig <= b[j + 1]
           /\ b[j] + sent[j].sig \in 1 .. SeqSpace
  BY StartsFacts
<1>3. b[1] = 1 /\ \A j \in 1 .. Len(sent) + 1 : \A i \in 1 .. j - 1 : b[i] < b[j]
  BY DEF Starts
<1>4. PICK x, y : x = b[k] /\ y = Behind(b, sent, n)
  OBVIOUS
<1>5. y \in 1 .. SeqSpace
  <2>1. CASE n = 0
    BY <1>1, <1>4, <2>1 DEF Behind
  <2>2. CASE n # 0
    <3>1. n \in 1 .. Len(sent) /\ y = b[n] + sent[n].sig
      BY <1>1, <1>4, <2>2 DEF Behind
    <3>. QED
      BY <1>2, <3>1
  <2>. QED
    BY <2>1, <2>2
<1>6. x \in 1 .. SeqSpace
  <2>1. k \in 1 .. Len(sent) + 1
    BY <1>1
  <2>. QED
    BY <1>2, <1>4, <2>1
<1>7. x = y
  <2>1. x \in 0 .. SeqSpace /\ 0 < x
    BY <1>6
  <2>2. At(x) = At(y)
    BY <1>4
  <2>. QED
    BY <1>5, <2>1, <2>2, AtFacts
<1>8. CASE n = 0
  <2>1. b[k] = 1
    BY <1>4, <1>7, <1>8 DEF Behind
  <2>2. k = 1 \/ 1 \in 1 .. k - 1
    OBVIOUS
  <2>3. k \in 1 .. Len(sent) + 1
    BY <1>1
  <2>. QED
    BY <1>3, <1>8, <2>1, <2>2, <2>3
<1>9. CASE n # 0
  <2>1. n \in 1 .. Len(sent) /\ n + 1 \in 1 .. Len(sent) + 1 /\ k \in 1 .. Len(sent) + 1
        /\ n \in 1 .. Len(sent) + 1
    BY <1>1, <1>9
  <2>2. b[k] = b[n] + sent[n].sig
    BY <1>4, <1>7, <1>9 DEF Behind
  <2>3. b[n] < b[k] /\ b[k] <= b[n + 1]
    BY <1>2, <2>1, <2>2
  <2>4. ~(k < n + 1)
    <3>1. ASSUME k < n PROVE FALSE
      <4>1. k \in 1 .. n - 1
        BY <2>1, <3>1
      <4>2. b[k] < b[n]
        BY <1>3, <2>1, <4>1
      <4>. QED
        BY <1>2, <2>1, <2>3, <4>2
    <3>2. k # n
      BY <1>2, <2>1, <2>3
    <3>. QED
      BY <2>1, <3>1, <3>2
  <2>5. ~(n + 1 < k)
    <3>1. ASSUME n + 1 < k PROVE FALSE
      <4>1. n + 1 \in 1 .. k - 1
        BY <2>1, <3>1
      <4>2. b[n + 1] < b[k]
        BY <1>3, <2>1, <4>1
      <4>3. b[n + 1] \in Int /\ b[k] \in Int
        BY <1>2, <2>1
      <4>. QED
        BY <2>3, <4>2, <4>3
    <3>. QED
      BY <3>1
  <2>. QED
    BY <2>1, <2>4, <2>5
<1>. QED
  BY <1>8, <1>9

\* One more payload starts where the last one ended.
LEMMA StartsAppend ==
    ASSUME NumbersSuffice, NEW sent \in Seq(Payloads), Len(sent) < MaxSends,
           NEW b, Starts(b, sent), NEW data \in Requests
    PROVE  \E d : /\ Starts(d, Append(sent, data))
                  /\ \A k \in 1 .. Len(sent) + 1 : d[k] = b[k]
                  /\ d[Len(sent) + 2] = b[Len(sent) + 1] + data.len
<1>1. Len(sent) \in Nat /\ MaxSends \in Nat /\ SeqSpace \in Nat \ {0}
  BY LenProperties, TCPAssumption
<1>2. data \in Payloads /\ data.len \in Nat /\ 0 < data.len /\ MaxSends * data.len < SeqSpace
  <2>1. data \in Payloads /\ data.len \in Nat /\ data.sig \in Nat
    BY ConstantTypes
  <2>. QED
    BY <2>1 DEF NumbersSuffice
<1>3. PICK n, more : n = Len(sent) /\ more = Append(sent, data)
  OBVIOUS
<1>4. /\ n \in Nat /\ Len(more) = n + 1 /\ more[n + 1] = data
      /\ \A k \in 1 .. n : more[k] = sent[k]
  BY <1>1, <1>2, <1>3, AppendProperties
<1>. DEFINE d == [k \in 1 .. n + 2 |-> IF k = n + 2 THEN b[n + 1] + data.len ELSE b[k]]
<1>5. /\ b \in [1 .. n + 1 -> Nat] /\ b[1] = 1
      /\ \A k \in 1 .. n : sent[k] \in Requests /\ b[k + 1] = b[k] + sent[k].len
      /\ \A k \in 1 .. n + 1 : /\ MaxSends * (b[k] - 1) <= (k - 1) * (SeqSpace - 1)
                               /\ \A j \in 1 .. k - 1 : b[j] < b[k]
  BY <1>3 DEF Starts
<1>6. \A k \in 1 .. n + 1 : k \in 1 .. n + 2 /\ k # n + 2 /\ d[k] = b[k]
  BY <1>4
<1>7. n + 2 \in 1 .. n + 2 /\ n + 1 \in 1 .. n + 1 /\ 1 \in 1 .. n + 1
      /\ d[n + 2] = b[n + 1] + data.len
  BY <1>4
<1>8. d \in [1 .. n + 2 -> Nat]
  BY <1>2, <1>4, <1>5
<1>. HIDE DEF d
<1>9. ASSUME NEW k \in 1 .. n + 1
      PROVE  more[k] \in Requests /\ d[k + 1] = d[k] + more[k].len
  <2>1. CASE k = n + 1
    <3>1. k + 1 = n + 2
      BY <1>4, <2>1
    <3>. QED
      BY <1>4, <1>6, <1>7, <2>1, <3>1
  <2>2. CASE k # n + 1
    <3>1. k \in 1 .. n /\ k + 1 \in 1 .. n + 1
      BY <1>4, <2>2
    <3>. QED
      BY <1>4, <1>5, <1>6, <3>1
  <2>. QED
    BY <2>1, <2>2
<1>10. ASSUME NEW k \in 1 .. n + 2
       PROVE  /\ MaxSends * (d[k] - 1) <= (k - 1) * (SeqSpace - 1)
              /\ \A j \in 1 .. k - 1 : d[j] < d[k]
  <2>1. CASE k = n + 2
    <3>1. PICK m, x, l, s : m = MaxSends /\ x = b[n + 1] /\ l = data.len /\ s = SeqSpace
      OBVIOUS
    <3>2. m \in Nat /\ x \in Nat /\ l \in Nat /\ s \in Nat \ {0} /\ m * l < s
          /\ m * (x - 1) <= ((n + 1) - 1) * (s - 1) /\ n \in Nat
      BY <1>1, <1>2, <1>4, <1>5, <1>7, <3>1
    <3>3. m * ((x + l) - 1) = m * (x - 1) + m * l
      BY <3>2
    <3>4. ((n + 2) - 1) * (s - 1) = ((n + 1) - 1) * (s - 1) + (s - 1)
      BY <3>2
    <3>5. m * (x - 1) \in Int /\ m * l \in Int /\ ((n + 1) - 1) * (s - 1) \in Int
      BY <3>2
    <3>6. m * ((x + l) - 1) <= ((n + 2) - 1) * (s - 1)
      BY <3>2, <3>3, <3>4, <3>5
    <3>7. d[k] = x + l
      BY <1>7, <2>1, <3>1
    <3>8. MaxSends * (d[k] - 1) <= (k - 1) * (SeqSpace - 1)
      BY ONLY <2>1, <3>1, <3>6, <3>7
    <3>9. ASSUME NEW j \in 1 .. k - 1 PROVE d[j] < d[k]
      <4>1. j \in 1 .. n + 1 /\ (j = n + 1 \/ j \in 1 .. (n + 1) - 1)
        BY <1>4, <2>1
      <4>2. d[j] = b[j] /\ b[j] \in Nat /\ (j = n + 1 => b[j] = x)
        BY <1>5, <1>6, <3>1, <4>1
      <4>3. j \in 1 .. (n + 1) - 1 => b[j] < x
        BY <1>5, <1>7, <3>1
      <4>4. b[j] <= x
        BY <3>2, <4>1, <4>2, <4>3
      <4>. QED
        BY SMTT(30), <1>2, <3>1, <3>2, <3>7, <4>2, <4>4
    <3>. QED
      BY <3>8, <3>9
  <2>2. CASE k # n + 2
    <3>1. k \in 1 .. n + 1 /\ \A j \in 1 .. k - 1 : j \in 1 .. n + 1
      BY <1>4, <2>2
    <3>2. d[k] = b[k] /\ \A j \in 1 .. k - 1 : d[j] = b[j]
      BY <1>6, <3>1
    <3>. QED
      BY <1>5, <3>1, <3>2
  <2>. QED
    BY <2>1, <2>2
<1>11. Starts(d, more)
  <2>1. Len(more) + 1 = n + 2
    BY <1>4
  <2>2. d[1] = 1
    BY <1>5, <1>6, <1>7
  <2>. QED
    BY <1>4, <1>8, <1>9, <1>10, <2>1, <2>2 DEF Starts
<1>. QED
  BY <1>3, <1>6, <1>7, <1>11
-----------------------------------------------------------------------------
(* What a segment g does to a socket, old before and s after, that sends O. *)

Opens(g, old, s, O) ==
    /\ "SYN" \in g.flags /\ s.state = "SYN_RECEIVED" /\ s.ack = Plus(g.seq, 1) /\ s.seq = One
    /\ s.got = old.got /\ s.sent = old.sent
    /\ \A y \in O : y.seq = Iss /\ "PSH" \notin y.flags

IsOpened(g, old, s, O) ==
    /\ "SYN" \in g.flags /\ old.state = "SYN_SENT" /\ s.state = "ESTABLISHED"
    /\ s.ack = Plus(g.seq, 1) /\ s.seq = Plus(old.seq, 1)
    /\ s.got = old.got /\ s.sent = old.sent /\ s.fins = old.fins
    /\ \A y \in O : "SYN" \notin y.flags /\ "PSH" \notin y.flags

\* Nothing is handed up and no data sent.
GoesOn(old, s, O) ==
    /\ s.got = old.got /\ s.sent = old.sent /\ s.fins = old.fins
    /\ s.state \in Taking => old.state \in Taking /\ s.ack = old.ack
    /\ \/ s.ack = old.ack
       \/ old.state \in Taking /\ s.ack = Plus(old.ack, 1)    \* a FIN is counted
    /\ s.state \in Early => old.state \in Early /\ s.seq = old.seq
    /\ s.state = "SYN_SENT" => old.state = "SYN_SENT" /\ s.seq = old.seq
    /\ \A y \in O : "SYN" \notin y.flags /\ "PSH" \notin y.flags

IsHandedUp(g, old, s) ==
    /\ "PSH" \in g.flags /\ g.seq = old.ack
    /\ old.state \in Taking /\ s.state \in Taking
    /\ s.ack = Plus(old.ack, Advance(g.data))
    /\ s.got = Append(old.got, [seq |-> g.seq, data |-> g.data])

TakesText(g, old, s, O) ==
    /\ IsHandedUp(g, old, s)
    /\ s.state = old.state /\ s.seq = old.seq /\ s.sent = old.sent /\ s.fins = old.fins
    /\ \A y \in O : "SYN" \notin y.flags /\ "PSH" \notin y.flags

TakesRequest(g, old, s, O) ==
    /\ IsHandedUp(g, old, s)
    /\ g.data.get /\ old.state = "ESTABLISHED" /\ s.state = "FIN_WAIT1"
    /\ s.sent = Append(old.sent, Response)
    /\ \A y \in O : /\ "SYN" \notin y.flags
                    /\ "PSH" \in y.flags => y.seq = old.seq /\ y.data = Response

\* Segments that are no longer there do not matter.
LEMMA InStepSubset ==
    ASSUME NEW b, NEW c, NEW S, NEW Q, NEW R, InStep(b, c, S, Q, R),
           NEW Q2 \in SUBSET Q, NEW R2 \in SUBSET R
    PROVE  InStep(b, c, S, Q2, R2)
BY DEF InStep

\* A listening socket takes the SYN of a client that has no socket here yet.
LEMMA ServerOpens ==
    ASSUME NEW b, NEW c, NEW Q, NEW R, InStep(b, c, {}, Q, R),
           NEW g \in Q, NEW old, old.got = << >>, old.sent = << >>,
           NEW s, NEW O, Opens(g, old, s, O)
    PROVE  InStep(b, c, {s}, Q, R \cup O)
<1>1. g.seq = Iss
  BY DEF InStep, ToServerInStep, Opens
<1>2. Len(s.got) = 0 /\ s.ack = At(1)
  BY <1>1 DEF Opens, At
<1>3. ServerInStep(b, c.sent, s)
  <2>1. Len(s.got) <= Len(c.sent)
    BY <1>2
  <2>. QED
    BY <1>2, <2>1 DEF ServerInStep, Opens, Behind
<1>4. \A x \in R \cup O : ToClientInStep(x, {s})
  BY DEF InStep, ToClientInStep, Answered, Opens
<1>5. ClientInStep(b, c, {s})
  BY DEF InStep, ClientInStep, Answered
<1>. QED
  BY <1>3, <1>4, <1>5 DEF InStep

\* The server's socket goes on.
LEMMA ServerGoesOn ==
    ASSUME NEW b, NEW c, NEW old, NEW Q, NEW R, InStep(b, c, {old}, Q, R),
           NEW s, NEW O, GoesOn(old, s, O)
    PROVE  InStep(b, c, {s}, Q, R \cup O)
<1>1. Answered({old}) => Answered({s})
  BY DEF Answered, GoesOn
<1>2. ServerInStep(b, c.sent, s)
  BY DEF InStep, ServerInStep, GoesOn
<1>3. \A x \in R \cup O : ToClientInStep(x, {s})
  BY <1>1 DEF InStep, ToClientInStep, GoesOn
<1>4. ClientInStep(b, c, {s})
  BY <1>1 DEF InStep, ClientInStep
<1>. QED
  BY <1>2, <1>3, <1>4 DEF InStep

\* What the server's socket is handed up is the next payload.
LEMMA ServerIsHandedUp ==
    ASSUME NumbersSuffice, NEW c \in Socket, NEW old \in Socket,
           NEW b, NEW Q, NEW R, InStep(b, c, {old}, Q, R),
           NEW g \in Q, g \in Segment, NEW s, IsHandedUp(g, old, s)
    PROVE  /\ Len(s.got) <= Len(c.sent) /\ \A n \in 1 .. Len(s.got) : s.got[n].data = c.sent[n]
           /\ s.ack = At(Behind(b, c.sent, Len(s.got)))
<1>1. PICK sent, got, more, n : /\ sent = c.sent /\ got = old.got /\ more = s.got
                                /\ n = Len(old.got)
  OBVIOUS
<1>2. /\ sent \in Seq(Payloads) /\ got \in Seq([seq : 0 .. SeqSpace - 1, data : Payloads])
      /\ n \in Nat /\ Len(sent) \in Nat /\ Len(sent) <= MaxSends
  BY <1>1, SocketFields, LenProperties DEF InStep, ClientInStep
<1>3. /\ Starts(b, sent) /\ n <= Len(sent)
      /\ \A k \in 1 .. n : got[k].data = sent[k]
      /\ old.ack = At(Behind(b, sent, n))
  BY <1>1 DEF InStep, ServerInStep, IsHandedUp
<1>4. PICK k \in 1 .. Len(sent) : g.seq = At(b[k]) /\ g.data = sent[k]
  BY <1>1 DEF InStep, ToServerInStep, IsHandedUp
<1>5. old.ack = At(b[k])
  BY <1>4 DEF IsHandedUp
<1>6. k = n + 1
  <2>1. n \in 0 .. Len(sent)
    BY <1>2, <1>3
  <2>. QED
    BY <1>2, <1>3, <1>5, <2>1, NextPayload
<1>7. PICK item : item = [seq |-> g.seq, data |-> g.data]
  OBVIOUS
<1>8. item \in [seq : 0 .. SeqSpace - 1, data : Payloads] /\ item.data = sent[k]
  BY <1>4, <1>7 DEF Segment
<1>9. /\ Len(more) = k /\ more[k] = item
      /\ \A j \in 1 .. n : more[j] = got[j]
  <2>1. more = Append(got, item)
    BY <1>1, <1>7 DEF IsHandedUp
  <2>. QED
    BY <1>1, <1>2, <1>6, <1>8, <2>1, AppendProperties
<1>10. ASSUME NEW j \in 1 .. Len(more) PROVE more[j].data = sent[j]
  <2>1. j = k \/ j \in 1 .. n
    BY <1>2, <1>6, <1>9
  <2>. QED
    BY <1>3, <1>8, <1>9, <2>1
<1>11. s.ack = At(b[k] + sent[k].sig)
  <2>1. k \in 1 .. Len(sent) + 1
    BY <1>2
  <2>2. /\ b[k] \in 1 .. SeqSpace /\ sent[k].sig \in Nat /\ sent[k].sig # 0
        /\ b[k] + sent[k].sig \in 1 .. SeqSpace
    BY <1>2, <1>3, <2>1, StartsFacts
  <2>3. s.ack = Plus(At(b[k]), sent[k].sig)
    BY <1>4, <1>5, <2>2 DEF IsHandedUp, Advance
  <2>4. b[k] \in 0 .. SeqSpace /\ sent[k].sig \in 0 .. SeqSpace - b[k]
    <3>1. PICK x, y, space : x = b[k] /\ y = sent[k].sig /\ space = SeqSpace
      OBVIOUS
    <3>2. /\ space \in Nat \ {0} /\ x \in 1 .. space
          /\ y \in Nat /\ y # 0 /\ x + y \in 1 .. space
      BY <2>2, <3>1, TCPAssumption
    <3>3. x \in 0 .. space /\ y \in 0 .. space - x
      BY ONLY <3>2
    <3>. QED
      BY ONLY <3>1, <3>3
  <2>. QED
    BY <2>3, <2>4, AtFacts
<1>12. Behind(b, sent, Len(more)) = b[k] + sent[k].sig
  BY <1>2, <1>6, <1>9 DEF Behind
<1>. QED
  BY <1>1, <1>9, <1>10, <1>11, <1>12

\* Text that the server's handler prints.
LEMMA ServerTakesText ==
    ASSUME NumbersSuffice, NEW c \in Socket, NEW old \in Socket,
           NEW b, NEW Q, NEW R, InStep(b, c, {old}, Q, R),
           NEW g \in Q, g \in Segment, NEW s, NEW O, TakesText(g, old, s, O)
    PROVE  InStep(b, c, {s}, Q, R \cup O)
<1>1. Answered({old}) => Answered({s})
  BY DEF Answered, TakesText
<1>2. /\ Len(s.got) <= Len(c.sent) /\ \A n \in 1 .. Len(s.got) : s.got[n].data = c.sent[n]
      /\ s.ack = At(Behind(b, c.sent, Len(s.got)))
  <2>1. IsHandedUp(g, old, s)
    BY DEF TakesText
  <2>. QED
    BY <2>1, ServerIsHandedUp
<1>3. ServerInStep(b, c.sent, s)
  BY <1>2 DEF InStep, ServerInStep, TakesText
<1>4. \A x \in R \cup O : ToClientInStep(x, {s})
  BY <1>1 DEF InStep, ToClientInStep, TakesText
<1>5. ClientInStep(b, c, {s})
  BY <1>1 DEF InStep, ClientInStep
<1>. QED
  BY <1>3, <1>4, <1>5 DEF InStep

\* A request, the first and only one that is answered.
LEMMA ServerTakesRequest ==
    ASSUME NumbersSuffice, NEW c \in Socket, NEW old \in Socket,
           NEW b, NEW Q, NEW R, InStep(b, c, {old}, Q, R),
           NEW g \in Q, g \in Segment, NEW s, NEW O, TakesRequest(g, old, s, O)
    PROVE  InStep(b, c, {s}, Q, R \cup O)
<1>1. old.seq = One /\ old.sent = << >>
  BY DEF InStep, ServerInStep, TakesRequest, Early
<1>2. s.sent = <<Response>> /\ Answered({s})
  BY <1>1 DEF TakesRequest, Answered
<1>3. /\ Len(s.got) <= Len(c.sent) /\ \A n \in 1 .. Len(s.got) : s.got[n].data = c.sent[n]
      /\ s.ack = At(Behind(b, c.sent, Len(s.got)))
  <2>1. IsHandedUp(g, old, s)
    BY DEF TakesRequest
  <2>. QED
    BY <2>1, ServerIsHandedUp
<1>4. ServerInStep(b, c.sent, s)
  BY <1>2, <1>3 DEF ServerInStep, TakesRequest, Early
<1>5. \A x \in R \cup O : ToClientInStep(x, {s})
  BY <1>1, <1>2 DEF InStep, ToClientInStep, TakesRequest
<1>6. ClientInStep(b, c, {s})
  BY <1>2 DEF InStep, ClientInStep
<1>. QED
  BY <1>4, <1>5, <1>6 DEF InStep

\* The SYN and ACK open the client's socket.
LEMMA ClientIsOpened ==
    ASSUME NEW c, NEW S, NEW b, NEW Q, NEW R, InStep(b, c, S, Q, R),
           NEW g \in R, NEW d, NEW O, IsOpened(g, c, d, O)
    PROVE  InStep(b, d, S, Q \cup O, R)
<1>1. c.seq = Iss /\ c.sent = << >> /\ c.got = << >> /\ b[1] = 1 /\ g.seq = Iss
  BY DEF InStep, ClientInStep, IsOpened, Starts, ToClientInStep
<1>2. d.seq = At(b[Len(d.sent) + 1])
  <2>1. Len(d.sent) + 1 = 1
    BY <1>1 DEF IsOpened
  <2>. QED
    BY <1>1, <2>1 DEF IsOpened, At
<1>3. ClientInStep(b, d, S)
  BY <1>1, <1>2 DEF InStep, ClientInStep, IsOpened
<1>4. d.sent = c.sent
  BY DEF IsOpened
<1>5. \A x \in Q \cup O : ToServerInStep(b, d.sent, x)
  BY <1>4 DEF InStep, ToServerInStep, IsOpened
<1>. QED
  BY <1>3, <1>4, <1>5 DEF InStep

\* The client's socket goes on.
LEMMA ClientGoesOn ==
    ASSUME NumbersSuffice, NEW c \in Socket, NEW S, NEW b, NEW Q, NEW R,
           InStep(b, c, S, Q, R), c.state # "SYN_RECEIVED", NEW d, NEW O, GoesOn(c, d, O)
    PROVE  InStep(b, d, S, Q \cup O, R)
<1>0. ASSUME d.got # << >> PROVE PastAnswer(d)
  <2>1. PICK k \in 0 .. c.fins + 1 : /\ c.ack = Plus(One, ResponseLen + k)
                                     /\ c.state \in Taking => k <= c.fins
    BY <1>0 DEF InStep, ClientInStep, GoesOn, PastAnswer
  <2>2. c.fins \in Nat /\ c.fins <= MaxDisconnects /\ d.fins = c.fins
        /\ MaxDisconnects \in Nat
    BY SocketFields, TCPAssumption DEF InStep, ClientInStep, GoesOn
  <2>3. CASE d.ack = c.ack
    <3>1. d.state \in Taking => k <= d.fins
      BY <2>1, <2>2 DEF GoesOn
    <3>. QED
      BY <2>1, <2>2, <2>3, <3>1 DEF PastAnswer
  <2>4. CASE d.ack # c.ack
    <3>1. c.state \in Taking /\ d.ack = Plus(c.ack, 1) /\ d.state \notin Taking
      BY <2>4 DEF GoesOn
    <3>2. k \in 0 .. MaxDisconnects /\ k + 1 \in 0 .. d.fins + 1
      BY <2>1, <2>2, <3>1
    <3>3. d.ack = Plus(One, ResponseLen + (k + 1))
      BY <2>1, <3>1, <3>2, BehindAnswer
    <3>. QED
      BY <3>1, <3>2, <3>3 DEF PastAnswer
  <2>. QED
    BY <2>3, <2>4
<1>1. ClientInStep(b, d, S)
  BY <1>0 DEF InStep, ClientInStep, GoesOn, Early
<1>2. d.sent = c.sent
  BY DEF GoesOn
<1>3. \A x \in Q \cup O : ToServerInStep(b, d.sent, x)
  BY <1>2 DEF InStep, ToServerInStep, GoesOn
<1>. QED
  BY <1>1, <1>2, <1>3 DEF InStep

\* The client disconnects, in whatever state it is.
LEMMA ClientLeavesInStep ==
    ASSUME NEW c \in Socket, NEW S, NEW b, NEW Q, NEW R, InStep(b, c, S, Q, R),
           NEW d, d.state = "FIN_WAIT1", d.ack = c.ack, d.got = c.got, d.sent = c.sent,
           d.fins = c.fins + 1, c.fins < MaxDisconnects,
           NEW O, \A y \in O : "SYN" \notin y.flags /\ "PSH" \notin y.flags
    PROVE  InStep(b, d, S, Q \cup O, R)
<1>1. c.fins \in Nat /\ MaxDisconnects \in Nat
  BY SocketFields, TCPAssumption
<1>2. ASSUME d.got # << >> PROVE PastAnswer(d)
  <2>1. PICK k \in 0 .. c.fins + 1 : c.ack = Plus(One, ResponseLen + k)
    BY <1>2 DEF InStep, ClientInStep, PastAnswer
  <2>2. k \in 0 .. d.fins + 1 /\ k <= d.fins
    BY <1>1
  <2>. QED
    BY <2>1, <2>2 DEF PastAnswer
<1>3. d.fins <= MaxDisconnects
  BY <1>1
<1>4. ClientInStep(b, d, S)
  BY <1>2, <1>3 DEF InStep, ClientInStep
<1>5. \A x \in Q \cup O : ToServerInStep(b, d.sent, x)
  BY DEF InStep, ToServerInStep
<1>6. InStep(b, c, S, Q, R) /\ d.sent = c.sent
  OBVIOUS
<1>. QED
  BY ONLY <1>4, <1>5, <1>6 DEF InStep

\* The client is handed the answer, once.
LEMMA ClientTakesText ==
    ASSUME NumbersSuffice, NEW c \in Socket, NEW S,
           NEW b, NEW Q, NEW R, InStep(b, c, S, Q, R),
           NEW g \in R, g \in Segment, NEW d, NEW O, TakesText(g, c, d, O)
    PROVE  InStep(b, d, S, Q \cup O, R)
<1>1. g.seq = One /\ g.data = Response /\ Answered(S) /\ g.seq = c.ack
  BY DEF InStep, ToClientInStep, TakesText, IsHandedUp
<1>2. ResponseLen \in 1 .. SeqSpace - 1 /\ Response.sig = ResponseLen
      /\ SeqSpace \in Nat \ {0}
  BY TCPAssumption DEF NumbersSuffice, Response
<1>3. c.fins \in Nat /\ MaxDisconnects \in Nat /\ c.fins <= MaxDisconnects
  BY SocketFields, TCPAssumption DEF InStep, ClientInStep
<1>5. c.got = << >>
  <2>1. ASSUME c.got # << >> PROVE FALSE
    <3>1. c.state \in Taking
      BY DEF TakesText, IsHandedUp
    <3>2. PICK k \in 0 .. c.fins + 1 : c.ack = Plus(One, ResponseLen + k) /\ k <= c.fins
      BY <2>1, <3>1 DEF InStep, ClientInStep, PastAnswer
    <3>3. k \in 0 .. MaxDisconnects
      BY <1>3, <3>2
    <3>. QED
      BY <1>1, <3>2, <3>3, BehindAnswer
  <2>. QED
    BY <2>1
<1>6. d.got = <<[seq |-> g.seq, data |-> g.data]>>
  BY <1>5 DEF TakesText, IsHandedUp
<1>7. d.got # << >> /\ Len(d.got) = 1 /\ d.got[1].data = Response
  <2>1. PICK item : item = [seq |-> g.seq, data |-> g.data]
    OBVIOUS
  <2>2. item.data = Response /\ d.got = <<item>>
    BY <1>1, <1>6, <2>1
  <2>3. <<item>> # << >> /\ Len(<<item>>) = 1 /\ <<item>>[1] = item
    OBVIOUS
  <2>. QED
    BY <2>2, <2>3
<1>8. PastAnswer(d)
  <2>1. Advance(g.data) = ResponseLen + 0
    BY <1>1, <1>2 DEF Advance
  <2>2. d.ack = Plus(One, ResponseLen + 0)
    BY <1>1, <2>1 DEF TakesText, IsHandedUp
  <2>3. d.fins = c.fins /\ 0 \in 0 .. c.fins + 1 /\ 0 <= c.fins
    BY <1>3 DEF TakesText
  <2>. QED
    BY <2>2, <2>3 DEF PastAnswer
<1>9. ClientInStep(b, d, S)
  <2>1. d.state # "SYN_SENT"
    BY DEF TakesText, IsHandedUp, Taking
  <2>2. d.sent = c.sent /\ d.seq = c.seq /\ d.state = c.state /\ d.fins = c.fins
    BY DEF TakesText
  <2>3. Len(c.sent) <= MaxSends /\ (c.state = "ESTABLISHED" => c.seq = At(b[Len(c.sent) + 1]))
    BY DEF InStep, ClientInStep
  <2>. QED
    BY <1>1, <1>3, <1>7, <1>8, <2>1, <2>2, <2>3 DEF ClientInStep
<1>10. d.sent = c.sent
  BY DEF TakesText
<1>11. \A x \in Q \cup O : ToServerInStep(b, d.sent, x)
  BY <1>10 DEF InStep, ToServerInStep, TakesText
<1>. QED
  BY <1>9, <1>10, <1>11 DEF InStep

\* The client sends one more payload.
LEMMA ClientSendsMore ==
    ASSUME NumbersSuffice, NEW c \in Socket, NEW S, S \subseteq Socket,
           NEW b, NEW Q, NEW R, InStep(b, c, S, Q, R),
           NEW data \in Requests, c.state = "ESTABLISHED", Len(c.sent) < MaxSends,
           NEW d, d.state = c.state, d.ack = c.ack, d.got = c.got, d.fins = c.fins,
           d.seq = Plus(c.seq, data.len), d.sent = Append(c.sent, data),
           NEW O, \A y \in O : "SYN" \notin y.flags /\ y.seq = c.seq /\ y.data = data
    PROVE  \E e : InStep(e, d, S, Q \cup O, R)
<1>1. PICK sent, more, n : sent = c.sent /\ more = d.sent /\ n = Len(sent)
  OBVIOUS
<1>2. sent \in Seq(Payloads) /\ n \in Nat /\ n < MaxSends /\ Starts(b, sent)
  BY <1>1, SocketFields, LenProperties DEF InStep
<1>3. data \in Payloads /\ data.len \in Nat
  BY ConstantTypes
<1>4. /\ Len(more) = n + 1 /\ more[n + 1] = data
      /\ \A k \in 1 .. n : more[k] = sent[k]
  BY <1>1, <1>2, <1>3, AppendProperties
<1>5. PICK e : /\ Starts(e, more) /\ \A k \in 1 .. n + 1 : e[k] = b[k]
               /\ e[n + 2] = b[n + 1] + data.len
  <2>1. \E e : /\ Starts(e, Append(sent, data)) /\ \A k \in 1 .. Len(sent) + 1 : e[k] = b[k]
                /\ e[Len(sent) + 2] = b[Len(sent) + 1] + data.len
    <3>1. sent \in Seq(Payloads) /\ Len(sent) < MaxSends /\ Starts(b, sent)
      BY <1>1, <1>2
    <3>. QED
      BY ONLY <3>1, NumbersSuffice, data \in Requests, StartsAppend
  <2>2. Append(sent, data) = more /\ Len(sent) = n
    BY <1>1
  <2>. QED
    BY ONLY <2>1, <2>2
<1>6. c.seq = At(b[n + 1])
  BY <1>1 DEF InStep, ClientInStep
<1>7. d.seq = At(e[Len(more) + 1])
  <2>1. MaxSends \in Nat /\ SeqSpace \in Nat \ {0}
    BY TCPAssumption
  <2>2. /\ Len(more) <= MaxSends /\ more \in Seq(Payloads)
        /\ n + 1 \in 1 .. Len(more) + 1 /\ n + 2 \in 1 .. Len(more) + 1
    BY <1>1, <1>2, <1>3, <1>4, <2>1, AppendProperties
  <2>3. e[n + 1] \in 1 .. SeqSpace /\ e[n + 2] \in 1 .. SeqSpace
    BY <1>5, <2>2, StartsFacts
  <2>4. n + 1 \in 1 .. n + 1
    BY <1>2
  <2>5. PICK x, l : x = b[n + 1] /\ l = data.len
    OBVIOUS
  <2>6. e[n + 1] = x /\ e[n + 2] = x + l
    BY <1>5, <2>4, <2>5
  <2>7. x \in 0 .. SeqSpace /\ l \in 0 .. SeqSpace - x
    BY <1>3, <2>1, <2>3, <2>5, <2>6
  <2>8. Plus(At(x), l) = At(x + l)
    BY <2>7, AtFacts
  <2>9. Len(more) + 1 = n + 2
    BY <1>2, <1>4
  <2>. QED
    BY <1>6, <2>5, <2>6, <2>8, <2>9
<1>8. ClientInStep(e, d, S)
  <2>1. Len(d.sent) <= MaxSends
    BY <1>1, <1>2, <1>4, TCPAssumption
  <2>. QED
    BY <1>1, <1>7, <2>1 DEF InStep, ClientInStep, PastAnswer
<1>9. ASSUME NEW s \in S PROVE ServerInStep(e, d.sent, s)
  <2>1. ServerInStep(b, sent, s)
    BY <1>1 DEF InStep
  <2>2. PICK m : m = Len(s.got)
    OBVIOUS
  <2>3. m <= n /\ \A k \in 1 .. m : s.got[k].data = sent[k]
    BY <1>1, <2>1, <2>2 DEF ServerInStep
  <2>4. m \in Nat
    BY <2>2, SocketFields, LenProperties
  <2>5. ServerInStep(e, d.sent, s)
    <3>1. \A k \in 1 .. m : k \in 1 .. n /\ k \in 1 .. n + 1
      BY <1>2, <2>3, <2>4
    <3>2. \A k \in 1 .. m : s.got[k].data = more[k]
      BY <1>4, <2>3, <3>1
    <3>3. Behind(e, more, m) = Behind(b, sent, m)
      <4>1. m = 0 \/ m \in 1 .. m
        BY <2>4
      <4>. QED
        BY <1>4, <1>5, <3>1, <4>1 DEF Behind
    <3>4. m <= Len(more)
      BY <1>2, <1>4, <2>3, <2>4
    <3>. QED
      BY <1>1, <2>1, <2>2, <3>2, <3>3, <3>4 DEF ServerInStep
  <2>. QED
    BY <2>5
<1>10. ASSUME NEW x \in Q PROVE ToServerInStep(e, d.sent, x)
  <2>1. ToServerInStep(b, sent, x)
    BY <1>1 DEF InStep
  <2>2. \A k \in 1 .. n : /\ k \in 1 .. Len(more) /\ more[k] = sent[k]
                          /\ k \in 1 .. n + 1 /\ e[k] = b[k]
    BY <1>2, <1>4, <1>5
  <2>. QED
    BY <1>1, <2>1, <2>2 DEF ToServerInStep
<1>11. ASSUME NEW x \in O PROVE ToServerInStep(e, d.sent, x)
  <2>1. n + 1 \in 1 .. Len(more) /\ n + 1 \in 1 .. n + 1
    BY <1>2, <1>4
  <2>2. x.seq = At(e[n + 1]) /\ x.data = more[n + 1]
    BY <1>4, <1>5, <1>6, <2>1
  <2>. QED
    BY <1>1, <2>1, <2>2 DEF ToServerInStep
<1>12. Starts(e, d.sent)
  BY <1>1, <1>5
<1>. QED
  BY <1>8, <1>9, <1>10, <1>11, <1>12 DEF InStep

\* What is sent at once.
LEMMA SentAtOnce ==
    /\ << >> \in Seq(Segment) /\ Elements(<< >>) = {}
    /\ \A a \in Segment : <<a>> \in Seq(Segment) /\ Elements(<<a>>) = {a}
    /\ \A a, b \in Segment : <<a, b>> \in Seq(Segment) /\ Elements(<<a, b>>) = {a, b}
    /\ \A a, b, c \in Segment :
         <<a, b, c>> \in Seq(Segment) /\ Elements(<<a, b, c>>) = {a, b, c}
<1>0. (\A k \in 1 .. 0 : FALSE) /\ (\A k \in 1 .. 1 : k = 1)
      /\ (\A k \in 1 .. 2 : k = 1 \/ k = 2) /\ (\A k \in 1 .. 3 : k = 1 \/ k = 2 \/ k = 3)
      /\ 1 \in 1 .. 1 /\ {1, 2} \subseteq 1 .. 2 /\ {1, 2, 3} \subseteq 1 .. 3
  OBVIOUS
<1>1. << >> \in Seq(Segment) /\ Elements(<< >>) = {}
  <2>1. << >> \in Seq(Segment) /\ Len(<< >>) = 0
    OBVIOUS
  <2>. QED
    BY <1>0, <2>1 DEF Elements
<1>2. ASSUME NEW a \in Segment PROVE <<a>> \in Seq(Segment) /\ Elements(<<a>>) = {a}
  <2>1. <<a>> \in Seq(Segment) /\ Len(<<a>>) = 1 /\ <<a>>[1] = a
    OBVIOUS
  <2>. QED
    BY <1>0, <2>1 DEF Elements
<1>3. ASSUME NEW a \in Segment, NEW b \in Segment
      PROVE  <<a, b>> \in Seq(Segment) /\ Elements(<<a, b>>) = {a, b}
  <2>1. <<a, b>> \in Seq(Segment) /\ Len(<<a, b>>) = 2 /\ <<a, b>>[1] = a /\ <<a, b>>[2] = b
    OBVIOUS
  <2>. QED
    BY <1>0, <2>1 DEF Elements
<1>4. ASSUME NEW a \in Segment, NEW b \in Segment, NEW c \in Segment
      PROVE  <<a, b, c>> \in Seq(Segment) /\ Elements(<<a, b, c>>) = {a, b, c}
  <2>1. /\ <<a, b, c>> \in Seq(Segment) /\ Len(<<a, b, c>>) = 3
        /\ <<a, b, c>>[1] = a /\ <<a, b, c>>[2] = b /\ <<a, b, c>>[3] = c
    OBVIOUS
  <2>. QED
    BY <1>0, <2>1 DEF Elements
<1>. QED
  BY <1>1, <1>2, <1>3, <1>4

\* What the handler makes of socket old: s, which sends out.
Changes(g, old, s, out) ==
    /\ s \in Socket /\ out \in Seq(Segment) /\ s.lport = old.lport /\ s.state # "LISTEN"
    /\ \A y \in Elements(out) : y.sport = s.lport /\ y.dport = s.rport
    /\ \/ old.state = "LISTEN" /\ s.rport = g.sport /\ Opens(g, old, s, Elements(out))
       \/ /\ old.state # "LISTEN" /\ s.rport = old.rport
          /\ \/ IsOpened(g, old, s, Elements(out)) \/ GoesOn(old, s, Elements(out))
             \/ TakesText(g, old, s, Elements(out)) \/ TakesRequest(g, old, s, Elements(out))

\* What socket t sends without data.
LEMMA Answer ==
    ASSUME NEW t \in Socket, NEW flags \in {{"RST"}, {"ACK"}, {"FIN", "ACK"}}, NEW a,
           a = Out(t, flags, NoData)
    PROVE  /\ a \in Segment /\ a.sport = t.lport /\ a.dport = t.rport
           /\ "SYN" \notin a.flags /\ "PSH" \notin a.flags
<1>1. flags \in SUBSET {"SYN", "ACK", "FIN", "RST", "PSH"} /\ NoData \in Payloads
  BY ConstantTypes
<1>. QED
  BY <1>1, OutType

\* What the handler does with any segment that finds a socket.
LEMMA HandlerDoes ==
    ASSUME NEW h \in Hosts, NEW g \in Segment, NEW rest, NEW i, i = SocketFor(h, g), i # 0,
           NEW old \in Socket, old = sockets[h][i],
           old.state = "LISTEN" => g.flags = {"SYN"},
           IsData(g, old) /\ "RST" \notin g.flags => "PSH" \in g.flags /\ old.state \in Taking,
           Handle(h, g, rest)
    PROVE  \/ net' = [net EXCEPT ![h] = rest] /\ UNCHANGED sockets
           \/ \E s, out : Changes(g, old, s, out) /\ Becomes(h, rest, i, s, out)
<1>. DEFINE Goal == \E s, out : Changes(g, old, s, out) /\ Becomes(h, rest, i, s, out)
<1>. SUFFICES ASSUME ~(net' = [net EXCEPT ![h] = rest] /\ UNCHANGED sockets) PROVE Goal
  OBVIOUS
<1>. HIDE DEF Goal
<1>1. /\ old.seq \in Int /\ old.ack \in Int /\ g.seq \in Int /\ Iss \in Int /\ 1 \in Int
      /\ Iss \in 0 .. SeqSpace - 1 /\ g.sport \in Ports /\ old.state \in States
  BY ConstantTypes, SocketFields DEF Segment
<1>2. /\ Plus(old.ack, 1) \in 0 .. SeqSpace - 1 /\ Plus(g.seq, 1) \in 0 .. SeqSpace - 1
      /\ Plus(Iss, 1) \in 0 .. SeqSpace - 1 /\ Plus(old.seq, 1) \in 0 .. SeqSpace - 1
  BY <1>1, PlusType
<1>3. ~Ignores(h, rest)
  BY DEF Ignores
<1>4. \/ RstArrives(h, g, rest, i)
      \/ "RST" \notin g.flags
         /\ \/ SynArrives(h, g, rest, i) \/ SynAckArrives(h, g, rest, i)
            \/ FinArrives(h, g, rest, i) \/ AckArrives(h, g, rest, i)
            \/ PlainAckArrives(h, g, rest, i) \/ TextArrives(h, g, rest, i)
            \/ RequestArrives(h, g, rest, i) \/ RequestSpins(h, g, rest, i)
            \/ IsRefused(h, g, rest, i)
  BY <1>3 DEF Handle
<1>5. CASE SynArrives(h, g, rest, i)
  <2>. DEFINE t == [old EXCEPT !.state = "SYN_RECEIVED", !.rport = g.sport,
                               !.ack = Plus(g.seq, 1), !.seq = Iss]
              s == [t EXCEPT !.seq = Plus(@, 1)]
              a == Out(t, {"SYN", "ACK"}, NoData)
  <2>1. t \in Socket /\ t.lport = old.lport /\ t.rport = g.sport /\ t.seq = Iss
    BY <1>1, <1>2 DEF Socket, States
  <2>2. /\ s \in Socket /\ s.lport = old.lport /\ s.rport = g.sport /\ s.seq = One
        /\ s.state = "SYN_RECEIVED" /\ s.ack = Plus(g.seq, 1)
        /\ s.got = old.got /\ s.sent = old.sent
    BY <1>1, <1>2 DEF Socket, States, One
  <2>3. Becomes(h, rest, i, s, <<a>>) /\ Switched(g) = {"SYN"} /\ old.state = "LISTEN"
    BY <1>5 DEF SynArrives
  <2>. HIDE DEF t, s
  <2>4. /\ a \in Segment /\ a.sport = old.lport /\ a.dport = g.sport /\ a.seq = Iss
        /\ a.flags = {"SYN", "ACK"}
    BY <2>1, OutIs, ConstantTypes
  <2>. HIDE DEF a
  <2>5. PICK out, O : out = <<a>> /\ O = {a}
    OBVIOUS
  <2>6. O = Elements(out) /\ out \in Seq(Segment)
    BY <2>4, <2>5, SentAtOnce
  <2>7. "SYN" \in g.flags
    BY <2>3 DEF Switched
  <2>8. Opens(g, old, s, O)
    BY <2>2, <2>4, <2>5, <2>7 DEF Opens
  <2>9. \A y \in O : y.sport = s.lport /\ y.dport = s.rport
    BY <2>2, <2>4, <2>5
  <2>10. Changes(g, old, s, out)
    BY <2>2, <2>3, <2>6, <2>8, <2>9 DEF Changes
  <2>. QED
    BY <2>3, <2>5, <2>10 DEF Goal
\* Two ways to send little: no data, and no SYN.
<1>6. ASSUME NEW s \in Socket, s.lport = old.lport, s.rport = old.rport, s.state # "LISTEN",
             NEW out \in Seq(Segment), Becomes(h, rest, i, s, out), old.state # "LISTEN",
             \A y \in Elements(out) : /\ y.sport = s.lport /\ y.dport = s.rport
                                      /\ "SYN" \notin y.flags /\ "PSH" \notin y.flags,
             NEW O, O = Elements(out),
             \/ IsOpened(g, old, s, O) \/ GoesOn(old, s, O) \/ TakesText(g, old, s, O)
      PROVE  Goal
  <2>1. Changes(g, old, s, out)
    BY <1>6 DEF Changes
  <2>. QED
    BY <1>6, <2>1 DEF Goal
<1>7. CASE RstArrives(h, g, rest, i)
  <2>. DEFINE s == [old EXCEPT !.state = "CLOSED"]
  <2>1. /\ s \in Socket /\ s.lport = old.lport /\ s.rport = old.rport /\ s.state = "CLOSED"
        /\ s.got = old.got /\ s.sent = old.sent /\ s.fins = old.fins /\ s.ack = old.ack
    BY DEF Socket, States
  <2>2. Becomes(h, rest, i, s, << >>) /\ "RST" \in g.flags
    BY <1>7 DEF RstArrives
  <2>. HIDE DEF s
  <2>3. << >> \in Seq(Segment) /\ Elements(<< >>) = {} /\ old.state # "LISTEN"
    BY <2>2, SentAtOnce
  <2>4. GoesOn(old, s, {})
    BY <2>1 DEF GoesOn, Taking, Early
  <2>. QED
    BY <1>6, <2>1, <2>2, <2>3, <2>4
<1>8. CASE SynAckArrives(h, g, rest, i)
  <2>. DEFINE s == [old EXCEPT !.state = "ESTABLISHED", !.opened = TRUE,
                               !.ack = Plus(g.seq, 1), !.seq = Plus(@, 1)]
              a == Out(s, {"ACK"}, NoData)
  <2>1. /\ s \in Socket /\ s.lport = old.lport /\ s.rport = old.rport
        /\ s.state = "ESTABLISHED" /\ s.ack = Plus(g.seq, 1) /\ s.seq = Plus(old.seq, 1)
        /\ s.got = old.got /\ s.sent = old.sent /\ s.fins = old.fins
    BY <1>2 DEF Socket, States
  <2>2. Becomes(h, rest, i, s, <<a>>) /\ Switched(g) = {"SYN", "ACK"} /\ old.state = "SYN_SENT"
    BY <1>8 DEF SynAckArrives
  <2>. HIDE DEF s
  <2>3. /\ a \in Segment /\ a.sport = s.lport /\ a.dport = s.rport
        /\ "SYN" \notin a.flags /\ "PSH" \notin a.flags
    BY <2>1, Answer
  <2>. HIDE DEF a
  <2>4. <<a>> \in Seq(Segment) /\ Elements(<<a>>) = {a}
    BY <2>3, SentAtOnce
  <2>5. "SYN" \in g.flags
    <3>1. "SYN" \in Switched(g)
      BY <2>2
    <3>. QED
      BY <3>1 DEF Switched
  <2>6. IsOpened(g, old, s, {a})
    BY <2>1, <2>2, <2>3, <2>5 DEF IsOpened
  <2>. QED
    BY <1>6, <2>1, <2>2, <2>3, <2>4, <2>6
<1>9. CASE FinArrives(h, g, rest, i)
  <2>. DEFINE counted == [old EXCEPT !.ack = Plus(@, 1)]
              a == Out(counted, {"ACK"}, NoData)
              f == Out(counted, {"FIN", "ACK"}, NoData)
  <2>1. /\ counted \in Socket /\ counted.lport = old.lport /\ counted.rport = old.rport
        /\ counted.got = old.got /\ counted.sent = old.sent /\ counted.fins = old.fins
        /\ counted.ack = Plus(old.ack, 1)
    BY <1>2 DEF Socket
  <2>2. \A y \in {a, f} : /\ y \in Segment /\ y.sport = old.lport /\ y.dport = old.rport
                          /\ "SYN" \notin y.flags /\ "PSH" \notin y.flags
    <3>. HIDE DEF counted
    <3>1. /\ a \in Segment /\ a.sport = old.lport /\ a.dport = old.rport
          /\ "SYN" \notin a.flags /\ "PSH" \notin a.flags
      BY <2>1, Answer
    <3>2. /\ f \in Segment /\ f.sport = old.lport /\ f.dport = old.rport
          /\ "SYN" \notin f.flags /\ "PSH" \notin f.flags
      BY <2>1, Answer
    <3>. HIDE DEF a, f
    <3>. QED
      BY <3>1, <3>2
  <2>3. ASSUME NEW s \in Socket, s.lport = old.lport, s.rport = old.rport,
               s.got = old.got, s.sent = old.sent, s.state \in {"CLOSE_WAIT", "CLOSED"},
               s.fins = old.fins,
               s.ack = old.ack \/ (old.state \in Taking /\ s.ack = Plus(old.ack, 1)),
               NEW out \in Seq(Segment), Becomes(h, rest, i, s, out), old.state # "LISTEN",
               Elements(out) \subseteq {a, f}
        PROVE  Goal
    <3>1. GoesOn(old, s, Elements(out))
      BY <2>2, <2>3 DEF GoesOn, Taking, Early
    <3>. QED
      BY <1>6, <2>2, <2>3, <3>1
  <2>4. CASE old.state = "ESTABLISHED"
    <3>. DEFINE s == [counted EXCEPT !.state = "CLOSE_WAIT"]
    <3>1. /\ s \in Socket /\ s.lport = old.lport /\ s.rport = old.rport
          /\ s.got = old.got /\ s.sent = old.sent /\ s.state = "CLOSE_WAIT"
          /\ s.fins = old.fins /\ s.ack = Plus(old.ack, 1)
      BY ZenonT(30), <2>1 DEF Socket, States
    <3>2. Becomes(h, rest, i, s, <<a, f>>)
      BY <1>9, <2>4 DEF FinArrives
    <3>. HIDE DEF s, counted, a, f
    <3>3. <<a, f>> \in Seq(Segment) /\ Elements(<<a, f>>) \subseteq {a, f}
      BY <2>2, SentAtOnce
    <3>4. old.state \in Taking /\ old.state # "LISTEN"
      BY <2>4 DEF Taking
    <3>. QED
      BY <2>3, <3>1, <3>2, <3>3, <3>4
  <2>5. CASE old.state = "CLOSE_WAIT"
    <3>. DEFINE s == [old EXCEPT !.state = "CLOSED"]
    <3>1. /\ s \in Socket /\ s.lport = old.lport /\ s.rport = old.rport
          /\ s.got = old.got /\ s.sent = old.sent /\ s.state = "CLOSED"
          /\ s.fins = old.fins /\ s.ack = old.ack
      BY DEF Socket, States
    <3>2. Becomes(h, rest, i, s, << >>)
      BY <1>9, <2>5 DEF FinArrives
    <3>. HIDE DEF s, counted, a, f
    <3>3. << >> \in Seq(Segment) /\ Elements(<< >>) \subseteq {a, f}
      BY SentAtOnce
    <3>. QED
      BY <2>3, <2>5, <3>1, <3>2, <3>3
  <2>6. CASE old.state \in {"FIN_WAIT1", "FIN_WAIT2"}
    <3>. DEFINE s == [counted EXCEPT !.state = "CLOSED"]
    <3>1. /\ s \in Socket /\ s.lport = old.lport /\ s.rport = old.rport
          /\ s.got = old.got /\ s.sent = old.sent /\ s.state = "CLOSED"
          /\ s.fins = old.fins /\ s.ack = Plus(old.ack, 1)
      BY ZenonT(30), <2>1 DEF Socket, States
    <3>2. Becomes(h, rest, i, s, <<a>>)
      BY <1>9, <2>6 DEF FinArrives
    <3>. HIDE DEF s, counted, a, f
    <3>3. <<a>> \in Seq(Segment) /\ Elements(<<a>>) \subseteq {a, f}
      BY <2>2, SentAtOnce
    <3>4. old.state \in Taking /\ old.state # "LISTEN"
      BY <2>6 DEF Taking
    <3>. QED
      BY <2>3, <3>1, <3>2, <3>3, <3>4
  <2>. QED
    BY <1>9, <2>4, <2>5, <2>6 DEF FinArrives
<1>10. CASE AckArrives(h, g, rest, i)
  <2>. DEFINE s == [old EXCEPT !.state = AckMoves[old.state]]
  <2>1. \/ old.state = "SYN_RECEIVED" /\ AckMoves[old.state] = "ESTABLISHED"
        \/ old.state = "FIN_WAIT1" /\ AckMoves[old.state] = "FIN_WAIT2"
        \/ old.state = "CLOSE_WAIT" /\ AckMoves[old.state] = "CLOSED"
    BY <1>10, AckMovesFacts DEF AckArrives
  <2>2. AckMoves[old.state] \in States \ {"LISTEN", "SYN_SENT"}
    BY <2>1 DEF States
  <2>3. /\ s \in Socket /\ s.lport = old.lport /\ s.rport = old.rport
        /\ s.state = AckMoves[old.state]
        /\ s.seq = old.seq /\ s.ack = old.ack /\ s.got = old.got /\ s.sent = old.sent
        /\ s.fins = old.fins
    BY <2>2 DEF Socket
  <2>4. Becomes(h, rest, i, s, << >>)
    BY <1>10 DEF AckArrives
  <2>. HIDE DEF s
  <2>5. GoesOn(old, s, {})
    BY <2>1, <2>2, <2>3 DEF GoesOn, Taking, Early
  <2>6. << >> \in Seq(Segment) /\ Elements(<< >>) = {}
    BY SentAtOnce
  <2>7. s.state # "LISTEN" /\ old.state # "LISTEN"
    BY <2>1, <2>2, <2>3
  <2>. QED
    BY <1>6, <2>3, <2>4, <2>5, <2>6, <2>7
<1>11. CASE PlainAckArrives(h, g, rest, i)
  BY <1>3, <1>11 DEF PlainAckArrives
<1>12. CASE "RST" \notin g.flags /\ TextArrives(h, g, rest, i)
  <2>. DEFINE s == Counted(old, g)
              a == Out(s, {"ACK"}, NoData)
  <2>1. "PSH" \in g.flags /\ old.state \in Taking /\ g.seq = old.ack
    BY <1>12 DEF TextArrives, InOrder
  <2>2. /\ s \in Socket /\ s.lport = old.lport /\ s.rport = old.rport /\ s.state = old.state
        /\ s.seq = old.seq /\ s.sent = old.sent /\ s.fins = old.fins
        /\ s.ack = Plus(old.ack, Advance(g.data))
        /\ s.got = Append(old.got, [seq |-> g.seq, data |-> g.data])
    BY ZenonT(30), CountedType DEF Counted, Socket
  <2>3. Becomes(h, rest, i, s, <<a>>)
    BY <1>12 DEF TextArrives
  <2>. HIDE DEF s
  <2>4. /\ a \in Segment /\ a.sport = s.lport /\ a.dport = s.rport
        /\ "SYN" \notin a.flags /\ "PSH" \notin a.flags
    BY <2>2, Answer
  <2>. HIDE DEF a
  <2>5. <<a>> \in Seq(Segment) /\ Elements(<<a>>) = {a}
    BY <2>4, SentAtOnce
  <2>6. s.state # "LISTEN" /\ old.state # "LISTEN" /\ s.state \in Taking
    BY <2>1, <2>2 DEF Taking
  <2>7. TakesText(g, old, s, {a})
    BY <2>1, <2>2, <2>4, <2>6 DEF TakesText, IsHandedUp
  <2>. QED
    BY <1>6, <2>2, <2>3, <2>4, <2>5, <2>6, <2>7
<1>13. CASE "RST" \notin g.flags /\ RequestArrives(h, g, rest, i)
  <2>. DEFINE sent == AfterSend(old, Response)
              fin == Disconnected(sent)
              s == Counted(fin, g)
              a == Out(old, {"PSH", "ACK"}, Response)
              f == Out(sent, {"FIN", "ACK"}, NoData)
              b == Out(s, {"ACK"}, NoData)
  <2>1. "PSH" \in g.flags /\ old.state = "ESTABLISHED" /\ g.seq = old.ack /\ g.data.get
    BY <1>13 DEF RequestArrives, InOrder
  <2>2. /\ sent \in Socket /\ sent.lport = old.lport /\ sent.rport = old.rport
        /\ sent.ack = old.ack /\ sent.got = old.got /\ sent.sent = Append(old.sent, Response)
    BY ZenonT(30), AfterSendType, ConstantTypes DEF AfterSend, Socket
  <2>3. /\ fin \in Socket /\ fin.lport = old.lport /\ fin.rport = old.rport
        /\ fin.state = "FIN_WAIT1"
        /\ fin.ack = old.ack /\ fin.got = old.got /\ fin.sent = Append(old.sent, Response)
    BY ZenonT(30), <2>2, DisconnectedType DEF Disconnected, Socket
  <2>4. /\ s \in Socket /\ s.lport = old.lport /\ s.rport = old.rport
        /\ s.state = "FIN_WAIT1" /\ s.sent = Append(old.sent, Response)
        /\ s.ack = Plus(old.ack, Advance(g.data))
        /\ s.got = Append(old.got, [seq |-> g.seq, data |-> g.data])
    BY ZenonT(30), <2>3, CountedType DEF Counted, Socket
  <2>5. Becomes(h, rest, i, s, <<a, f, b>>)
    BY <1>13 DEF RequestArrives
  <2>. HIDE DEF fin, s
  <2>6. /\ a \in Segment /\ a.sport = old.lport /\ a.dport = old.rport /\ a.seq = old.seq
        /\ a.data = Response /\ a.flags = {"PSH", "ACK"}
    BY OutIs, OutType, ConstantTypes DEF Out
  <2>7. \A y \in {f, b} : /\ y \in Segment /\ y.sport = old.lport /\ y.dport = old.rport
                          /\ "SYN" \notin y.flags /\ "PSH" \notin y.flags
    BY SMTT(30), <2>2, <2>4, Answer
  <2>. HIDE DEF sent, a, f, b
  <2>8. PICK out, O : out = <<a, f, b>> /\ O = {a, f, b}
    OBVIOUS
  <2>9. O = Elements(out) /\ out \in Seq(Segment)
    BY <2>6, <2>7, <2>8, SentAtOnce
  <2>10. \A y \in O : y.sport = s.lport /\ y.dport = s.rport
    BY <2>4, <2>6, <2>7, <2>8
  <2>11. \A y \in O : "SYN" \notin y.flags
                      /\ ("PSH" \in y.flags => y.seq = old.seq /\ y.data = Response)
    BY <2>6, <2>7, <2>8
  <2>12. IsHandedUp(g, old, s)
    BY <2>1, <2>4 DEF IsHandedUp, Taking
  <2>13. TakesRequest(g, old, s, O)
    BY <2>1, <2>4, <2>11, <2>12 DEF TakesRequest
  <2>14. Changes(g, old, s, out)
    BY <2>1, <2>4, <2>9, <2>10, <2>13 DEF Changes
  <2>. QED
    BY <2>5, <2>8, <2>14 DEF Goal
<1>14. CASE RequestSpins(h, g, rest, i)
  BY <1>14 DEF RequestSpins
<1>15. CASE "RST" \notin g.flags /\ IsRefused(h, g, rest, i)
  <2>. DEFINE a == Out(old, {"RST"}, NoData)
  <2>1. Becomes(h, rest, i, old, <<a>>) /\ Refused(g, old)
    BY <1>15 DEF IsRefused
  <2>2. /\ a \in Segment /\ a.sport = old.lport /\ a.dport = old.rport
        /\ "SYN" \notin a.flags /\ "PSH" \notin a.flags
    BY Answer
  <2>. HIDE DEF a
  <2>3. <<a>> \in Seq(Segment) /\ Elements(<<a>>) = {a}
    BY <2>2, SentAtOnce
  <2>4. old.state # "LISTEN"
    <3>1. ASSUME old.state = "LISTEN" PROVE FALSE
      <4>1. g.flags = {"SYN"} /\ Switched(g) = {"SYN"}
        BY <3>1 DEF Switched
      <4>2. "ACK" \notin {"SYN"} /\ "FIN" \notin {"SYN"} /\ "SYN" \notin {"FIN"}
            /\ "SYN" \notin {"FIN", "ACK"} /\ "PSH" \notin {"SYN"} /\ "ACK" \in {"SYN", "ACK"}
        OBVIOUS
      <4>3. ~IsData(g, old)
        BY <1>15, <4>1, <4>2
      <4>. QED
        BY <2>1, <3>1, <4>1, <4>2, <4>3 DEF Refused, WrongOrder
    <3>. QED
      BY <3>1
  <2>5. GoesOn(old, old, {a})
    BY <2>2 DEF GoesOn
  <2>. QED
    BY <1>6, <2>1, <2>2, <2>3, <2>4, <2>5
<1>. QED
  BY <1>4, <1>5, <1>7, <1>8, <1>9, <1>10, <1>11, <1>12, <1>13, <1>14, <1>15
-----------------------------------------------------------------------------
(* The steps.  IInv is kept (StepInv), so it may be used on both sides.      *)

\* What the step does to the conversations that are not its own: segments go.
LEMMA ServerTurnsInStep ==
    ASSUME IInv, IInv', AllInStep,
           NEW i \in 1 .. Len(sockets[Server]), NEW s \in Socket, NEW out \in Seq(Segment),
           NEW rest \in Seq(Segment), Part(rest, net[Server]),
           Becomes(Server, rest, i, s, out), UNCHANGED freePort,
           NEW port \in ClientPorts, s.rport = port, s.state # "LISTEN",
           sockets[Server][i].rport \in {NoPort, port},
           \A y \in Elements(out) : y.dport = port,
           \E b : InStep(b, ClientOf(port), {s}, Of(Server, net[Server], port),
                         Of(Client, net[Client], port) \cup Elements(out))
    PROVE  AllInStep'
<1>. USE ConstantTypes
<1>1. sockets \in [Hosts -> Seq(Socket)]
  BY DEF IInv, TypeOK
<1>2. Part(net'[Server], net[Server]) /\ Mixed(net'[Client], net[Client], out)
  BY BecomesQueues
<1>3. /\ sockets'[Client] = sockets[Client]
      /\ Len(sockets'[Server]) = Len(sockets[Server])
      /\ sockets'[Server][i] = s
      /\ \A j \in 1 .. Len(sockets[Server]) : j # i => sockets'[Server][j] = sockets[Server][j]
  BY <1>1, TableExcept DEF Becomes
<1>4. /\ Elements(net'[Server]) \subseteq Elements(net[Server])
      /\ Elements(net'[Client]) \subseteq Elements(net[Client]) \cup Elements(out)
  BY <1>2, PartIsSubset, MixedIsUnion
<1>5. ListenersNew'
  <2>1. ASSUME NEW j \in 1 .. Len(sockets[Server]), sockets'[Server][j].state = "LISTEN"
        PROVE  sockets'[Server][j].got = << >> /\ sockets'[Server][j].sent = << >>
    <3>1. sockets'[Server][j] = sockets[Server][j]
      BY <1>3, <2>1
    <3>. QED
      BY <2>1, <3>1 DEF AllInStep, ListenersNew
  <2>. QED
    BY <1>3, <2>1 DEF ListenersNew
<1>6. ServingIn(sockets'[Server], port) \subseteq {s}
  <2>1. ASSUME NEW j \in 1 .. Len(sockets[Server]), sockets'[Server][j].rport = port
        PROVE  j = i
    <3>1. OneSocketPerClient'
      BY DEF IInv
    <3>2. port # NoPort
      BY DEF ClientPorts, FirstFreePort, NoPort
    <3>3. Len(sockets[Server]) \in Nat
      BY <1>1, LenProperties
    <3>4. ~(j < i) /\ ~(i < j)
      BY <1>3, <2>1, <3>1, <3>2 DEF OneSocketPerClient
    <3>. QED
      BY <3>3, <3>4
  <2>2. ASSUME NEW x \in ServingIn(sockets'[Server], port) PROVE x = s
    <3>1. PICK j \in 1 .. Len(sockets[Server]) :
            x = sockets'[Server][j] /\ sockets'[Server][j].rport = port
      BY <1>3, <2>2 DEF ServingIn
    <3>. QED
      BY <1>3, <2>1, <3>1
  <2>. QED
    BY <2>2
<1>7. ServingIn(sockets'[Server], port) = {s}
  <2>1. i \in 1 .. Len(sockets'[Server]) /\ sockets'[Server][i].rport = port
    BY <1>3
  <2>2. s \in ServingIn(sockets'[Server], port)
    BY <1>3, <2>1 DEF ServingIn
  <2>. QED
    BY <1>6, <2>2
<1>8. ASSUME NEW o \in ClientPorts, o # port
      PROVE  ServingIn(sockets'[Server], o) = ServingIn(sockets[Server], o)
  <2>1. o # NoPort
    BY DEF ClientPorts, FirstFreePort, NoPort
  <2>2. \A k \in 1 .. Len(sockets[Server]) :
          /\ sockets'[Server][k].rport = o <=> sockets[Server][k].rport = o
          /\ sockets[Server][k].rport = o => sockets'[Server][k] = sockets[Server][k]
    BY <1>3, <1>8, <2>1
  <2>3. PICK t, u : t = sockets'[Server] /\ u = sockets[Server]
    OBVIOUS
  <2>4. Len(t) = Len(u)
    BY <1>3, <2>3
  <2>5. \A k \in 1 .. Len(u) : /\ t[k].rport = o <=> u[k].rport = o
                               /\ u[k].rport = o => t[k] = u[k]
    BY <2>2, <2>3
  <2>6. ServingIn(t, o) = ServingIn(u, o)
    BY ONLY <2>4, <2>5, ServingSame
  <2>. QED
    BY <2>3, <2>6
<1>9. ASSUME NEW o \in ClientPorts PROVE InStepOn(o)'
  <2>. DEFINE Q == Of(Server, net[Server], o)
              Q2 == Of(Server, net'[Server], o)
              R == Of(Client, net[Client], o)
              R2 == Of(Client, net'[Client], o)
  <2>1. ClientOf(o)' = ClientOf(o)
    BY <1>3 DEF ClientOf
  <2>2. Q2 \in SUBSET Q
    BY <1>4, OfSubset
  <2>3. R2 \subseteq R \cup Of(Client, out, o)
    BY <1>4, OfConcat
  <2>4. CASE o = port
    <3>1. PICK b : InStep(b, ClientOf(port), {s}, Of(Server, net[Server], port),
                          Of(Client, net[Client], port) \cup Elements(out))
      OBVIOUS
    <3>2. Of(Client, out, port) \subseteq Elements(out)
      BY DEF Of
    <3>3. R2 \in SUBSET (Of(Client, net[Client], port) \cup Elements(out))
      BY <2>3, <2>4, <3>2
    <3>4. InStep(b, ClientOf(port), {s}, Q2, R2)
      BY <2>2, <2>4, <3>1, <3>3, InStepSubset
    <3>. QED
      BY <1>7, <2>1, <2>4, <3>4 DEF InStepOn
  <2>5. CASE o # port
    <3>1. Of(Client, out, o) = {}
      BY <2>5 DEF Of, PortIn
    <3>2. R2 \in SUBSET R
      BY <2>3, <3>1
    <3>3. PICK b : InStep(b, ClientOf(o), ServingIn(sockets[Server], o), Q, R)
      BY DEF AllInStep, InStepOn
    <3>4. InStep(b, ClientOf(o), ServingIn(sockets[Server], o), Q2, R2)
      BY <2>2, <3>2, <3>3, InStepSubset
    <3>. QED
      BY <1>8, <2>1, <2>5, <3>4 DEF InStepOn
  <2>. QED
    BY <2>4, <2>5
<1>10. ClientPorts' = ClientPorts
  BY DEF ClientPorts
<1>. QED
  BY <1>5, <1>9, <1>10 DEF AllInStep

\* The same of one of the client's sockets, which moves by itself or is moved.
LEMMA ClientTurnsInStep ==
    ASSUME IInv, AllInStep,
           NEW i \in 1 .. Len(sockets[Client]), NEW d \in Socket,
           sockets' = [sockets EXCEPT ![Client][i] = d], UNCHANGED freePort,
           NEW out, Part(net'[Client], net[Client]), Mixed(net'[Server], net[Server], out),
           NEW port, port = FirstFreePort + i - 1,
           \A y \in Elements(out) : y.sport = port,
           \E b : InStep(b, d, ServingIn(sockets[Server], port),
                         Of(Server, net[Server], port) \cup Elements(out),
                         Of(Client, net[Client], port))
    PROVE  AllInStep'
<1>. USE ConstantTypes
<1>1. sockets \in [Hosts -> Seq(Socket)]
  BY DEF IInv, TypeOK
<1>2. /\ sockets'[Server] = sockets[Server]
      /\ sockets'[Client][i] = d
      /\ \A j \in 1 .. Len(sockets[Client]) : j # i => sockets'[Client][j] = sockets[Client][j]
  BY <1>1, TableExcept
<1>3. /\ Elements(net'[Client]) \subseteq Elements(net[Client])
      /\ Elements(net'[Server]) \subseteq Elements(net[Server]) \cup Elements(out)
  BY PartIsSubset, MixedIsUnion
<1>4. ListenersNew'
  BY <1>2 DEF AllInStep, ListenersNew
<1>5. ASSUME NEW o \in ClientPorts PROVE InStepOn(o)'
  <2>. DEFINE S == ServingIn(sockets[Server], o)
              Q == Of(Server, net[Server], o)
              Q2 == Of(Server, net'[Server], o)
              R == Of(Client, net[Client], o)
              R2 == Of(Client, net'[Client], o)
  <2>1. ServingIn(sockets'[Server], o) = S
    BY <1>2
  <2>2. Q2 \subseteq Q \cup Of(Server, out, o)
    BY <1>3, OfConcat
  <2>3. R2 \in SUBSET R
    BY <1>3, OfSubset
  <2>4. o \in Int /\ o - FirstFreePort + 1 \in 1 .. Len(sockets[Client])
    BY ClientPortFacts
  <2>5. Len(sockets[Client]) \in Nat
    BY ClientPortFacts
  <2>6. CASE o = port
    <3>1. o - FirstFreePort + 1 = i
      BY <2>5, <2>6 DEF FirstFreePort
    <3>2. ClientOf(o)' = d
      BY <1>2, <3>1 DEF ClientOf
    <3>3. Of(Server, out, port) \subseteq Elements(out)
      BY DEF Of
    <3>4. Q2 \in SUBSET (Of(Server, net[Server], port) \cup Elements(out))
      BY <2>2, <2>6, <3>3
    <3>5. PICK b : InStep(b, d, S, Of(Server, net[Server], port) \cup Elements(out), R)
      BY <2>6
    <3>6. InStep(b, d, S, Q2, R2)
      BY <2>3, <3>4, <3>5, InStepSubset
    <3>. QED
      BY <2>1, <3>2, <3>6 DEF InStepOn
  <2>7. CASE o # port
    <3>1. o - FirstFreePort + 1 # i
      BY <2>4, <2>5, <2>7 DEF FirstFreePort
    <3>2. ClientOf(o)' = ClientOf(o)
      BY <1>2, <2>4, <3>1 DEF ClientOf
    <3>3. Of(Server, out, o) = {}
      BY <2>7 DEF Of, PortIn
    <3>4. Q2 \in SUBSET Q
      BY <2>2, <3>3
    <3>5. PICK b : InStep(b, ClientOf(o), S, Q, R)
      BY DEF AllInStep, InStepOn
    <3>6. InStep(b, ClientOf(o), S, Q2, R2)
      BY <2>3, <3>4, <3>5, InStepSubset
    <3>. QED
      BY <2>1, <3>2, <3>6 DEF InStepOn
  <2>. QED
    BY <2>6, <2>7
<1>6. ClientPorts' = ClientPorts
  BY DEF ClientPorts
<1>. QED
  BY <1>4, <1>5, <1>6 DEF AllInStep

\* Segments go, and nothing else happens.
LEMMA SegmentsGoInStep ==
    ASSUME AllInStep, UNCHANGED <<sockets, freePort>>,
           \A h \in Hosts : Part(net'[h], net[h])
    PROVE  AllInStep'
<1>1. Client \in Hosts /\ Server \in Hosts
  BY ConstantTypes
<1>2. /\ Elements(net'[Server]) \subseteq Elements(net[Server])
      /\ Elements(net'[Client]) \subseteq Elements(net[Client])
  BY <1>1, PartIsSubset
<1>3. ASSUME NEW o \in ClientPorts PROVE InStepOn(o)'
  <2>1. /\ Of(Server, net'[Server], o) \in SUBSET Of(Server, net[Server], o)
        /\ Of(Client, net'[Client], o) \in SUBSET Of(Client, net[Client], o)
    BY <1>2, OfSubset
  <2>2. PICK b : InStep(b, ClientOf(o), ServingIn(sockets[Server], o),
                        Of(Server, net[Server], o), Of(Client, net[Client], o))
    BY DEF AllInStep, InStepOn
  <2>3. InStep(b, ClientOf(o), ServingIn(sockets[Server], o),
               Of(Server, net'[Server], o), Of(Client, net'[Client], o))
    BY <2>1, <2>2, InStepSubset
  <2>. QED
    BY <2>3 DEF InStepOn, ClientOf
<1>4. ClientPorts' = ClientPorts /\ ListenersNew'
  BY DEF ClientPorts, AllInStep, ListenersNew
<1>. QED
  BY <1>3, <1>4 DEF AllInStep

\* The server's handler, whichever segment it is given.
LEMMA ServerStaysInStep ==
    ASSUME NumbersSuffice, IInv, IInv', AllInStep,
           NEW m \in 1 .. Len(net[Server]), NEW rest \in Seq(Segment), Part(rest, net[Server]),
           Handle(Server, net[Server][m], rest), UNCHANGED freePort
    PROVE  AllInStep'
<1>. USE ConstantTypes
<1>0. PICK g, port, c, S, Q, R, i, old :
        /\ g = net[Server][m] /\ port = g.sport
        /\ c = ClientOf(port) /\ S = ServingIn(sockets[Server], port)
        /\ Q = Of(Server, net[Server], port) /\ R = Of(Client, net[Client], port)
        /\ i = SocketFor(Server, g) /\ old = sockets[Server][i]
  OBVIOUS
<1>1. /\ sockets \in [Hosts -> Seq(Socket)] /\ sockets[Server] \in Seq(Socket)
      /\ net \in [Hosts -> Seq(Segment)] /\ net[Server] \in Seq(Segment)
  BY DEF IInv, TypeOK
<1>2. g \in Segment /\ ToServerOK(g) /\ g \in Q
  BY <1>0, <1>1, ElementOfSeq DEF IInv, ToServer, Carried, Elements, Of, PortIn
<1>3. port \in ClientPorts /\ port # NoPort
  BY <1>0, <1>2 DEF ToServerOK, ClientPorts, FirstFreePort, NoPort
<1>4. c \in Socket /\ \A s \in S : s \in Socket
  BY <1>0, <1>3, Conversation
<1>5. PICK b : InStep(b, c, S, Q, R)
  BY <1>0, <1>3 DEF AllInStep, InStepOn
<1>6. ASSUME net' = [net EXCEPT ![Server] = rest], UNCHANGED sockets PROVE AllInStep'
  <2>1. \A h \in Hosts : Part(net'[h], net[h])
    BY <1>1, <1>6 DEF Part
  <2>. QED
    BY <1>6, <2>1, SegmentsGoInStep
<1>7. CASE i = 0 \/ (i # 0 /\ old.state = "CLOSED")
  <2>1. Ignores(Server, rest)
    BY <1>0, <1>7 DEF Handle
  <2>. QED
    BY <1>6, <2>1 DEF Ignores
<1>8. CASE i # 0 /\ old.state # "CLOSED"
  <2>1. i \in 1 .. Len(sockets[Server]) /\ Matches(old, g)
    BY <1>0, <1>1, <1>8, SocketForIsFirst
  <2>2. old \in Socket /\ ServerSocketOK(old) /\ old.state \in States
    BY <1>0, <1>1, <2>1, ElementOfSeq, SocketFields DEF IInv, ServerTable
  <2>3. old.state = "LISTEN" => old.rport = NoPort /\ g.flags = {"SYN"}
    <3>1. ASSUME old.state = "LISTEN" PROVE old.rport = NoPort /\ g.flags = {"SYN"}
      <4>1. old.rport = NoPort
        BY <2>2, <3>1 DEF ServerSocketOK
      <4>2. g.flags \cap {"SYN", "ACK"} = {"SYN"}
        BY <1>0, <1>3, <2>1, <4>1 DEF Matches
      <4>. QED
        BY <1>2, <4>1, <4>2 DEF ToServerOK
    <3>. QED
      BY <3>1
  <2>4. IsData(g, old) /\ "RST" \notin g.flags => "PSH" \in g.flags /\ old.state \in Taking
    <3>1. ASSUME IsData(g, old), "RST" \notin g.flags
          PROVE  "PSH" \in g.flags /\ old.state \in Taking
      <4>1. g.flags = {"PSH", "ACK"} /\ old.state \notin DOMAIN AckMoves
        BY <1>2, <3>1 DEF ToServerOK, IsData, Switched
      <4>2. old.state # "LISTEN"
        BY <2>3, <4>1
      <4>3. old.state \in {"ESTABLISHED", "FIN_WAIT2"}
        BY <1>8, <2>2, <4>1, <4>2, AckMovesFacts DEF States, ServerSocketOK
      <4>. QED
        BY <4>1, <4>3 DEF Taking
    <3>. QED
      BY <3>1
  <2>5. \/ net' = [net EXCEPT ![Server] = rest] /\ UNCHANGED sockets
        \/ \E s, out : Changes(g, old, s, out) /\ Becomes(Server, rest, i, s, out)
    <3>1. old.state = "LISTEN" => g.flags = {"SYN"}
      BY <2>3
    <3>2. Handle(Server, g, rest)
      BY <1>0
    <3>. QED
      BY <1>0, <1>2, <1>8, <2>2, <2>4, <3>1, <3>2, HandlerDoes
  <2>6. ASSUME NEW s, NEW out, Changes(g, old, s, out), Becomes(Server, rest, i, s, out)
        PROVE  AllInStep'
    <3>1. /\ s \in Socket /\ out \in Seq(Segment) /\ s.state # "LISTEN"
          /\ \A y \in Elements(out) : y.dport = s.rport
      BY <2>6 DEF Changes
    <3>2. ASSUME s.rport = port, old.rport \in {NoPort, port},
                 InStep(b, c, {s}, Q, R \cup Elements(out))
          PROVE  AllInStep'
      <4>1. sockets[Server][i].rport \in {NoPort, port} /\ \A y \in Elements(out) : y.dport = port
        BY <1>0, <3>1, <3>2
      <4>2. \E e : InStep(e, ClientOf(port), {s}, Of(Server, net[Server], port),
                         Of(Client, net[Client], port) \cup Elements(out))
        BY <1>0, <3>2
      <4>3. IInv /\ IInv' /\ AllInStep /\ rest \in Seq(Segment) /\ Part(rest, net[Server])
            /\ freePort' = freePort
        OBVIOUS
      <4>. QED
        BY ONLY <1>3, <2>1, <2>6, <3>1, <3>2, <4>1, <4>2, <4>3, ServerTurnsInStep
    <3>3. CASE old.state = "LISTEN"
      <4>1. s.rport = port /\ Opens(g, old, s, Elements(out))
        BY <1>0, <2>6, <3>3 DEF Changes
      <4>2. ASSUME NEW x \in S PROVE FALSE
        <5>1. PICK j \in 1 .. Len(sockets[Server]) : sockets[Server][j].rport = port
          BY <1>0, <4>2 DEF ServingIn
        <5>2. j # i
          BY <1>0, <1>3, <2>3, <3>3, <5>1
        <5>3. /\ Len(sockets'[Server]) = Len(sockets[Server])
              /\ sockets'[Server][i] = s /\ sockets'[Server][j] = sockets[Server][j]
          BY <1>1, <2>1, <2>6, <3>1, <5>2, TableExcept DEF Becomes
        <5>4. OneSocketPerClient' /\ Len(sockets[Server]) \in Nat
          BY <1>1, LenProperties DEF IInv
        <5>5. ~(j < i) /\ ~(i < j)
          BY <1>3, <2>1, <4>1, <5>1, <5>3, <5>4 DEF OneSocketPerClient
        <5>. QED
          BY <2>1, <5>2, <5>4, <5>5
      <4>3. S = {}
        BY <4>2
      <4>4. old.got = << >> /\ old.sent = << >>
        BY <1>0, <2>1, <3>3 DEF AllInStep, ListenersNew
      <4>5. InStep(b, c, {s}, Q, R \cup Elements(out))
        BY <1>2, <1>5, <4>1, <4>3, <4>4, ServerOpens
      <4>. QED
        BY <2>3, <3>2, <3>3, <4>1, <4>5
    <3>4. CASE old.state # "LISTEN"
      <4>1. old.rport = port
        BY <1>0, <2>1, <3>4 DEF Matches
      <4>2. ASSUME NEW x \in S PROVE x = old
        <5>1. PICK j \in 1 .. Len(sockets[Server]) : x = sockets[Server][j] /\ x.rport = port
          BY <1>0, <4>2 DEF ServingIn
        <5>2. Len(sockets[Server]) \in Nat
          BY <1>1, LenProperties
        <5>3. ~(j < i) /\ ~(i < j)
          BY <1>0, <1>3, <2>1, <4>1, <5>1 DEF IInv, OneSocketPerClient
        <5>. QED
          BY <1>0, <2>1, <5>1, <5>2, <5>3
      <4>3. old \in S
        BY <1>0, <2>1, <4>1 DEF ServingIn
      <4>4. InStep(b, c, {old}, Q, R)
        <5>1. S = {old}
          BY <4>2, <4>3
        <5>. QED
          BY <1>5, <5>1
      <4>5. s.rport = port
            /\ \/ IsOpened(g, old, s, Elements(out)) \/ GoesOn(old, s, Elements(out))
               \/ TakesText(g, old, s, Elements(out)) \/ TakesRequest(g, old, s, Elements(out))
        BY <2>6, <3>4, <4>1 DEF Changes
      <4>6. ~IsOpened(g, old, s, Elements(out))
        BY <2>2 DEF IsOpened, ServerSocketOK
      <4>7. InStep(b, c, {s}, Q, R \cup Elements(out))
        <5>1. PICK O : O = Elements(out)
          OBVIOUS
        <5>2. GoesOn(old, s, O) \/ TakesText(g, old, s, O) \/ TakesRequest(g, old, s, O)
          BY <4>5, <4>6, <5>1
        <5>3. CASE GoesOn(old, s, O)
          BY <4>4, <5>1, <5>3, ServerGoesOn
        <5>4. CASE TakesText(g, old, s, O)
          BY <1>2, <1>4, <2>2, <4>4, <5>1, <5>4, ServerTakesText
        <5>5. CASE TakesRequest(g, old, s, O)
          BY <1>2, <1>4, <2>2, <4>4, <5>1, <5>5, ServerTakesRequest
        <5>. QED
          BY <5>2, <5>3, <5>4, <5>5
      <4>. QED
        BY <3>2, <4>1, <4>5, <4>7
    <3>. QED
      BY <3>3, <3>4
  <2>. QED
    BY <1>6, <2>5, <2>6
<1>. QED
  BY <1>7, <1>8

\* The client's.
LEMMA ClientStaysInStep ==
    ASSUME NumbersSuffice, IInv, AllInStep,
           NEW m \in 1 .. Len(net[Client]), NEW rest \in Seq(Segment), Part(rest, net[Client]),
           Handle(Client, net[Client][m], rest), UNCHANGED freePort
    PROVE  AllInStep'
<1>. USE ConstantTypes
<1>0. PICK g, port, c, S, Q, R, i, old :
        /\ g = net[Client][m] /\ port = g.dport
        /\ c = ClientOf(port) /\ S = ServingIn(sockets[Server], port)
        /\ Q = Of(Server, net[Server], port) /\ R = Of(Client, net[Client], port)
        /\ i = SocketFor(Client, g) /\ old = sockets[Client][i]
  OBVIOUS
<1>1. /\ sockets \in [Hosts -> Seq(Socket)] /\ sockets[Client] \in Seq(Socket)
      /\ net \in [Hosts -> Seq(Segment)] /\ net[Client] \in Seq(Segment)
  BY DEF IInv, TypeOK
<1>2. g \in Segment /\ ToClientOK(g) /\ g \in R
  BY <1>0, <1>1, ElementOfSeq DEF IInv, ToClient, Carried, Elements, Of, PortIn
<1>3. port \in ClientPorts
  BY <1>0, <1>2 DEF ToClientOK
<1>4. c \in Socket /\ Known(c, S, Q, R)
  BY <1>0, <1>3, Conversation
<1>5. PICK b : InStep(b, c, S, Q, R)
  BY <1>0, <1>3 DEF AllInStep, InStepOn
<1>6. ASSUME net' = [net EXCEPT ![Client] = rest], UNCHANGED sockets PROVE AllInStep'
  <2>1. \A h \in Hosts : Part(net'[h], net[h])
    <3>1. net'[Client] = rest /\ \A h \in Hosts : h # Client => net'[h] = net[h]
      BY <1>1, <1>6
    <3>2. \A h \in Hosts : Part(net[h], net[h])
      BY DEF Part
    <3>. QED
      BY <3>1, <3>2
  <2>. QED
    BY <1>6, <2>1, SegmentsGoInStep
<1>7. CASE i = 0 \/ (i # 0 /\ old.state = "CLOSED")
  <2>1. Ignores(Client, rest)
    BY <1>0, <1>7 DEF Handle
  <2>. QED
    BY <1>6, <2>1 DEF Ignores
<1>8. CASE i # 0 /\ old.state # "CLOSED"
  <2>1. i \in 1 .. Len(sockets[Client]) /\ Matches(old, g)
    BY <1>0, <1>1, <1>8, SocketForIsFirst
  <2>2. old \in Socket /\ ClientSocketOK(i, old) /\ old.state \in States
    BY <1>0, <1>1, <2>1, ElementOfSeq, SocketFields DEF IInv, ClientTable
  <2>3. port = FirstFreePort + i - 1 /\ old.lport = port
    BY <1>0, <2>1, <2>2 DEF Matches, ClientSocketOK
  <2>4. old = c
    <3>1. i \in Int
      BY <2>1
    <3>2. port - FirstFreePort + 1 = i
      BY <2>3, <3>1 DEF FirstFreePort
    <3>. QED
      BY <1>0, <3>2 DEF ClientOf
  <2>5. IsData(g, old) /\ "RST" \notin g.flags => "PSH" \in g.flags /\ old.state \in Taking
    <3>1. ASSUME IsData(g, old), "RST" \notin g.flags
          PROVE  "PSH" \in g.flags /\ old.state \in Taking
      <4>1. g.flags = {"PSH", "ACK"} /\ old.state \notin DOMAIN AckMoves
        BY <1>2, <3>1 DEF ToClientOK, IsData, Switched
      <4>2. old.state # "SYN_SENT"
        BY <1>2, <1>4, <2>4, <4>1 DEF Known, OpenFlags
      <4>3. old.state \in {"ESTABLISHED", "FIN_WAIT2"}
        BY <1>8, <2>2, <4>1, <4>2, AckMovesFacts DEF States, ClientSocketOK
      <4>. QED
        BY <4>1, <4>3 DEF Taking
    <3>. QED
      BY <3>1
  <2>6. \/ net' = [net EXCEPT ![Client] = rest] /\ UNCHANGED sockets
        \/ \E s, out : Changes(g, old, s, out) /\ Becomes(Client, rest, i, s, out)
    <3>1. old.state = "LISTEN" => g.flags = {"SYN"}
      BY <2>2 DEF ClientSocketOK
    <3>2. Handle(Client, g, rest)
      BY <1>0
    <3>. QED
      BY <1>0, <1>2, <1>8, <2>2, <2>5, <3>1, <3>2, HandlerDoes
  <2>7. ASSUME NEW s, NEW out, Changes(g, old, s, out), Becomes(Client, rest, i, s, out)
        PROVE  AllInStep'
    <3>1. /\ s \in Socket /\ out \in Seq(Segment)
          /\ \A y \in Elements(out) : y.sport = port
      BY <2>3, <2>7 DEF Changes
    <3>2. \/ IsOpened(g, old, s, Elements(out)) \/ GoesOn(old, s, Elements(out))
          \/ TakesText(g, old, s, Elements(out)) \/ TakesRequest(g, old, s, Elements(out))
      BY <2>2, <2>7 DEF Changes, ClientSocketOK
    <3>3. /\ Part(net'[Client], net[Client]) /\ Mixed(net'[Server], net[Server], out)
          /\ sockets' = [sockets EXCEPT ![Client][i] = s]
      BY <2>7, <3>1, BecomesQueues
    <3>4. InStep(b, s, S, Q \cup Elements(out), R)
      <4>1. PICK O : O = Elements(out)
        OBVIOUS
      <4>2. \/ IsOpened(g, c, s, O) \/ GoesOn(c, s, O)
            \/ TakesText(g, c, s, O) \/ TakesRequest(g, c, s, O)
        BY <2>4, <3>2, <4>1
      <4>3. CASE IsOpened(g, c, s, O)
        BY <1>2, <1>5, <4>1, <4>3, ClientIsOpened
      <4>4. CASE GoesOn(c, s, O)
        <5>1. c.state # "SYN_RECEIVED"
          BY <1>4 DEF Known
        <5>. QED
          BY <1>4, <1>5, <4>1, <4>4, <5>1, ClientGoesOn
      <4>5. CASE TakesText(g, c, s, O)
        BY <1>2, <1>4, <1>5, <4>1, <4>5, ClientTakesText
      <4>6. CASE TakesRequest(g, c, s, O)
        <5>1. g.data.get /\ ~g.data.get
          BY <1>2, <4>6 DEF TakesRequest, ToClientOK
        <5>. QED
          BY <5>1
      <4>. QED
        BY <4>2, <4>3, <4>4, <4>5, <4>6
    <3>. QED
      BY <1>0, <2>1, <2>3, <3>1, <3>3, <3>4, ClientTurnsInStep
  <2>. QED
    BY <1>6, <2>6, <2>7
<1>. QED
  BY <1>7, <1>8

\* Nothing is sent yet.
LEMMA NothingSent == Len(<< >>) = 0
OBVIOUS

\* So the client's first byte is byte 1.
LEMMA StartsNone == \E b : Starts(b, << >>)
<1>. DEFINE b == [k \in 1 .. 1 |-> 1]
<1>1. Len(<< >>) = 0 /\ (\A k \in 1 .. 0 : FALSE) /\ 0 + 1 = 1
      /\ \A k \in 1 .. 1 : k = 1 /\ 1 .. k - 1 = {}
  OBVIOUS
<1>2. b \in [1 .. 1 -> Nat] /\ b[1] = 1
  OBVIOUS
<1>3. MaxSends * (1 - 1) = 0 /\ (1 - 1) * (SeqSpace - 1) = 0
  BY TCPAssumption
<1>. HIDE DEF b
<1>4. Starts(b, << >>)
  BY <1>1, <1>2, <1>3 DEF Starts
<1>. QED
  BY <1>4

\* A new listener serves nobody.
LEMMA ListenStaysInStep ==
    ASSUME IInv, AllInStep, Listen
    PROVE  AllInStep'
<1>. DEFINE new == NewSocket(ServerPort, NoPort, "LISTEN")
            n == Len(sockets[Server])
<1>. USE ConstantTypes
<1>1. sockets \in [Hosts -> Seq(Socket)] /\ sockets[Server] \in Seq(Socket)
  BY DEF IInv, TypeOK
<1>2. n \in Nat
  BY <1>1, LenProperties
<1>3. << >> \in Seq(Payloads)
      /\ << >> \in Seq([seq : 0 .. SeqSpace - 1, data : Payloads])
  OBVIOUS
<1>4. new \in Socket /\ new.rport = NoPort /\ new.got = << >> /\ new.sent = << >>
  BY <1>3 DEF NewSocket, Socket, States
<1>5. sockets' = [sockets EXCEPT ![Server] = Append(sockets[Server], new)]
      /\ UNCHANGED <<freePort, net>>
  BY DEF Listen
<1>. HIDE DEF new, n
<1>6. /\ Len(Append(sockets[Server], new)) = n + 1
      /\ \A j \in 1 .. n : Append(sockets[Server], new)[j] = sockets[Server][j]
      /\ Append(sockets[Server], new)[n + 1] = new
  BY <1>1, <1>4, AppendProperties DEF n
<1>7. /\ sockets'[Client] = sockets[Client]
      /\ Len(sockets'[Server]) = n + 1
      /\ \A j \in 1 .. n : sockets'[Server][j] = sockets[Server][j]
      /\ sockets'[Server][n + 1] = new
  BY <1>1, <1>5, <1>6
<1>8. (\A j \in 1 .. n + 1 : j \in 1 .. n \/ j = n + 1) /\ 1 .. n \subseteq 1 .. n + 1
  BY <1>2
<1>9. ListenersNew'
  <2>1. \A j \in 1 .. n : sockets[Server][j].state = "LISTEN" =>
          sockets[Server][j].got = << >> /\ sockets[Server][j].sent = << >>
    BY DEF AllInStep, ListenersNew, n
  <2>. QED
    BY <1>4, <1>7, <1>8, <2>1 DEF ListenersNew
<1>10. ASSUME NEW port \in ClientPorts
       PROVE  ServingIn(sockets'[Server], port) = ServingIn(sockets[Server], port)
  <2>1. port # NoPort
    BY DEF ClientPorts, FirstFreePort, NoPort
  <2>2. ASSUME NEW x \in ServingIn(sockets'[Server], port)
        PROVE  x \in ServingIn(sockets[Server], port)
    <3>1. PICK j \in 1 .. n + 1 : x = sockets'[Server][j] /\ sockets'[Server][j].rport = port
      BY <1>7, <2>2 DEF ServingIn
    <3>2. j \in 1 .. n
      BY <1>4, <1>7, <1>8, <2>1, <3>1
    <3>3. x = sockets[Server][j] /\ sockets[Server][j].rport = port
      BY <1>7, <3>1, <3>2
    <3>. QED
      BY <3>2, <3>3 DEF ServingIn, n
  <2>3. ASSUME NEW x \in ServingIn(sockets[Server], port)
        PROVE  x \in ServingIn(sockets'[Server], port)
    <3>1. PICK j \in 1 .. n : x = sockets[Server][j] /\ sockets[Server][j].rport = port
      BY <2>3 DEF ServingIn, n
    <3>2. j \in 1 .. n + 1 /\ x = sockets'[Server][j] /\ sockets'[Server][j].rport = port
      BY <1>7, <1>8, <3>1
    <3>. QED
      BY <1>7, <3>2 DEF ServingIn
  <2>. QED
    BY <2>2, <2>3
<1>11. ClientPorts' = ClientPorts
  BY <1>5 DEF ClientPorts
<1>12. ASSUME NEW port \in ClientPorts PROVE InStepOn(port)'
  BY <1>5, <1>7, <1>10 DEF AllInStep, InStepOn, ClientOf
<1>. QED
  BY <1>5, <1>9, <1>11, <1>12 DEF AllInStep

\* A new client has sent its SYN and nothing else.
LEMMA ConnectStaysInStep ==
    ASSUME IInv, AllInStep, Connect
    PROVE  AllInStep'
<1>. DEFINE new == NewSocket(freePort, ServerPort, "SYN_SENT")
            n == Len(sockets[Client])
            syn == Out(new, {"SYN"}, NoData)
<1>. USE ConstantTypes
<1>1. sockets \in [Hosts -> Seq(Socket)] /\ sockets[Client] \in Seq(Socket)
      /\ net \in [Hosts -> Seq(Segment)] /\ net[Server] \in Seq(Segment)
  BY DEF IInv, TypeOK
<1>2. /\ n \in Nat /\ n < MaxConnects /\ freePort = FirstFreePort + n
      /\ MaxConnects \in Nat /\ MaxSends \in Nat /\ MaxDisconnects \in Nat
  BY <1>1, LenProperties, TCPAssumption DEF Connect, IInv, PortsCounted
<1>3. << >> \in Seq(Payloads)
      /\ << >> \in Seq([seq : 0 .. SeqSpace - 1, data : Payloads])
  OBVIOUS
<1>4. freePort \in Ports
  BY <1>2 DEF Ports, FirstFreePort
<1>5. /\ new \in Socket /\ new.state = "SYN_SENT" /\ new.seq = Iss
      /\ new.sent = << >> /\ new.got = << >> /\ new.lport = freePort /\ new.fins = 0
  BY <1>3, <1>4 DEF NewSocket, Socket, States
<1>6. /\ sockets' = [sockets EXCEPT ![Client] = Append(sockets[Client], new)]
      /\ net' = [net EXCEPT ![Server] = Append(net[Server], syn)]
      /\ freePort' = freePort + 1
  BY DEF Connect
<1>7. syn \in Segment /\ syn.sport = freePort /\ syn.flags = {"SYN"} /\ syn.seq = Iss
  BY <1>5, OutIs
<1>. HIDE DEF new, n, syn
<1>8. /\ Len(Append(sockets[Client], new)) = n + 1
      /\ \A j \in 1 .. n : Append(sockets[Client], new)[j] = sockets[Client][j]
      /\ Append(sockets[Client], new)[n + 1] = new
  BY <1>1, <1>5, AppendProperties DEF n
<1>9. /\ sockets'[Server] = sockets[Server]
      /\ \A j \in 1 .. n : sockets'[Client][j] = sockets[Client][j]
      /\ sockets'[Client][n + 1] = new
  BY <1>1, <1>6, <1>8
<1>10. PICK out : /\ out = <<syn>> /\ out \in Seq(Segment)
                 /\ Elements(out) = {syn}
  BY <1>7, SentAtOnce
<1>11. net'[Client] = net[Client] /\ net'[Server] = net[Server] \o out
  <2>1. Append(net[Server], syn) = net[Server] \o out
    BY <1>1, <1>7, <1>10, AppendIsConcat
  <2>. QED
    BY <1>1, <1>6, <2>1
<1>12. freePort \notin ClientPorts /\ freePort # NoPort
  BY <1>2 DEF ClientPorts, FirstFreePort, NoPort
<1>13. \A x \in Elements(net[Server]) : x.sport # freePort
  BY <1>12 DEF IInv, ToServer, ToServerOK, Carried
<1>14. Elements(net'[Server]) \subseteq Elements(net[Server]) \cup Elements(out)
  BY <1>1, <1>10, <1>11, ConcatIsMixed, MixedIsUnion
<1>15. ASSUME NEW o \in ClientPorts PROVE InStepOn(o)'
  <2>. DEFINE S == ServingIn(sockets[Server], o)
              Q == Of(Server, net[Server], o)
              Q2 == Of(Server, net'[Server], o)
              R == Of(Client, net[Client], o)
  <2>1. ClientOf(o)' = ClientOf(o)
    <3>1. o - FirstFreePort + 1 \in 1 .. n
      BY ClientPortFacts DEF n
    <3>. QED
      BY <1>9, <3>1 DEF ClientOf
  <2>2. Q2 \subseteq Q \cup Of(Server, out, o)
    BY <1>14, OfConcat
  <2>3. Of(Server, out, o) = {}
    BY <1>7, <1>10, <1>12 DEF Of, PortIn
  <2>4. Q2 \in SUBSET Q /\ R \in SUBSET R
    BY <2>2, <2>3
  <2>5. PICK b : InStep(b, ClientOf(o), S, Q, R)
    BY DEF AllInStep, InStepOn
  <2>6. InStep(b, ClientOf(o), S, Q2, R)
    BY <2>4, <2>5, InStepSubset
  <2>. QED
    BY <1>9, <1>11, <2>1, <2>6 DEF InStepOn
<1>16. ASSUME NEW o, o = freePort PROVE InStepOn(o)'
  <2>1. ClientOf(o)' = new
    <3>1. o - FirstFreePort + 1 = n + 1
      BY <1>2, <1>16 DEF FirstFreePort
    <3>. QED
      BY <1>9, <3>1 DEF ClientOf
  <2>2. ServingIn(sockets'[Server], o) = {}
    <3>1. \A j \in 1 .. Len(sockets[Server]) : sockets[Server][j].rport # freePort
      BY <1>12 DEF IInv, ServerTable, ServerSocketOK
    <3>. QED
      BY <1>9, <1>16, <3>1 DEF ServingIn
  <2>3. Of(Server, net'[Server], o) \subseteq {syn}
    BY <1>10, <1>13, <1>14, <1>16 DEF Of, PortIn
  <2>4. Of(Client, net'[Client], o) = {}
    <3>1. \A x \in Elements(net[Client]) : x.dport # freePort
      BY <1>12 DEF IInv, ToClient, ToClientOK, Carried
    <3>. QED
      BY <1>11, <1>16, <3>1 DEF Of, PortIn
  <2>5. PICK Q2 : Q2 = Of(Server, net'[Server], o) /\ Q2 \subseteq {syn}
    BY <2>3
  <2>6. PICK b : Starts(b, << >>)
    BY StartsNone
  <2>7. ClientInStep(b, new, {}) /\ ToServerInStep(b, new.sent, syn)
    BY <1>2, <1>5, <1>7, NothingSent DEF ClientInStep, ToServerInStep, Taking
  <2>8. InStep(b, new, {}, Q2, {})
    BY <1>5, <2>5, <2>6, <2>7 DEF InStep
  <2>. QED
    BY <2>1, <2>2, <2>4, <2>5, <2>8 DEF InStepOn
<1>17. \A o \in ClientPorts' : o \in ClientPorts \/ o = freePort
  BY <1>2, <1>6 DEF ClientPorts, FirstFreePort
<1>18. ListenersNew'
  BY <1>9, <1>11 DEF AllInStep, ListenersNew
<1>19. \A o \in ClientPorts' : InStepOn(o)'
  BY <1>15, <1>16, <1>17
<1>. QED
  BY <1>18, <1>19 DEF AllInStep

\* The client's own calls.
LEMMA ClientCallStaysInStep ==
    ASSUME NumbersSuffice, IInv, AllInStep, NEW i \in 1 .. Len(sockets[Client]),
           NEW d \in Socket, NEW a \in Segment, a.sport = sockets[Client][i].lport,
           d.ack = sockets[Client][i].ack, d.got = sockets[Client][i].got,
           "SYN" \notin a.flags,
           \/ \E data \in Requests :
                /\ sockets[Client][i].state = "ESTABLISHED"
                /\ Len(sockets[Client][i].sent) < MaxSends
                /\ d.fins = sockets[Client][i].fins
                /\ a.seq = sockets[Client][i].seq /\ a.data = data
                /\ d.state = "ESTABLISHED"
                /\ d.seq = Plus(sockets[Client][i].seq, data.len)
                /\ d.sent = Append(sockets[Client][i].sent, data)
           \/ /\ "PSH" \notin a.flags
              /\ d.state = "FIN_WAIT1" /\ d.sent = sockets[Client][i].sent
              /\ sockets[Client][i].fins < MaxDisconnects
              /\ d.fins = sockets[Client][i].fins + 1,
           sockets' = [sockets EXCEPT ![Client][i] = d],
           net' = [net EXCEPT ![Server] = Append(@, a)], UNCHANGED freePort
    PROVE  AllInStep'
<1>. USE ConstantTypes
<1>0. PICK port, c, S, Q, R :
        /\ port = FirstFreePort + i - 1
        /\ c = sockets[Client][i] /\ S = ServingIn(sockets[Server], port)
        /\ Q = Of(Server, net[Server], port) /\ R = Of(Client, net[Client], port)
  OBVIOUS
<1>1. net \in [Hosts -> Seq(Segment)] /\ net[Server] \in Seq(Segment)
      /\ net[Client] \in Seq(Segment)
  BY DEF IInv, TypeOK
<1>2. port \in ClientPorts /\ ClientOf(port) = c /\ a.sport = port
  <2>1. port \in ClientPorts
    BY <1>0, ClientPortFacts
  <2>2. port - FirstFreePort + 1 = i
    BY <1>0 DEF FirstFreePort
  <2>3. a.sport = port
    BY <1>0 DEF IInv, ClientTable, ClientSocketOK
  <2>. QED
    BY <1>0, <2>1, <2>2, <2>3 DEF ClientOf
<1>3. c \in Socket /\ \A s \in S : s \in Socket
  BY <1>0, <1>2, Conversation
<1>4. PICK b : InStep(b, c, S, Q, R)
  BY <1>0, <1>2 DEF AllInStep, InStepOn
<1>5. PICK O : O = {a}
  OBVIOUS
<1>6. \E e : InStep(e, d, S, Q \cup O, R)
  <2>1. d.ack = c.ack /\ d.got = c.got /\ "SYN" \notin a.flags
    BY <1>0
  <2>2. ASSUME NEW data \in Requests, Len(c.sent) < MaxSends, a.seq = c.seq, a.data = data,
               c.state = "ESTABLISHED", d.fins = c.fins, d.state = "ESTABLISHED", d.seq = Plus(c.seq, data.len),
               d.sent = Append(c.sent, data)
        PROVE  \E e : InStep(e, d, S, Q \cup O, R)
    <3>1. S \subseteq Socket /\ d.state = c.state
          /\ \A y \in O : "SYN" \notin y.flags /\ y.seq = c.seq /\ y.data = data
      BY <1>3, <1>5, <2>1, <2>2
    <3>. QED
      BY ONLY ZenonT(30), NumbersSuffice, <1>3, <1>4, <2>1, <2>2, <3>1, ClientSendsMore
  <2>3. ASSUME "PSH" \notin a.flags, d.state = "FIN_WAIT1", d.sent = c.sent,
               c.fins < MaxDisconnects, d.fins = c.fins + 1
        PROVE  \E e : InStep(e, d, S, Q \cup O, R)
    <3>1. \A y \in O : "SYN" \notin y.flags /\ "PSH" \notin y.flags
      BY <1>5, <2>1, <2>3
    <3>. QED
      BY ONLY <1>3, <1>4, <2>1, <2>3, <3>1, ClientLeavesInStep
  <2>. QED
    BY <1>0, <2>2, <2>3
<1>7. PICK out : out = <<a>> /\ O = Elements(out)
  BY <1>5, SentAtOnce
<1>8. Part(net'[Client], net[Client]) /\ Mixed(net'[Server], net[Server], out)
  <2>1. net'[Client] = net[Client] /\ net'[Server] = Append(net[Server], a)
    BY <1>1
  <2>2. Part(net[Client], net[Client])
    BY DEF Part
  <2>. QED
    BY <1>1, <1>7, <2>1, <2>2, AppendIsMixed
<1>9. /\ \A y \in Elements(out) : y.sport = port
      /\ \E e : InStep(e, d, ServingIn(sockets[Server], port),
                       Of(Server, net[Server], port) \cup Elements(out),
                       Of(Client, net[Client], port))
  BY <1>0, <1>2, <1>5, <1>6, <1>7
<1>10. port = FirstFreePort + i - 1
  BY <1>0
<1>. QED
  BY <1>8, <1>9, <1>10, ClientTurnsInStep

\* The host is given a segment that is on its way, of which rest may be left.
LEMMA HandleStaysInStep ==
    ASSUME NumbersSuffice, IInv, IInv', AllInStep, NEW h \in Hosts,
           NEW m \in 1 .. Len(net[h]), NEW rest \in Seq(Segment), Part(rest, net[h]),
           Handle(h, net[h][m], rest), UNCHANGED freePort
    PROVE  AllInStep'
<1>1. h = Server \/ h = Client
  BY ConstantTypes
<1>. QED
  BY <1>1, ServerStaysInStep, ClientStaysInStep

\* Every step keeps the conversations in step.
LEMMA StepInStep ==
    ASSUME NumbersSuffice, IInv, IInv', AllInStep, [Next]_vars
    PROVE  AllInStep'
<1>0. /\ sockets \in [Hosts -> Seq(Socket)] /\ sockets[Client] \in Seq(Socket)
      /\ net \in [Hosts -> Seq(Segment)]
  BY ConstantTypes DEF IInv, TypeOK
<1>1. CASE Listen
  BY <1>1, ListenStaysInStep
<1>2. CASE Connect
  BY <1>2, ConnectStaysInStep
<1>3. ASSUME NEW i \in 1 .. Len(sockets[Client]), NEW data \in Requests, ClientSend(i, data)
      PROVE  AllInStep'
  <2>. DEFINE old == sockets[Client][i]
              d == AfterSend(old, data)
              a == Out(old, {"PSH", "ACK"}, data)
  <2>1. old \in Socket /\ data \in Payloads
    BY <1>0, ElementOfSeq, ConstantTypes
  <2>2. d \in Socket /\ d.state = old.state /\ d.ack = old.ack /\ d.got = old.got
        /\ d.fins = old.fins
        /\ d.seq = Plus(old.seq, data.len) /\ d.sent = Append(old.sent, data)
    BY <2>1, AfterSendType DEF AfterSend, Socket
  <2>3. a \in Segment /\ a.sport = old.lport /\ "SYN" \notin a.flags
        /\ a.seq = old.seq /\ a.data = data
    BY <2>1, OutType DEF Out
  <2>4. /\ old.state = "ESTABLISHED" /\ Len(old.sent) < MaxSends /\ UNCHANGED freePort
        /\ sockets' = [sockets EXCEPT ![Client][i] = d]
        /\ net' = [net EXCEPT ![Server] = Append(@, a)]
    BY <1>3 DEF ClientSend
  <2>. HIDE DEF d, a, old
  <2>. QED
    BY <2>2, <2>3, <2>4, ClientCallStaysInStep DEF old
<1>4. ASSUME NEW i \in 1 .. Len(sockets[Client]), ClientDisconnect(i)
      PROVE  AllInStep'
  <2>. DEFINE old == sockets[Client][i]
              d == Disconnected(old)
              a == Out(old, {"FIN", "ACK"}, NoData)
  <2>1. old \in Socket
    BY <1>0, ElementOfSeq
  <2>2. d \in Socket /\ d.state = "FIN_WAIT1" /\ d.ack = old.ack /\ d.got = old.got
        /\ d.sent = old.sent /\ d.fins = old.fins + 1 /\ d.opened = old.opened
        /\ old.fins \in Nat
    BY <2>1, DisconnectedType DEF Disconnected, Socket
  <2>3. a \in Segment /\ a.sport = old.lport /\ "SYN" \notin a.flags /\ "PSH" \notin a.flags
    BY <2>1, Answer
  <2>4. /\ old.fins < MaxDisconnects /\ UNCHANGED freePort
        /\ sockets' = [sockets EXCEPT ![Client][i] = d]
        /\ net' = [net EXCEPT ![Server] = Append(@, a)]
    BY <1>4 DEF ClientDisconnect
  <2>. HIDE DEF d, a, old
  <2>. QED
    BY <2>2, <2>3, <2>4, ClientCallStaysInStep DEF old
<1>5. ASSUME NEW h \in Hosts, Arrive(h)
      PROVE  AllInStep'
  <2>1. net[h] \in Seq(Segment) /\ net[h] # << >>
    BY <1>0, <1>5 DEF Arrive
  <2>2. 1 \in 1 .. Len(net[h]) /\ Head(net[h]) = net[h][1]
    BY <2>1, LenProperties, EmptySeq
  <2>3. Tail(net[h]) \in Seq(Segment) /\ Part(Tail(net[h]), net[h])
    BY <2>1, RestIsPart
  <2>4. Handle(h, net[h][1], Tail(net[h])) /\ UNCHANGED freePort
    BY <1>5, <2>2 DEF Arrive
  <2>. QED
    BY <2>2, <2>3, <2>4, HandleStaysInStep
<1>6. ASSUME NEW h \in Hosts, ArriveDisturbed(h)
      PROVE  AllInStep'
  <2>1. net[h] \in Seq(Segment) /\ UNCHANGED freePort
    BY <1>0, <1>6 DEF ArriveDisturbed
  <2>2. ASSUME NEW k \in 2 .. Len(net[h]), Handle(h, net[h][k], RemoveAt(net[h], k))
        PROVE  AllInStep'
    <3>1. k \in 1 .. Len(net[h])
      BY <2>1, LenProperties
    <3>2. RemoveAt(net[h], k) \in Seq(Segment) /\ Part(RemoveAt(net[h], k), net[h])
      BY <2>1, <3>1, RestIsPart
    <3>. QED
      BY <2>1, <2>2, <3>1, <3>2, HandleStaysInStep
  <2>3. ASSUME NEW k \in 1 .. Len(net[h]), Handle(h, net[h][k], net[h])
        PROVE  AllInStep'
    <3>1. Part(net[h], net[h])
      BY <2>1, RestIsPart
    <3>. QED
      BY <2>1, <2>3, <3>1, HandleStaysInStep
  <2>. QED
    BY <1>6, <2>2, <2>3 DEF ArriveDisturbed
<1>7. ASSUME NEW h \in Hosts, Lose(h)
      PROVE  AllInStep'
  <2>1. PICK k \in 1 .. Len(net[h]) : net' = [net EXCEPT ![h] = RemoveAt(@, k)]
    BY <1>7 DEF Lose
  <2>2. RemoveAt(net[h], k) \in Seq(Segment) /\ Part(RemoveAt(net[h], k), net[h])
    BY <1>0, RestIsPart
  <2>3. net'[h] = RemoveAt(net[h], k) /\ \A o \in Hosts : o # h => net'[o] = net[o]
    BY <1>0, <2>1, <2>2
  <2>4. \A o \in Hosts : Part(net'[o], net[o])
    <3>1. \A o \in Hosts : Part(net[o], net[o])
      BY DEF Part
    <3>. QED
      BY <2>2, <2>3, <3>1
  <2>. QED
    BY <1>7, <2>4, SegmentsGoInStep DEF Lose
<1>8. CASE UNCHANGED vars
  <2>1. UNCHANGED <<sockets, freePort, net>>
    BY <1>8 DEF vars
  <2>2. \A h \in Hosts : Part(net'[h], net[h])
    BY <2>1 DEF Part
  <2>. QED
    BY <2>1, <2>2, SegmentsGoInStep
<1>. QED
  BY <1>1, <1>2, <1>3, <1>4, <1>5, <1>6, <1>7, <1>8 DEF Next

\* Two hosts without sockets are in step.
LEMMA InitInStep == Init => AllInStep
<1>. SUFFICES ASSUME Init PROVE AllInStep
  OBVIOUS
<1>1. sockets[Server] = << >> /\ freePort = FirstFreePort
  BY ConstantTypes DEF Init
<1>2. Len(<< >>) = 0 /\ \A j \in 1 .. 0 : FALSE
  OBVIOUS
<1>3. ClientPorts = {}
  BY <1>1 DEF ClientPorts, FirstFreePort
<1>. QED
  BY <1>1, <1>2, <1>3 DEF AllInStep, ListenersNew

\* A sequence that agrees with the beginning of another is a prefix of it.
LEMMA PrefixByPlace ==
    ASSUME NEW T, NEW t \in Seq(T), NEW u, NEW n \in Nat, n <= Len(t),
           u = [k \in 1 .. n |-> t[k]]
    PROVE  IsPrefix(u, t)
<1>1. u = SubSeq(t, 1, n) /\ Len(u) = n /\ u \in Seq(T)
  BY SubSeqProperties
<1>2. SubSeq(u, 1, n) = u
  BY <1>1, SubSeqProperties
<1>. QED
  BY <1>1, <1>2 DEF IsPrefix

\* What was handed up is the beginning of what was sent.
LEMMA GotIsPrefix ==
    ASSUME NEW s \in Socket, NEW sent \in Seq(Payloads), Len(s.got) <= Len(sent),
           \A n \in 1 .. Len(s.got) : s.got[n].data = sent[n]
    PROVE  IsPrefix(GotData(s), sent)
<1>1. DOMAIN s.got = 1 .. Len(s.got) /\ Len(s.got) \in Nat
  BY SocketFields, LenProperties
<1>2. GotData(s) = [n \in 1 .. Len(s.got) |-> sent[n]]
  BY <1>1 DEF GotData
<1>. QED
  BY <1>1, <1>2, PrefixByPlace

\* While all conversations are in step, what was handed up is what was sent.
LEMMA InStepDelivers ==
    ASSUME IInv, AllInStep
    PROVE  DeliveredIsPrefix
<1>. USE ConstantTypes
<1>0. /\ sockets \in [Hosts -> Seq(Socket)]
      /\ sockets[Client] \in Seq(Socket) /\ sockets[Server] \in Seq(Socket)
  BY DEF IInv, TypeOK
<1>1. ASSUME NEW port \in ClientPorts
      PROVE  /\ ClientOf(port).sent \in Seq(Payloads)
             /\ \E b : InStep(b, ClientOf(port), ServingIn(sockets[Server], port),
                              Of(Server, net[Server], port), Of(Client, net[Client], port))
  BY Conversation, SocketFields DEF AllInStep, InStepOn
<1>2. ASSUME NEW i \in 1 .. Len(sockets[Server]), sockets[Server][i].got # << >>
      PROVE  \E j \in Peers(Server, sockets[Server][i]) :
               IsPrefix(GotData(sockets[Server][i]), sockets[Client][j].sent)
  <2>. DEFINE s == sockets[Server][i]
              port == s.rport
              j == port - FirstFreePort + 1
  <2>1. s \in Socket /\ ServerSocketOK(s)
    BY <1>0, ElementOfSeq DEF IInv, ServerTable
  <2>2. s.state # "LISTEN"
    BY <1>2 DEF AllInStep, ListenersNew
  <2>3. port \in ClientPorts
    BY <2>1, <2>2 DEF ServerSocketOK
  <2>4. j \in 1 .. Len(sockets[Client]) /\ port \in Int
    BY <2>3, ClientPortFacts
  <2>5. sockets[Client][j].lport = port
    <3>1. sockets[Client][j].lport = FirstFreePort + j - 1
      BY <2>4 DEF IInv, ClientTable, ClientSocketOK
    <3>. QED
      BY SMTT(30), <2>4, <3>1 DEF FirstFreePort
  <2>6. j \in Peers(Server, s)
    BY <2>4, <2>5 DEF Peers, PortOf
  <2>7. ClientOf(port) = sockets[Client][j]
    BY DEF ClientOf
  <2>8. s \in ServingIn(sockets[Server], port)
    BY DEF ServingIn
  <2>. HIDE DEF s, port, j
  <2>9. /\ sockets[Client][j].sent \in Seq(Payloads)
        /\ \E b : ServerInStep(b, sockets[Client][j].sent, s)
    BY <1>1, <2>3, <2>7, <2>8 DEF InStep
  <2>10. IsPrefix(GotData(s), sockets[Client][j].sent)
    BY <2>1, <2>9, GotIsPrefix DEF ServerInStep
  <2>. QED
    BY <2>6, <2>10 DEF s
<1>3. ASSUME NEW i \in 1 .. Len(sockets[Client]), sockets[Client][i].got # << >>
      PROVE  \E j \in Peers(Client, sockets[Client][i]) :
               IsPrefix(GotData(sockets[Client][i]), sockets[Server][j].sent)
  <2>. DEFINE c == sockets[Client][i]
              port == FirstFreePort + i - 1
  <2>1. c \in Socket /\ c.lport = port
    BY <1>0, ElementOfSeq DEF IInv, ClientTable, ClientSocketOK
  <2>2. port \in ClientPorts
    BY ClientPortFacts
  <2>3. ClientOf(port) = c
    <3>1. port - FirstFreePort + 1 = i
      BY DEF FirstFreePort
    <3>. QED
      BY <3>1 DEF ClientOf
  <2>. HIDE DEF c, port
  <2>4. PICK b : ClientInStep(b, c, ServingIn(sockets[Server], port))
    BY <1>1, <2>2, <2>3 DEF InStep
  <2>5. /\ Len(c.got) = 1 /\ c.got[1].data = Response
        /\ \E s \in ServingIn(sockets[Server], port) : s.sent = <<Response>>
    BY <1>3, <2>4 DEF ClientInStep, Answered, c
  <2>6. PICK j \in 1 .. Len(sockets[Server]) :
          sockets[Server][j].rport = port /\ sockets[Server][j].sent = <<Response>>
    BY <2>5 DEF ServingIn
  <2>7. j \in Peers(Client, c)
    BY <2>1, <2>6 DEF Peers, PortOf
  <2>8. <<Response>> \in Seq(Payloads) /\ Len(<<Response>>) = 1 /\ <<Response>>[1] = Response
    OBVIOUS
  <2>9. \A n \in 1 .. Len(c.got) : c.got[n].data = <<Response>>[n]
    <3>1. \A n \in 1 .. 1 : n = 1
      OBVIOUS
    <3>. QED
      BY <2>5, <2>8, <3>1
  <2>10. IsPrefix(GotData(c), <<Response>>)
    <3>1. PICK sent : sent = <<Response>>
      OBVIOUS
    <3>2. /\ sent \in Seq(Payloads) /\ Len(c.got) <= Len(sent)
          /\ \A n \in 1 .. Len(c.got) : c.got[n].data = sent[n]
      BY <2>5, <2>8, <2>9, <3>1
    <3>3. IsPrefix(GotData(c), sent)
      BY <2>1, <3>2, GotIsPrefix
    <3>. QED
      BY <3>1, <3>3
  <2>. QED
    BY <2>6, <2>7, <2>10 DEF c
<1>4. \A h \in Hosts : DOMAIN sockets[h] = 1 .. Len(sockets[h])
  BY <1>0, LenProperties
<1>5. Other(Client) = Server /\ Other(Server) = Client
  BY DEF Other
<1>6. ASSUME NEW h \in Hosts, NEW i \in 1 .. Len(sockets[h]), sockets[h][i].got # << >>
      PROVE  \E j \in Peers(h, sockets[h][i]) :
               IsPrefix(GotData(sockets[h][i]), sockets[Other(h)][j].sent)
  <2>1. CASE h = Server
    BY <1>2, <1>5, <1>6, <2>1
  <2>2. CASE h = Client
    BY <1>3, <1>5, <1>6, <2>2
  <2>. QED
    BY <2>1, <2>2
<1>. QED
  BY <1>4, <1>6 DEF DeliveredIsPrefix

\* Whatever the network loses, repeats and brings out of order, a socket hands up
\* what the other end sent, from the first byte on and without a gap (lines 195-209),
\* if no payload is all zeros and a connection's bytes all have different numbers.
THEOREM DeliveredIsPrefixHolds == NumbersSuffice => (Spec => []DeliveredIsPrefix)
<1>. SUFFICES ASSUME NumbersSuffice PROVE Spec => []DeliveredIsPrefix
  OBVIOUS
<1>1. IInv /\ IInv' /\ AllInStep /\ [Next]_vars => AllInStep'
  BY StepInStep
<1>2. IInv /\ AllInStep => DeliveredIsPrefix
  BY InStepDelivers
<1>. QED
  BY <1>1, <1>2, InitInStep, Invariance, PTL DEF Spec
=============================================================================
