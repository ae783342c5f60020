--------------------------------- MODULE TCP ---------------------------------
(***************************************************************************)
(* Network/tcp.cpp: two hosts that run this TCP, one that connects and one *)
(* that listens with the web server's handler, over a network that may     *)
(* lose, duplicate and reorder segments.                                   *)
(*                                                                         *)
(* A segment is handled in one step: the handler runs in the network       *)
(* card's interrupt, with interrupts off.  A segment's acknowledgement     *)
(* number, window and checksum are left out: the receiver reads none of    *)
(* them (the one read, line 232, is under a condition that cannot hold).   *)
(* Addresses are left out too, each host having one peer.                  *)
(***************************************************************************)
EXTENDS Integers, Sequences, SequencesExt

CONSTANTS Client, Server,  \* the two hosts
          ServerPort,      \* the port the server listens on, the client connects to
          Iss,             \* 0xbeefcafe
          SeqSpace,        \* 2^32: sequence numbers wrap
          HeaderLen,       \* headerSize32 * 4
          Requests,        \* the payloads the client may send
          ResponseLen,     \* the bytes of the web server's answer
          MaxListens, MaxConnects, MaxSends, MaxDisconnects,
                           \* BOUNDS on the applications' calls
          MaxFaults        \* BOUND on what the network loses, repeats or reorders

NoPort == 0        \* remotePort before a SYN sets it
FirstFreePort == 1024
PortSpace == 256 * 256

\* freePort and numSockets have 16 bits and are not asked to wrap.
ASSUME TCPAssumption ==
    /\ Client # Server
    /\ ServerPort \in Nat /\ HeaderLen \in Nat /\ ResponseLen \in Nat
    /\ SeqSpace \in Nat \ {0} /\ Iss \in 0 .. SeqSpace - 1
    /\ {MaxListens, MaxConnects, MaxSends, MaxDisconnects, MaxFaults} \subseteq Nat
    /\ MaxConnects <= PortSpace - FirstFreePort /\ MaxListens < PortSpace
    /\ Requests \subseteq [len : Nat, sig : Nat, get : BOOLEAN]

Hosts == {Client, Server}
Other(h) == IF h = Client THEN Server ELSE Client

States == {"CLOSED", "LISTEN", "SYN_SENT", "SYN_RECEIVED", "ESTABLISHED",
           "FIN_WAIT1", "FIN_WAIT2", "CLOSE_WAIT"}

\* A payload: its length, the length up to its last byte that is not zero, and
\* whether it starts with "GET / HTTP".
NoData == [len |-> 0, sig |-> 0, get |-> FALSE]
Response == [len |-> ResponseLen, sig |-> ResponseLen, get |-> FALSE]
Payloads == Requests \cup {NoData, Response}

Ports == {NoPort, ServerPort} \cup FirstFreePort .. FirstFreePort + MaxConnects

VARIABLES sockets,  \* each host's socket table
          freePort, \* the client's next local port
          net,      \* the segments on their way to each host
          spinning, \* hosts whose handler waits in Socket::Send for ever
          faults    \* what the network has done wrong so far

vars == <<sockets, freePort, net, spinning, faults>>

\* A sum that does not wrap.
PlusUnwrapped(a, b) == a + b

Plus(a, b) == (a + b) % SeqSpace

Socket ==
    [lport : Ports, rport : Ports, state : States,
     seq : 0 .. SeqSpace - 1, ack : 0 .. SeqSpace - 1,
     opened : BOOLEAN, fins : Nat,     \* ghosts: a SYN and ACK came; calls of Disconnect
     sent : Seq(Payloads),                               \* ghost: data sent
     got : Seq([seq : 0 .. SeqSpace - 1, data : Payloads])]  \* ghost: data handed up

Segment == [sport : Ports, dport : Ports, seq : 0 .. SeqSpace - 1,
            flags : SUBSET {"SYN", "ACK", "FIN", "RST", "PSH"}, data : Payloads]

TypeOK ==
    /\ sockets \in [Hosts -> Seq(Socket)]
    /\ freePort \in Nat
    /\ net \in [Hosts -> Seq(Segment)]
    /\ spinning \subseteq Hosts
    /\ faults \in Nat
-----------------------------------------------------------------------------
Matches(s, seg) ==
    /\ s.lport = seg.dport
    /\ \/ s.state = "LISTEN" /\ seg.flags \cap {"SYN", "ACK"} = {"SYN"}
       \/ s.rport = seg.sport

\* The socket made last is taken first.
SocketForLast(h, seg) ==
    SelectLastInSeq(sockets[h], LAMBDA s : Matches(s, seg))

\* The socket that line 102's loop finds for a segment, 0 if none.  A closed
\* socket is still in the table: the loop that removes it (line 239) never runs.
SocketFor(h, seg) ==
    SelectInSeq(sockets[h], LAMBDA s : Matches(s, seg))

\* Provider::Send: the segment that leaves socket s.
Out(s, flags, data) ==
    [sport |-> s.lport, dport |-> s.rport, seq |-> s.seq, flags |-> flags, data |-> data]

\* Lines 203-207: the acknowledgement number moves to behind the last byte that
\* is not zero; x stays 0 when all are zero.
Advance(data) == IF data.sig = 0 THEN 1 - HeaderLen ELSE data.sig

NewSocket(lport, rport, state) ==
    [lport |-> lport, rport |-> rport, state |-> state, seq |-> Iss, ack |-> 0,
     opened |-> FALSE, fins |-> 0, sent |-> << >>, got |-> << >>]

\* Socket s after sending data: Send adds the size to its sequence number.
AfterSend(s, data) == [s EXCEPT !.seq = Plus(@, data.len), !.sent = Append(@, data)]

\* Provider::Disconnect: FIN_WAIT1, FIN and ACK, and then the next number.
Disconnected(s) ==
    [s EXCEPT !.state = "FIN_WAIT1", !.seq = Plus(@, 1), !.fins = @ + 1]
-----------------------------------------------------------------------------
Init ==
    /\ sockets = [h \in Hosts |-> << >>]
    /\ freePort = FirstFreePort
    /\ net = [h \in Hosts |-> << >>]
    /\ spinning = {}
    /\ faults = 0

Listen ==
    /\ Server \notin spinning
    /\ Len(sockets[Server]) < MaxListens    \* BOUND
    /\ sockets' = [sockets EXCEPT ![Server] =
                     Append(@, NewSocket(ServerPort, NoPort, "LISTEN"))]
    /\ UNCHANGED <<freePort, net, spinning, faults>>

Connect ==
    /\ Len(sockets[Client]) < MaxConnects   \* BOUND
    /\ LET s == NewSocket(freePort, ServerPort, "SYN_SENT") IN
       /\ sockets' = [sockets EXCEPT ![Client] = Append(@, s)]
       /\ net' = [net EXCEPT ![Server] = Append(@, Out(s, {"SYN"}, NoData))]
    /\ freePort' = freePort + 1
    /\ UNCHANGED <<spinning, faults>>

\* Socket::Send from the client's own code: it waits until it is ESTABLISHED.
ClientSend(i, data) ==
    LET s == sockets[Client][i] IN
    /\ s.state = "ESTABLISHED"
    /\ Len(s.sent) < MaxSends               \* BOUND
    /\ sockets' = [sockets EXCEPT ![Client][i] = AfterSend(s, data)]
    /\ net' = [net EXCEPT ![Server] = Append(@, Out(s, {"PSH", "ACK"}, data))]
    /\ UNCHANGED <<freePort, spinning, faults>>

\* Socket::Disconnect from the client's own code, whatever state the socket is in.
ClientDisconnect(i) ==
    LET s == sockets[Client][i] IN
    /\ s.fins < MaxDisconnects              \* BOUND
    /\ sockets' = [sockets EXCEPT ![Client][i] = Disconnected(s)]
    /\ net' = [net EXCEPT ![Server] = Append(@, Out(s, {"FIN", "ACK"}, NoData))]
    /\ UNCHANGED <<freePort, spinning, faults>>
-----------------------------------------------------------------------------
(* OnInternetProtocolReceived: host h takes segment seg, rest being what is  *)
(* then left on its way to h.                                                *)

Switched(seg) == seg.flags \cap {"SYN", "ACK", "FIN"}

\* Socket i becomes s and out is sent.
Becomes(h, rest, i, s, out) ==
    /\ sockets' = [sockets EXCEPT ![h][i] = s]
    /\ net' = [net EXCEPT ![h] = rest, ![Other(h)] = @ \o out]
    /\ UNCHANGED spinning

Ignores(h, rest) ==
    /\ net' = [net EXCEPT ![h] = rest]
    /\ UNCHANGED <<sockets, spinning>>

\* Lines 113-114, and no answer.
RstArrives(h, seg, rest, i) ==
    /\ "RST" \in seg.flags
    /\ Becomes(h, rest, i, [sockets[h][i] EXCEPT !.state = "CLOSED"], << >>)

\* Any socket answers a SYN.
SynArrivesAlways(h, seg, rest, i) ==
    LET s == [sockets[h][i] EXCEPT !.state = "SYN_RECEIVED", !.rport = seg.sport,
                                   !.ack = Plus(seg.seq, 1), !.seq = Iss]
    IN /\ Switched(seg) = {"SYN"}
       /\ Becomes(h, rest, i, [s EXCEPT !.seq = Plus(@, 1)],
                  <<Out(s, {"SYN", "ACK"}, NoData)>>)

\* The SYN alone opens the connection.
SynOpens(h, seg, rest, i) ==
    LET s == [sockets[h][i] EXCEPT !.state = "ESTABLISHED", !.rport = seg.sport,
                                   !.ack = Plus(seg.seq, 1), !.seq = Iss]
    IN /\ Switched(seg) = {"SYN"} /\ sockets[h][i].state = "LISTEN"
       /\ Becomes(h, rest, i, [s EXCEPT !.seq = Plus(@, 1)],
                  <<Out(s, {"SYN", "ACK"}, NoData)>>)

\* Lines 120-130.
SynArrives(h, seg, rest, i) ==
    LET s == [sockets[h][i] EXCEPT !.state = "SYN_RECEIVED", !.rport = seg.sport,
                                   !.ack = Plus(seg.seq, 1), !.seq = Iss]
    IN /\ Switched(seg) = {"SYN"} /\ sockets[h][i].state = "LISTEN"
       /\ Becomes(h, rest, i, [s EXCEPT !.seq = Plus(@, 1)],
                  <<Out(s, {"SYN", "ACK"}, NoData)>>)

\* The number that the SYN itself takes is forgotten.
SynAckNotCounted(h, seg, rest, i) ==
    LET s == [sockets[h][i] EXCEPT !.state = "ESTABLISHED", !.opened = TRUE,
                                   !.ack = seg.seq, !.seq = Plus(@, 1)]
    IN /\ Switched(seg) = {"SYN", "ACK"} /\ sockets[h][i].state = "SYN_SENT"
       /\ Becomes(h, rest, i, s, <<Out(s, {"ACK"}, NoData)>>)

\* Lines 135-142.
SynAckArrives(h, seg, rest, i) ==
    LET s == [sockets[h][i] EXCEPT !.state = "ESTABLISHED", !.opened = TRUE,
                                   !.ack = Plus(seg.seq, 1), !.seq = Plus(@, 1)]
    IN /\ Switched(seg) = {"SYN", "ACK"} /\ sockets[h][i].state = "SYN_SENT"
       /\ Becomes(h, rest, i, s, <<Out(s, {"ACK"}, NoData)>>)

\* Lines 154-170.
FinArrives(h, seg, rest, i) ==
    LET s == sockets[h][i]
        counted == [s EXCEPT !.ack = Plus(@, 1)]
    IN /\ Switched(seg) \in {{"FIN"}, {"FIN", "ACK"}}
       /\ \/ /\ s.state = "ESTABLISHED"
             /\ Becomes(h, rest, i, [counted EXCEPT !.state = "CLOSE_WAIT"],
                        <<Out(counted, {"ACK"}, NoData),
                          Out(counted, {"FIN", "ACK"}, NoData)>>)
          \/ /\ s.state = "CLOSE_WAIT"
             /\ Becomes(h, rest, i, [s EXCEPT !.state = "CLOSED"], << >>)
          \/ /\ s.state \in {"FIN_WAIT1", "FIN_WAIT2"}
             /\ Becomes(h, rest, i, [counted EXCEPT !.state = "CLOSED"],
                        <<Out(counted, {"ACK"}, NoData)>>)

\* The ACK that completes the handshake is data like any other.
AckMovesClosingOnly == [FIN_WAIT1 |-> "FIN_WAIT2", CLOSE_WAIT |-> "CLOSED"]

\* The state an ACK moves a socket to, whatever it acknowledges and carries.
AckMoves == [SYN_RECEIVED |-> "ESTABLISHED", FIN_WAIT1 |-> "FIN_WAIT2",
             CLOSE_WAIT |-> "CLOSED"]

\* Lines 175-190: any data the segment carries is dropped.
AckArrives(h, seg, rest, i) ==
    LET s == sockets[h][i] IN
    /\ Switched(seg) = {"ACK"} /\ s.state \in DOMAIN AckMoves
    /\ Becomes(h, rest, i, [s EXCEPT !.state = AckMoves[s.state]], << >>)

\* Line 192.
PlainAckArrives(h, seg, rest, i) ==
    /\ seg.flags = {"ACK"} /\ sockets[h][i].state \notin DOMAIN AckMoves
    /\ Ignores(h, rest)

IsData(seg, s) ==
    \/ Switched(seg) = {}
    \/ Switched(seg) = {"ACK"} /\ seg.flags # {"ACK"} /\ s.state \notin DOMAIN AckMoves

\* Data from further on is taken too.
InOrderOrNewer(seg, s) == seg.seq >= s.ack

InOrder(seg, s) == seg.seq = s.ack

\* The socket after line 207 has counted the data it handed to the handler.
Counted(s, seg) == [s EXCEPT !.ack = Plus(@, Advance(seg.data)),
                             !.got = Append(@, [seq |-> seg.seq, data |-> seg.data])]

\* Lines 197-209 with a handler that only prints.
TextArrives(h, seg, rest, i) ==
    LET s == Counted(sockets[h][i], seg) IN
    /\ IsData(seg, sockets[h][i]) /\ InOrder(seg, sockets[h][i]) /\ ~seg.data.get
    /\ Becomes(h, rest, i, s, <<Out(s, {"ACK"}, NoData)>>)

\* The web server's handler sends its page and disconnects; the ACK for the
\* request is sent after the FIN.
RequestArrives(h, seg, rest, i) ==
    LET s == sockets[h][i]
        sent == AfterSend(s, Response)
        done == Counted(Disconnected(sent), seg)
    IN /\ IsData(seg, s) /\ InOrder(seg, s) /\ seg.data.get
       /\ s.state = "ESTABLISHED"
       /\ Becomes(h, rest, i, done,
                  <<Out(s, {"PSH", "ACK"}, Response), Out(sent, {"FIN", "ACK"}, NoData),
                    Out(done, {"ACK"}, NoData)>>)

\* Socket::Send waits for a state that only this interrupt's return could set.
RequestSpins(h, seg, rest, i) ==
    LET s == sockets[h][i] IN
    /\ IsData(seg, s) /\ InOrder(seg, s) /\ seg.data.get
    /\ s.state # "ESTABLISHED"
    /\ spinning' = spinning \cup {h}
    /\ net' = [net EXCEPT ![h] = rest]
    /\ UNCHANGED sockets

\* What is answered with RST: lines 132, 144, 149, 172, and "data in wrong
\* order", line 213.  The socket keeps its state.
WrongOrder(seg, s) == IsData(seg, s) /\ ~InOrder(seg, s)
Refused(seg, s) ==
    \/ Switched(seg) = {"SYN"} /\ s.state # "LISTEN"
    \/ Switched(seg) = {"SYN", "ACK"} /\ s.state # "SYN_SENT"
    \/ {"SYN", "FIN"} \subseteq seg.flags
    \/ /\ Switched(seg) \in {{"FIN"}, {"FIN", "ACK"}}
       /\ s.state \in {"LISTEN", "SYN_SENT", "SYN_RECEIVED"}
    \/ WrongOrder(seg, s)

IsRefused(h, seg, rest, i) ==
    /\ Refused(seg, sockets[h][i])
    /\ Becomes(h, rest, i, sockets[h][i], <<Out(sockets[h][i], {"RST"}, NoData)>>)

Handle(h, seg, rest) ==
    LET i == SocketFor(h, seg) IN
    IF i = 0 \/ (i # 0 /\ sockets[h][i].state = "CLOSED")
    THEN Ignores(h, rest)
    ELSE \/ RstArrives(h, seg, rest, i)
         \/ /\ "RST" \notin seg.flags
            /\ \/ SynArrives(h, seg, rest, i) \/ SynAckArrives(h, seg, rest, i)
               \/ FinArrives(h, seg, rest, i) \/ AckArrives(h, seg, rest, i)
               \/ PlainAckArrives(h, seg, rest, i) \/ TextArrives(h, seg, rest, i)
               \/ RequestArrives(h, seg, rest, i) \/ RequestSpins(h, seg, rest, i)
               \/ IsRefused(h, seg, rest, i)

\* The network brings the oldest segment.
Arrive(h) ==
    /\ net[h] # << >> /\ h \notin spinning
    /\ Handle(h, Head(net[h]), Tail(net[h]))
    /\ UNCHANGED <<freePort, faults>>

\* The network brings a younger one first, or leaves a copy of it behind.
ArriveDisturbed(h) ==
    /\ h \notin spinning /\ faults < MaxFaults
    /\ \/ \E k \in 2 .. Len(net[h]) : Handle(h, net[h][k], RemoveAt(net[h], k))
       \/ \E k \in 1 .. Len(net[h]) : Handle(h, net[h][k], net[h])
    /\ faults' = faults + 1
    /\ UNCHANGED freePort

Lose(h) ==
    /\ faults < MaxFaults
    /\ \E k \in 1 .. Len(net[h]) : net' = [net EXCEPT ![h] = RemoveAt(@, k)]
    /\ faults' = faults + 1
    /\ UNCHANGED <<sockets, freePort, spinning>>

Next ==
    \/ Listen \/ Connect
    \/ \E i \in 1 .. Len(sockets[Client]) :
         ClientDisconnect(i) \/ \E data \in Requests : ClientSend(i, data)
    \/ \E h \in Hosts : Arrive(h) \/ ArriveDisturbed(h) \/ Lose(h)

\* Segments that are on their way arrive: the receive interrupt is served.
Spec == Init /\ [][Next]_vars /\ \A h \in Hosts : WF_vars(Arrive(h))
-----------------------------------------------------------------------------
\* The other end of socket s of host h: a connection is a client's port.
PortOf(h, s) == IF h = Client THEN s.lport ELSE s.rport
Peers(h, s) == {i \in 1 .. Len(sockets[Other(h)]) :
                  PortOf(Other(h), sockets[Other(h)][i]) = PortOf(h, s)}

GotData(s) == [n \in DOMAIN s.got |-> s.got[n].data]

\* What a socket hands to its handler is what the other end sent, from the first
\* byte on, without a gap and without a repetition, whatever the network does
\* (lines 195-209: only the next segment is handed up, no other is kept).
DeliveredIsPrefix ==
    \A h \in Hosts : \A i \in DOMAIN sockets[h] :
        LET s == sockets[h][i] IN
        s.got # << >> =>
            \E j \in Peers(h, s) : IsPrefix(GotData(s), sockets[Other(h)][j].sent)

\* No payload is all zeros, and a connection has more sequence numbers than bytes
\* and FINs.
NumbersSuffice ==
    /\ 0 < ResponseLen /\ ResponseLen + MaxDisconnects < SeqSpace
    /\ \A data \in Requests :
         0 < data.sig /\ data.sig <= data.len /\ MaxSends * data.len < SeqSpace

\* Where the next byte that s waits for stands in the other end's sequence numbers.
NextByte(s) == IF s.got = << >> THEN Plus(Iss, 1)
               ELSE Plus(Last(s.got).seq, Last(s.got).data.len)

\* A data segment that starts at the next byte the socket waits for is not taken
\* for "data in wrong order" (line 213).
NextByteIsInOrder ==
    \A h \in Hosts : \A k \in 1 .. Len(net[h]) :
        LET seg == net[h][k]
            i == SocketFor(h, seg)
        IN i # 0 /\ "RST" \notin seg.flags =>
             LET s == sockets[h][i] IN
             s.state # "CLOSED" /\ IsData(seg, s) /\ seg.seq = NextByte(s)
               => ~WrongOrder(seg, s)

\* A listening socket serves one client: no client has two of the server's
\* sockets, though a repeated SYN finds further listeners (line 105).
OneSocketPerClient ==
    \A i, j \in 1 .. Len(sockets[Server]) :
        i < j /\ sockets[Server][i].rport = sockets[Server][j].rport
          => sockets[Server][i].rport = NoPort

\* The server's end is open only if the client's end has been: SYN_RECEIVED is
\* left on any ACK of that port (line 176), none of which comes before line 141.
OpenOnBothEnds ==
    \A i \in 1 .. Len(sockets[Server]) :
        sockets[Server][i].state \in {"ESTABLISHED", "FIN_WAIT1", "FIN_WAIT2", "CLOSE_WAIT"}
          => \E j \in Peers(Server, sockets[Server][i]) : sockets[Client][j].opened

\* A connection is reset only if the network misbehaved, the client left before
\* its connection was open (line 172 answers its FIN), or it sent more than one
\* segment (the server's FIN_WAIT1 drops one, line 181, and the next one is out of
\* order).
NoResetWithoutCause ==
    faults = 0 /\ (\A i \in 1 .. Len(sockets[Client]) :
                     LET s == sockets[Client][i] IN
                     Len(s.sent) <= 1 /\ (s.fins > 0 => s.opened))
      => \A h \in Hosts : \A k \in 1 .. Len(net[h]) : "RST" \notin net[h][k].flags

\* The handler waits for ever in Socket::Send (line 62) only for a request that
\* follows one it has answered and disconnected after.
SpinsOnLaterRequest ==
    spinning # {} =>
      \E i \in 1 .. Len(sockets[Server]) :
         LET s == sockets[Server][i] IN
         /\ s.state \in {"FIN_WAIT1", "FIN_WAIT2"}
         /\ \E n \in DOMAIN s.got : s.got[n].data.get

\* The order in which a socket goes through its states.
Rank == [LISTEN |-> 0, SYN_SENT |-> 0, SYN_RECEIVED |-> 1, ESTABLISHED |-> 2,
         FIN_WAIT1 |-> 3, FIN_WAIT2 |-> 4, CLOSE_WAIT |-> 4, CLOSED |-> 5]

\* No segment takes a socket's state back, and a closed socket stays closed though
\* it stays in the table and segments still find it (line 116).  Only the client's
\* own Disconnect goes back: lines 320-325 test no state, so the usual close of a
\* socket the other end has closed makes it wait for a second FIN.
NeverGoesBack ==
    [][\A h \in Hosts : \A i \in DOMAIN sockets[h] :
         /\ \/ Rank[sockets'[h][i].state] >= Rank[sockets[h][i].state]
            \/ h = Client /\ ClientDisconnect(i)
         /\ sockets[h][i].rport # NoPort => sockets'[h][i].rport = sockets[h][i].rport]_vars

\* A request that is the first thing its connection carries is answered, as long
\* as the network does nothing wrong, the kernel does not spin, and the client
\* waits for the answer (a client that disconnects drops it, line 181).
Asked(i) == /\ i \in DOMAIN sockets[Client]
            /\ sockets[Client][i].state = "ESTABLISHED"
            /\ sockets[Client][i].sent # << >> /\ Head(sockets[Client][i].sent).get
Settled(i) == /\ i \in DOMAIN sockets[Client]
              /\ \/ sockets[Client][i].got # << >>
                 \/ sockets[Client][i].state = "FIN_WAIT1"
                 \/ faults > 0 \/ spinning # {}
RequestIsAnswered == \A i \in 1 .. MaxConnects : Asked(i) ~> Settled(i)
=============================================================================
