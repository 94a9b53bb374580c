----------------------------- MODULE EdgeTunnel -----------------------------
(***************************************************************************)
(* The server's connections to the edge: one goroutine per index that      *)
(* calls EdgeTunnelServer.Serve for ever (server/config.go), picks an edge *)
(* address (server/cfd/tunnel.go), binds a UDP socket and dials            *)
(* (server/cfd/quic.go), registers (server/cfd/register.go) and accepts    *)
(* streams until the connection dies (server/cfd/connection.go).           *)
(*                                                                         *)
(* The streams a connection carries are the sessions of ServerStream.      *)
(***************************************************************************)
EXTENDS Naturals, Sequences, FiniteSets, Functions

CONSTANTS
    HaConn,      \* number of connections
    EdgeIPs,     \* the parsed edge-ips of the configuration
    Region1,     \* what LookupHost answers for the first region
    Region2,     \* and for the second
    Ports,       \* local UDP ports
    NoPort,      \* no socket, or no recorded port
    NoConn       \* owner of a port that is free

Conns == 0..(HaConn - 1)

\* The address an index gets when DNS gives it none, 198.41.192.<index>.
Fallback(i) == <<"198.41.192", i>>

\* An index is a uint8 from serveQUIC on; Config.Run does not check it.
ASSUME HaConnAssumption == HaConn \in 1..256
ASSUME PortsAssumption == IsFiniteSet(Ports) /\ NoPort \notin Ports /\ NoConn \notin Conns
\* Any lists: an address may be in one of them twice, or in several of them, and
\* it may be one of the fallbacks.
ASSUME AddrsAssumption ==
    /\ EdgeIPs \in Seq(Range(EdgeIPs))
    /\ Region1 \in Seq(Range(Region1)) /\ Region2 \in Seq(Range(Region2))

VARIABLES
    pc,          \* "start", "listen", "dial", "open", "register", "pause",
                 \* "accept" or "sleep"
    edgeIPs,     \* the channel EdgeIPS
    nsResult,    \* NsResult
    edge,        \* edgeAddr of the present Serve
    owner,       \* the connection that has bound a port
    sock,        \* udpConn of the present Serve: its port, or NoPort
    portFor,     \* portForConnIndex
    conn,        \* the QUIC connection: "none", "up" or "dead"
    reg,         \* the control stream: "first" attempt, an attempt made "again",
                 \* or one whose answer is "lost"
    leaked,      \* sockets that Serve left open when OpenStream failed
    tokenOk      \* ParseToken accepts the token; never changes

addrs == <<edgeIPs, nsResult, edge>>
socks == <<owner, sock, portFor>>
vars  == <<pc, addrs, socks, conn, reg, leaked, tokenOk>>

Addrs == Range(EdgeIPs) \cup Range(Region1) \cup Range(Region2)
             \cup {Fallback(i) : i \in Conns}

TypeOK ==
    /\ pc \in [Conns -> {"start", "listen", "dial", "open", "register", "pause",
                         "accept", "sleep"}]
    /\ \E k \in 0..Len(EdgeIPs) : edgeIPs = SubSeq(EdgeIPs, k + 1, Len(EdgeIPs))
    /\ nsResult \in {<<>>, Region1, Region2, Region1 \o Region2}
    /\ edge \in [Conns -> Addrs]
    /\ owner \in [Ports -> Conns \cup {NoConn}]
    /\ sock \in [Conns -> Ports \cup {NoPort}]
    /\ portFor \in [Conns -> Ports \cup {NoPort}]
    /\ conn \in [Conns -> {"none", "up", "dead"}]
    /\ reg \in [Conns -> {"first", "again", "lost"}]
    /\ leaked \in [Conns -> SUBSET Ports]
    /\ tokenOk \in BOOLEAN

\* The value of edge is of no account before the first Serve.
Init ==
    /\ pc = [i \in Conns |-> "start"]
    /\ edgeIPs = EdgeIPs
    /\ nsResult = <<>>
    /\ edge = [i \in Conns |-> Fallback(i)]
    /\ owner = [p \in Ports |-> NoConn]
    /\ sock = [i \in Conns |-> NoPort]
    /\ portFor = [i \in Conns |-> NoPort]
    /\ conn = [i \in Conns |-> "none"]
    /\ reg = [i \in Conns |-> "first"]
    /\ leaked = [i \in Conns |-> {}]
    /\ tokenOk \in BOOLEAN

Goto(i, label) == pc' = [pc EXCEPT ![i] = label]

-----------------------------------------------------------------------------
(* Serve: getEdgeIP, a critical section, and ParseToken *)

Uses(i, addr) ==
    /\ edge' = [edge EXCEPT ![i] = addr]
    /\ Goto(i, IF tokenOk THEN "listen" ELSE "sleep")
    /\ UNCHANGED <<socks, conn, reg, leaked, tokenOk>>

\* case addrPort := <-e.EdgeIPS
PopEdgeIP(i) ==
    /\ pc[i] = "start"
    /\ edgeIPs # <<>>
    /\ edgeIPs' = Tail(edgeIPs)
    /\ Uses(i, Head(edgeIPs))
    /\ UNCHANGED nsResult

\* Faulty variant: every index takes the first address.
AddrFirst(ns, i) == IF ns # <<>> THEN ns[1] ELSE Fallback(i)

\* The address of an index among the cached DNS results.
AddrAt(ns, i) == IF Len(ns) > i THEN ns[i + 1] ELSE Fallback(i)

\* The answers of those lookups that succeed, one after the other.
Lookup(ok) == (IF "region1" \in ok THEN Region1 ELSE <<>>)
                  \o (IF "region2" \in ok THEN Region2 ELSE <<>>)

\* Faulty variant: the cache is not consulted, and the answers are appended.
LookupEdgeIPUncached(i, ok) ==
    /\ pc[i] = "start"
    /\ edgeIPs = <<>>
    /\ nsResult' = nsResult \o Lookup(ok)
    /\ Uses(i, AddrAt(nsResult', i))
    /\ UNCHANGED edgeIPs

\* default: what the first successful lookups gave is kept for ever, the answer
\* of one region alone included.
LookupEdgeIP(i, ok) ==
    /\ pc[i] = "start"
    /\ edgeIPs = <<>>
    /\ nsResult' = IF nsResult = <<>> THEN Lookup(ok) ELSE nsResult
    /\ Uses(i, AddrAt(nsResult', i))
    /\ UNCHANGED edgeIPs

-----------------------------------------------------------------------------
(* createUDPConnForConnIndex, a critical section *)

Binds(i, p) ==
    /\ owner' = [owner EXCEPT ![p] = i]
    /\ sock' = [sock EXCEPT ![i] = p]
    /\ Goto(i, "dial")
    /\ UNCHANGED <<addrs, conn, reg, leaked, tokenOk>>

\* The recorded port can be bound again.
ListenRecorded(i) ==
    /\ pc[i] = "listen"
    /\ portFor[i] # NoPort
    /\ owner[portFor[i]] = NoConn
    /\ Binds(i, portFor[i])
    /\ UNCHANGED portFor

\* There is none, or binding it fails: any free port.
ListenAny(i, p) ==
    /\ pc[i] = "listen"
    /\ owner[p] = NoConn
    /\ Binds(i, p)
    /\ portFor' = [portFor EXCEPT ![i] = p]

\* No port can be bound: the record is deleted, and Serve returns the error.
ListenFails(i) ==
    /\ pc[i] = "listen"
    /\ portFor' = [portFor EXCEPT ![i] = NoPort]
    /\ Goto(i, "sleep")
    /\ UNCHANGED <<addrs, owner, sock, conn, reg, leaked, tokenOk>>

-----------------------------------------------------------------------------
(* DialQuic *)

DialOk(i) ==
    /\ pc[i] = "dial"
    /\ conn' = [conn EXCEPT ![i] = "up"]
    /\ Goto(i, "open")
    /\ UNCHANGED <<addrs, socks, reg, leaked, tokenOk>>

CloseSocket(i) ==
    /\ owner' = [owner EXCEPT ![sock[i]] = NoConn]
    /\ sock' = [sock EXCEPT ![i] = NoPort]

\* Faulty variant: the socket of a failed dial is forgotten.
DialFailsOpen(i) ==
    /\ pc[i] = "dial"
    /\ sock' = [sock EXCEPT ![i] = NoPort]
    /\ Goto(i, "sleep")
    /\ UNCHANGED <<addrs, owner, portFor, conn, reg, leaked, tokenOk>>

\* The handshake fails or times out: udpConn.Close()
DialFails(i) ==
    /\ pc[i] = "dial"
    /\ CloseSocket(i)
    /\ Goto(i, "sleep")
    /\ UNCHANGED <<addrs, portFor, conn, reg, leaked, tokenOk>>

-----------------------------------------------------------------------------
(* QuicConnection.Serve and acceptStream *)

OpenStream(i) ==
    /\ pc[i] = "open"
    /\ conn[i] = "up"
    /\ reg' = [reg EXCEPT ![i] = "first"]
    /\ Goto(i, "register")
    /\ UNCHANGED <<addrs, socks, conn, leaked, tokenOk>>

\* OpenStream fails, because the connection is dead or at its limit of streams:
\* Serve returns without Close, and the port stays bound.
OpenStreamFails(i) ==
    /\ pc[i] = "open"
    /\ conn' = [conn EXCEPT ![i] = "none"]
    /\ leaked' = [leaked EXCEPT ![i] = @ \cup {sock[i]}]
    /\ sock' = [sock EXCEPT ![i] = NoPort]
    /\ Goto(i, "sleep")
    /\ UNCHANGED <<addrs, owner, portFor, reg, tokenOk>>

\* The edge accepts the registration of a remotely managed tunnel.
Registered(i) ==
    /\ pc[i] = "register"
    /\ conn[i] = "up" /\ reg[i] # "lost"
    /\ Goto(i, "accept")
    /\ UNCHANGED <<addrs, socks, conn, reg, leaked, tokenOk>>

\* An error, or a tunnel that is not remotely managed: sleep and try again.
NotRegistered(i) ==
    /\ pc[i] = "register"
    /\ \/ conn[i] = "up" /\ reg[i] # "lost"
       \/ conn[i] = "dead"
    /\ reg' = [reg EXCEPT ![i] = "again"]
    /\ Goto(i, "pause")
    /\ UNCHANGED <<addrs, socks, conn, leaked, tokenOk>>

\* The rpc connection of the attempt before still reads the control stream and
\* takes the answer; RegisterConnection waits without a deadline.
AnswerLost(i) ==
    /\ pc[i] = "register"
    /\ conn[i] = "up" /\ reg[i] = "again"
    /\ reg' = [reg EXCEPT ![i] = "lost"]
    /\ UNCHANGED <<pc, addrs, socks, conn, leaked, tokenOk>>

\* time.Sleep(1 * time.Second)
RegisterAgain(i) ==
    /\ pc[i] = "pause"
    /\ Goto(i, "register")
    /\ UNCHANGED <<addrs, socks, conn, reg, leaked, tokenOk>>

\* Faulty variant: the loop goes on after an error.
AcceptContinues(i) ==
    /\ pc[i] = "accept"
    /\ conn[i] = "dead"
    /\ UNCHANGED vars

\* AcceptStream fails: the deferred Close ends connection and socket.
AcceptFails(i) ==
    /\ pc[i] = "accept"
    /\ conn[i] = "dead"
    /\ conn' = [conn EXCEPT ![i] = "none"]
    /\ CloseSocket(i)
    /\ Goto(i, "sleep")
    /\ UNCHANGED <<addrs, portFor, reg, leaked, tokenOk>>

\* time.Sleep(3 * time.Second) in the loop of Config.Run
Restart(i) ==
    /\ pc[i] = "sleep"
    /\ Goto(i, "start")
    /\ UNCHANGED <<addrs, socks, conn, reg, leaked, tokenOk>>

\* The edge closes the connection, or MaxIdleTimeout passes in silence.
ConnDies(i) ==
    /\ conn[i] = "up"
    /\ conn' = [conn EXCEPT ![i] = "dead"]
    /\ UNCHANGED <<pc, addrs, socks, reg, leaked, tokenOk>>

\* Nothing refers to a socket that was left any longer, once its connection is
\* over: the finalizer of the UDPConn closes it.
Finalize(i, p) ==
    /\ p \in leaked[i]
    /\ leaked' = [leaked EXCEPT ![i] = @ \ {p}]
    /\ owner' = [owner EXCEPT ![p] = NoConn]
    /\ UNCHANGED <<pc, addrs, sock, portFor, conn, reg, tokenOk>>

-----------------------------------------------------------------------------
Listen(i) == ListenRecorded(i) \/ ListenFails(i) \/ (\E p \in Ports : ListenAny(i, p))
Dial(i) == DialOk(i) \/ DialFails(i)
Open(i) == OpenStream(i) \/ OpenStreamFails(i)
GetEdgeIP(i) == PopEdgeIP(i) \/ \E ok \in SUBSET {"region1", "region2"} : LookupEdgeIP(i, ok)

Next == \E i \in Conns :
    \/ GetEdgeIP(i) \/ Listen(i) \/ Dial(i) \/ Open(i)
    \/ Registered(i) \/ NotRegistered(i) \/ AnswerLost(i) \/ RegisterAgain(i)
    \/ AcceptFails(i) \/ Restart(i) \/ ConnDies(i)
    \/ \E p \in Ports : Finalize(i, p)

Spec == Init /\ [][Next]_vars

\* Goroutines run, lookups and handshakes end, and calls on a dead connection
\* fail.  The edge need not answer a registration, nor a connection die.
Fairness == \A i \in Conns :
    /\ WF_vars(GetEdgeIP(i)) /\ WF_vars(Listen(i))
    /\ WF_vars(Dial(i)) /\ WF_vars(Open(i))
    /\ WF_vars(conn[i] = "dead" /\ NotRegistered(i))
    /\ WF_vars(RegisterAgain(i)) /\ WF_vars(AcceptFails(i)) /\ WF_vars(Restart(i))

FairSpec == Spec /\ Fairness

-----------------------------------------------------------------------------
(* Properties *)

\* A socket stays bound for a connection in use, or else because OpenStream
\* failed (connection.go:55-58): no other way through Serve leaks one or closes
\* one that is not its own (quic.go:34-38, 53-57, connection.go:85).  The port of
\* a connection in use is the one recorded for its index, for the next Serve to
\* ask for again (quic.go:79-94), though another index may have had it meanwhile.
SocketsAccounted ==
    \A i \in Conns :
        /\ {p \in Ports : owner[p] = i} = leaked[i] \cup ({sock[i]} \ {NoPort})
        /\ sock[i] # NoPort => portFor[i] = sock[i] /\ sock[i] \notin leaked[i]

\* Where an address can come from: its places in edge-ips and among the cached
\* DNS results, and the index it is the fallback of.
Places(addr) ==
    {s \in {"config"} \X DOMAIN EdgeIPs : EdgeIPs[s[2]] = addr}
        \cup {s \in {"dns"} \X DOMAIN nsResult : nsResult[s[2]] = addr}
        \cup {s \in {"fallback"} \X Conns : Fallback(s[2]) = addr}

\* Connections in use at the same time go to different edge addresses, as far
\* as there are different ones: an address has no more of them than it has
\* places, whatever lookups fail and in whatever order the indexes reconnect
\* (tunnel.go:26-60).  Only an address that is listed twice is shared.
DistinctEdges ==
    \A addr \in Addrs :
        Cardinality({i \in Conns : sock[i] # NoPort /\ edge[i] = addr})
            <= Cardinality(Places(addr))

\* A registered connection that dies is replaced: its index calls Serve again
\* (connection.go:84-96, config.go:98-103).
RegisteredReplaced ==
    \A i \in Conns : (pc[i] = "accept" /\ conn[i] = "dead") ~> pc[i] = "start"
=============================================================================
