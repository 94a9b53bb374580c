----------------------------- MODULE TunSession -----------------------------
(***************************************************************************)
(* A session of the TUN client from end to end: Dial takes a connection    *)
(* from the pool (ArgoPool) or makes one, the relay (Relay) writes the     *)
(* application's data to it, and the server's handler (ServerStream) dials *)
(* the destination and forwards.  Client and server must agree, without    *)
(* another word, on who is told the destination when (HeaderCodec), on a   *)
(* connection that may have died in the pool.                              *)
(*                                                                         *)
(* The way back from the destination is in Relay and ServerStream; here    *)
(* the destination only ends.                                              *)
(***************************************************************************)
EXTENDS HeaderCodec, SequencesExt

CONSTANTS
    Metadatas,    \* destinations: records [IPVersion, Network, DstIP, DstPort]
    Payloads,     \* what the application writes at once, never empty
    MaxWrites,    \* bound on the writes of a session
    ServerBuf,    \* the buffer of the server's handler, 32 KiB
    Proxied       \* the IP versions that Proxy4 and Proxy6 send through WARP

ASSUME MetadatasAssumption ==
    \A m \in Metadatas :
        /\ m.IPVersion \in {4, 6}
        /\ m.Network \in {TCP, UDP}
        /\ m.DstIP \in Seq(Byte)
        /\ Len(m.DstIP) = IF m.IPVersion = 4 THEN 4 ELSE 16
        /\ m.DstPort \in Port
ASSUME PayloadsAssumption ==
    \A p \in Payloads : p \in Seq(Byte) /\ Len(p) > 0
ASSUME BoundsAssumption == MaxWrites \in Nat \ {0} /\ Proxied \subseteq {4, 6}
\* It takes an IPv6 header and the two bytes that Decode asks for.
ASSUME ServerBufAssumption == ServerBuf \in Nat /\ ServerBuf >= 22

VARIABLES
    app,          \* the session: "idle", "piping" or "over"
    md,           \* its metadata, once it has begun
    sent,         \* what the application has written
    link,         \* the connection: "none", "pooled", "open", "broken" or "closed"
    hdr,          \* argoConn: "none" (no argoConn), "due" or "sent"
    wire,         \* messages under way to the server
    srv,          \* the handler: "none", "first", "dial", "payload", "loop",
                  \* "refused" or "over"
    target,       \* what it is to dial, or NoTarget
    first,        \* the payload of the first message
    dialled,      \* what it has dialled: a target and via, or <<>>
    remote,       \* the destination: "none", "open", "eof" (nothing more comes
                  \* from it) or "closed" (by handleRemoteConn)
    got           \* what it has written to the destination

client == <<app, md, sent, hdr>>
server == <<srv, target, first, dialled, remote, got>>
vars   == <<client, link, wire, server>>

NoMetadata == [IPVersion |-> 0]

TypeOK ==
    /\ app \in {"idle", "piping", "over"}
    /\ md \in Metadatas \cup {NoMetadata}
    /\ sent \in Seq(Payloads) /\ Len(sent) <= MaxWrites
    /\ link \in {"none", "pooled", "open", "broken", "closed"}
    /\ hdr \in {"none", "due", "sent"}
    /\ wire \in Seq(Seq(Byte))
    /\ srv \in {"none", "first", "dial", "payload", "loop", "refused", "over"}
    /\ first \in Seq(Byte) /\ Len(first) <= ServerBuf
    /\ remote \in {"none", "open", "eof", "closed"}
    /\ got \in Seq(Seq(Byte)) /\ \A i \in DOMAIN got : Len(got[i]) <= ServerBuf

Init ==
    /\ app = "idle" /\ md = NoMetadata /\ sent = <<>> /\ hdr = "none"
    /\ link = "none" /\ wire = <<>>
    /\ srv = "none" /\ target = NoTarget /\ first = <<>> /\ dialled = <<>>
    /\ remote = "none" /\ got = <<>>

-----------------------------------------------------------------------------
(* The pool and Dial *)

\* preDial: connect(nil); the server's handler waits for a first message.
PreDial ==
    /\ app = "idle" /\ link = "none"
    /\ link' = "pooled" /\ srv' = "first"
    /\ UNCHANGED <<client, wire, target, first, dialled, remote, got>>

\* The connection breaks, in the pool or in use.
LinkBreaks ==
    /\ link \in {"pooled", "open"}
    /\ link' = "broken"
    /\ UNCHANGED <<client, wire, server>>

\* Dial takes a pooled connection, dead or alive, and wraps it.
DialPooled(m) ==
    /\ app = "idle" /\ link \in {"pooled", "broken"}
    /\ app' = "piping" /\ md' = m /\ hdr' = "due"
    /\ link' = IF link = "pooled" THEN "open" ELSE link
    /\ UNCHANGED <<sent, wire, server>>

\* Nothing pooled: connect(metadata), whose request carries the destination.
DialFresh(m) ==
    /\ app = "idle" /\ link = "none"
    /\ app' = "piping" /\ md' = m
    /\ link' = "open"
    /\ srv' = "dial" /\ target' = header(m)
    /\ UNCHANGED <<sent, hdr, wire, first, dialled, remote, got>>

DialFails(m) ==
    /\ app = "idle" /\ link = "none"
    /\ app' = "over" /\ md' = m
    /\ UNCHANGED <<sent, hdr, link, wire, server>>

-----------------------------------------------------------------------------
(* The relay: argoConn.Write, whose mutex makes writers take turns *)

Message(p) == IF hdr = "due" THEN addHeader(parseHeader(md), p) ELSE p

Sent(p) ==
    /\ app = "piping" /\ Len(sent) < MaxWrites
    /\ sent' = Append(sent, p)

Write(p) ==
    /\ link = "open"
    /\ Sent(p)
    /\ hdr' = IF hdr = "due" THEN "sent" ELSE hdr
    /\ wire' = Append(wire, Message(p))
    /\ UNCHANGED <<app, md, link, server>>

\* A write to a dead connection is lost, until one fails.
WriteLost(p) ==
    /\ link = "broken"
    /\ Sent(p)
    /\ hdr' = IF hdr = "due" THEN "sent" ELSE hdr
    /\ UNCHANGED <<app, md, link, wire, server>>

\* A direction of the relay ends: the application is done, or the connection is
\* broken; then both are closed.
RelayEnds ==
    /\ app = "piping"
    /\ app' = "over" /\ link' = "closed"
    /\ UNCHANGED <<md, sent, hdr, wire, server>>

-----------------------------------------------------------------------------
(* The server's handler *)

\* The handler returns, and its stream is closed.
Return(how) ==
    /\ srv' = how
    /\ link' = IF link = "open" \/ link = "pooled" THEN "broken" ELSE link

Clip(m, n) == IF Len(m) <= n THEN m ELSE SubSeq(m, 1, n)

\* Faulty variant: Read returns the length of the message, not of the copy.
ConnReadWhole(m) == m

\* Conn.Read: what does not fit the caller's buffer is dropped.
ConnRead(m) == Clip(m, ServerBuf)

\* handleConn without a destination: the first message has it.
ReadFirst ==
    /\ srv = "first" /\ wire # <<>>
    /\ wire' = Tail(wire)
    /\ LET packet == Decode(ConnRead(Head(wire))) IN
         /\ packet.ok
         /\ target' = PacketTarget(packet) /\ first' = packet.Payload
    /\ srv' = "dial"
    /\ UNCHANGED <<client, link, dialled, remote, got>>

\* Faulty variant: the handler returns without closing its stream.
ReadRefusedOpen ==
    /\ srv = "first" /\ wire # <<>>
    /\ wire' = Tail(wire)
    /\ ~Decode(ConnRead(Head(wire))).ok
    /\ srv' = "refused"
    /\ UNCHANGED <<client, link, target, first, dialled, remote, got>>

\* Decode returns an error.
ReadRefused ==
    /\ srv = "first" /\ wire # <<>>
    /\ wire' = Tail(wire)
    /\ ~Decode(ConnRead(Head(wire))).ok
    /\ Return("refused")
    /\ UNCHANGED <<client, target, first, dialled, remote, got>>

\* Proxy.Dial: a leading bracket means IPv6.
Via(t) == IF (IF t.brackets THEN 6 ELSE 4) \in Proxied THEN "warp" ELSE "direct"

\* DialWithRetry; the payload of a first message goes first.
ServerDials ==
    /\ srv = "dial"
    /\ dialled' = <<target, Via(target)>> /\ remote' = "open"
    /\ srv' = IF first = <<>> THEN "loop" ELSE "payload"
    /\ UNCHANGED <<client, link, wire, target, first, got>>

ServerDialFails ==
    /\ srv = "dial"
    /\ Return("over")
    /\ UNCHANGED <<client, wire, target, first, dialled, remote, got>>

\* A write to the destination fails: always once handleRemoteConn has closed
\* it, never on a TCP connection that is open both ways.
WriteReturns == remote # "closed"
WriteErrs    == remote # "open" \/ target.network = "udp"

WritePayload ==
    /\ srv = "payload" /\ WriteReturns
    /\ got' = Append(got, first)
    /\ srv' = "loop"
    /\ UNCHANGED <<client, link, wire, target, first, dialled, remote>>

WritePayloadFails ==
    /\ srv = "payload" /\ WriteErrs
    /\ Return("over")
    /\ UNCHANGED <<client, wire, target, first, dialled, remote, got>>

\* Later messages go to the destination as they are, also after its end of
\* the data.
Forward ==
    /\ srv = "loop" /\ wire # <<>> /\ WriteReturns
    /\ wire' = Tail(wire)
    /\ got' = Append(got, ConnRead(Head(wire)))
    /\ UNCHANGED <<client, link, srv, target, first, dialled, remote>>

\* Faulty variant: the error of the write is ignored.
ForwardIgnored ==
    /\ srv = "loop" /\ wire # <<>> /\ WriteErrs
    /\ wire' = Tail(wire)
    /\ UNCHANGED <<client, link, server>>

\* The handler, which waits for the client, finds out about the destination
\* when it writes.
ForwardFails ==
    /\ srv = "loop" /\ wire # <<>> /\ WriteErrs
    /\ wire' = Tail(wire)
    /\ Return("over")
    /\ UNCHANGED <<client, target, first, dialled, remote, got>>

\* The stream is gone, with what is still under way or after it.
ServerReadFails ==
    /\ srv \in {"first", "loop"} /\ link \in {"broken", "closed"}
    /\ Return("over")
    /\ UNCHANGED <<client, wire, target, first, dialled, remote, got>>

\* The destination ends its side, or the read deadline of a UDP session passes.
DestEnds ==
    /\ remote = "open"
    /\ remote' = "eof"
    /\ UNCHANGED <<client, link, wire, srv, target, first, dialled, got>>

\* handleRemoteConn has been started.
Copying == dialled # <<>> /\ (hdr = "none" \/ got # <<>>)

\* handleRemoteConn, which has read that end or found the stream gone, closes
\* the destination.
DestCloses ==
    /\ Copying
    /\ remote = "eof" \/ (remote = "open" /\ link \in {"broken", "closed"})
    /\ remote' = "closed"
    /\ UNCHANGED <<client, link, wire, srv, target, first, dialled, got>>

-----------------------------------------------------------------------------
ReadsFirst == ReadFirst \/ ReadRefused
Dials      == ServerDials \/ ServerDialFails
Forwards   == WritePayload \/ WritePayloadFails \/ Forward \/ ForwardFails

Next ==
    \/ PreDial \/ LinkBreaks \/ RelayEnds
    \/ \E m \in Metadatas : DialPooled(m) \/ DialFresh(m) \/ DialFails(m)
    \/ \E p \in Payloads : Write(p) \/ WriteLost(p)
    \/ ReadsFirst \/ Dials \/ Forwards \/ ServerReadFails
    \/ DestEnds \/ DestCloses

Spec == Init /\ [][Next]_vars

\* Goroutines run, the server's dials end and its writes to the destination
\* return, and a broken connection is noticed by the relay that reads it (the
\* keep-alive of Go's dialer, or the next write).  The application need not
\* write.
Fairness ==
    /\ WF_vars(ReadsFirst) /\ WF_vars(Dials) /\ WF_vars(Forwards)
    /\ WF_vars(ServerReadFails)
    /\ WF_vars(link = "broken" /\ RelayEnds)

FairSpec == Spec /\ Fairness

-----------------------------------------------------------------------------
(* Properties *)

\* On a fresh and on a pooled connection alike the server dials the destination
\* of the session and no other, through WARP exactly when that IP version is
\* proxied, whatever the first payload looks like (argo.go:84-107,
\* dialer.go:110-121, packet.go:23-79, connection.go:21-26, 118-153).
DialsItsDestination ==
    dialled # <<>> =>
        /\ app # "idle"
        /\ dialled[1] = Target(protocol(md.Network), md.IPVersion = 6, md.DstIP,
                               md.DstPort)
        /\ dialled[2] = IF md.IPVersion \in Proxied THEN "warp" ELSE "direct"

\* What the server's buffer leaves to the i-th payload of the session.
Room(i) ==
    IF i = 1 /\ hdr # "none" THEN ServerBuf - Len(parseHeader(md)) ELSE ServerBuf

\* The destination receives what the application wrote, write by write, in order
\* and without a byte of the header; only of a message that is longer than the
\* server's buffer, header included, is the end cut off, and of no other.  The
\* server refuses no session but one whose first payload is shorter than the two
\* bytes its length check asks for too many (argo.go:68-82, websocket.go:94,
\* packet.go:70-72, connection.go:137-140, 155, 171-182).
PayloadIntact ==
    /\ Len(got) <= Len(sent)
    /\ \A i \in 1..Len(got) :
          /\ IsPrefix(got[i], sent[i])
          /\ Len(got[i]) = IF Len(sent[i]) <= Room(i) THEN Len(sent[i]) ELSE Room(i)
    /\ srv = "refused" => Len(sent[1]) < 2

\* A session on a fresh connection, or one that has written its first message
\* to a pooled one, dead or alive, reaches its destination or ends: client and
\* server never both wait for the other (dialer.go:136-150, connection.go:139).
Settles == (app = "piping" /\ hdr # "due") ~> (dialled # <<>> \/ app = "over")

\* Once handleRemoteConn has closed the destination, the next message of the
\* application ends the session (connection.go:171-188, 198-201).
EndsWithNextWrite == (remote = "closed" /\ wire # <<>>) ~> (app # "piping")
=============================================================================
