------------------------------- MODULE Relay --------------------------------
(***************************************************************************)
(* One TCP connection relayed by the client over a websocket, in its two   *)
(* variants: the port forwarder (client/tcp.go) and the TUN tunnel         *)
(* (client/tun/tunnel/tcp.go).  Two goroutines copy, one each way, and     *)
(* bring each other down by closing what the other one reads.              *)
(*                                                                         *)
(* The data are units 1, 2, 3 ... in either direction.  A websocket        *)
(* message is a sequence of units; buffers are measured in units.  Read of *)
(* GorillaConn (argo/connection.go) keeps what does not fit its buffer,    *)
(* Read of the server's Conn (server/cfd/websocket.go) does not.           *)
(*                                                                         *)
(* On a connection from the tunnel's pool the first message begins with    *)
(* the header that names the destination (proxy/argo.go).  It is not among *)
(* the units, but takes its share of the server's buffer.                  *)
(***************************************************************************)
EXTENDS Naturals, Sequences, SequencesExt, Allocator

CONSTANTS
    ForwardBuf,  \* the forwarder's buffer, 64 KiB
    MTUs,        \* the MTUs of the device: the sizes of the tunnel's buffer
    CopyBuf,     \* io.Copy's own buffer, 32 KiB
    ServerBuf,   \* the server's buffer, 32 KiB
    HeaderLen,   \* the length of the header, 8 or 20 bytes
    UpLen,       \* units the application writes at most
    DownLen,     \* units the destination sends at most
    WireCap      \* messages a websocket holds before a write blocks

ASSUME LengthsAssumption ==
    /\ ForwardBuf \in Nat \ {0} /\ MTUs \subseteq Nat \ {0}
    /\ CopyBuf \in Nat \ {0}
    /\ ServerBuf \in Nat \ {0} /\ WireCap \in Nat \ {0}
    /\ HeaderLen \in 1..(ServerBuf - 1)
    /\ UpLen \in Nat /\ DownLen \in Nat

VARIABLES
    mtu,         \* buffer.RelayBufferSize, 0 without a TUN device
    upPc, downPc,\* handleUpstream and handleDownstream (the two calls of
                 \* unidirectionalStream): "off", "check", "read", "write",
                 \* "exit", "close" or "done"
    closed,      \* TcpConnector.closed
    conn,        \* the application's connection on our side: "open", "closed"
    ws,          \* the websocket: "open", "closed" by us, "broken" by the peer
    app,         \* the application: "open", "fin" (half-closed) or "gone"
    header,      \* where the header is: "none" (the handshake has named the
                 \* destination), "due", "sent" or "decoded"
    nread,       \* units read from the application
    upHeld,      \* read and not yet written
    wireUp,      \* messages under way to the server
    gotUp,       \* units the destination has received
    nsent,       \* units sent by the destination
    wireDown,    \* messages under way to the client
    readBuf,     \* GorillaConn.readBuf
    downHeld,    \* read and not yet written
    gotDown      \* units the application has received

pcs       == <<upPc, downPc>>
ends      == <<mtu, closed, conn, ws, app>>
up        == <<header, nread, upHeld, wireUp, gotUp>>
down      == <<nsent, wireDown, readBuf, downHeld, gotDown>>
relayVars == <<pcs, ends, up, down>>

\* The relay is one of tunnel/tcp.go, not of client/tcp.go.
tun == mtu # 0

\* unidirectionalStream copies through the slice the allocator gives it, and
\* io.CopyBuffer makes its own when that is nil.
RelayBuf == IF Get(mtu) = Nil THEN CopyBuf ELSE Get(mtu).len

LocalBuf == IF tun THEN RelayBuf ELSE ForwardBuf

\* The units from m + 1 to n.
Units(m, n) == [k \in 1..(n - m) |-> m + k]

\* What a read with a buffer of the given size takes, and what is left.
Prefix(s, size) == IF Len(s) <= size THEN s ELSE SubSeq(s, 1, size)
Left(s, size)   == SubSeq(s, size + 1, Len(s))

Label == {"off", "check", "read", "write", "exit", "close", "done"}

RelayTypeOK ==
    /\ mtu \in MTUs \cup {0}
    /\ upPc \in Label /\ downPc \in Label
    /\ closed \in BOOLEAN
    /\ conn \in {"open", "closed"}
    /\ ws \in {"open", "closed", "broken"}
    /\ app \in {"open", "fin", "gone"}
    /\ header \in {"none", "due", "sent", "decoded"}
    /\ nread \in 0..UpLen /\ nsent \in 0..DownLen
    /\ upHeld \in Seq(1..UpLen) /\ Len(upHeld) <= LocalBuf
    /\ downHeld \in Seq(1..DownLen) /\ Len(downHeld) <= LocalBuf
    /\ wireUp \in Seq(Seq(1..UpLen)) /\ Len(wireUp) <= WireCap
    /\ wireDown \in Seq(Seq(1..DownLen)) /\ Len(wireDown) <= WireCap
    /\ gotUp \in Seq(1..UpLen) /\ gotDown \in Seq(1..DownLen)
    /\ readBuf \in Seq(1..DownLen)

RelayInit ==
    /\ mtu \in MTUs \cup {0}
    /\ upPc = "off" /\ downPc = "off"
    /\ closed = FALSE /\ conn = "open" /\ ws = "open" /\ app = "open"
    /\ header \in IF tun THEN {"none", "due"} ELSE {"none"}
    /\ nread = 0 /\ upHeld = <<>> /\ wireUp = <<>> /\ gotUp = <<>>
    /\ nsent = 0 /\ wireDown = <<>> /\ readBuf = <<>> /\ downHeld = <<>>
    /\ gotDown = <<>>

-----------------------------------------------------------------------------
(* handleTcp, handleTCPConn *)

RelayDialOk ==
    /\ upPc = "off"
    /\ upPc' = "check" /\ downPc' = "check"
    /\ UNCHANGED <<ends, up, down>>

\* The forwarder closes the application's connection, the tunnel only returns.
RelayDialFails ==
    /\ upPc = "off"
    /\ upPc' = "done" /\ downPc' = "done"
    /\ ws' = "broken"
    /\ conn' = IF tun THEN conn ELSE "closed"
    /\ UNCHANGED <<mtu, closed, app, up, down>>

-----------------------------------------------------------------------------
(* Upstream *)

\* for !t.closed, which the tunnel never sets
UpCheck ==
    /\ upPc = "check"
    /\ upPc' = IF closed THEN "exit" ELSE "read"
    /\ UNCHANGED <<downPc, ends, up, down>>

UpRead(n) ==
    /\ upPc = "read"
    /\ conn = "open" /\ app # "gone"
    /\ nread + n <= UpLen
    /\ nread' = nread + n
    /\ upHeld' = Units(nread, nread + n)
    /\ upPc' = "write"
    /\ UNCHANGED <<downPc, ends, header, wireUp, gotUp, down>>

\* EOF, or an error
UpReadEnds ==
    /\ upPc = "read"
    /\ conn = "closed" \/ app # "open"
    /\ upPc' = "exit"
    /\ UNCHANGED <<downPc, ends, up, down>>

\* safeWrite, argoConn.Write: one message with all that was read, and in front of
\* the first one the header that is due.
UpWrite ==
    /\ upPc = "write"
    /\ ws = "open"
    /\ Len(wireUp) < WireCap
    /\ wireUp' = Append(wireUp, upHeld)
    /\ header' = IF header = "due" THEN "sent" ELSE header
    /\ upHeld' = <<>>
    /\ upPc' = "check"
    /\ UNCHANGED <<downPc, ends, nread, gotUp, down>>

UpWriteFails ==
    /\ upPc = "write"
    /\ ws # "open"
    /\ upPc' = "exit"
    /\ UNCHANGED <<downPc, ends, up, down>>

CloseWs   == ws' = IF ws = "open" THEN "closed" ELSE ws
CloseConn == conn' = "closed"

\* t.Close() in the forwarder, src.Close() in the tunnel
UpExit ==
    /\ upPc = "exit"
    /\ IF tun THEN CloseConn /\ UNCHANGED closed
              ELSE closed' = TRUE /\ UNCHANGED conn
    /\ upPc' = "close"
    /\ UNCHANGED <<downPc, mtu, ws, app, up, down>>

\* t.wsConn.Close(), dst.Close()
UpClose ==
    /\ upPc = "close"
    /\ CloseWs
    /\ upPc' = "done"
    /\ UNCHANGED <<downPc, mtu, closed, conn, app, up, down>>

-----------------------------------------------------------------------------
(* Downstream *)

DownCheck ==
    /\ downPc = "check"
    /\ downPc' = IF closed THEN "exit" ELSE "read"
    /\ UNCHANGED <<upPc, ends, up, down>>

\* Faulty variant: the rest is looked at only when the next message is there.
DownReadLate ==
    /\ downPc = "read"
    /\ readBuf # <<>> /\ wireDown # <<>>
    /\ downHeld' = Prefix(readBuf, LocalBuf)
    /\ readBuf' = Left(readBuf, LocalBuf)
    /\ downPc' = "write"
    /\ UNCHANGED <<upPc, ends, up, nsent, wireDown, gotDown>>

\* GorillaConn.Read: the rest of the message before, first.
DownReadRest ==
    /\ downPc = "read"
    /\ readBuf # <<>>
    /\ downHeld' = Prefix(readBuf, LocalBuf)
    /\ readBuf' = Left(readBuf, LocalBuf)
    /\ downPc' = "write"
    /\ UNCHANGED <<upPc, ends, up, nsent, wireDown, gotDown>>

\* Faulty variant: what does not fit is dropped.
DownReadTruncates ==
    /\ downPc = "read"
    /\ readBuf = <<>> /\ ws # "closed"
    /\ wireDown # <<>>
    /\ downHeld' = Prefix(Head(wireDown), LocalBuf)
    /\ wireDown' = Tail(wireDown)
    /\ downPc' = "write"
    /\ UNCHANGED <<upPc, ends, up, nsent, readBuf, gotDown>>

\* Faulty variant: the buffer is overrun.
DownReadOverruns ==
    /\ downPc = "read"
    /\ readBuf = <<>> /\ ws # "closed"
    /\ wireDown # <<>>
    /\ downHeld' = Head(wireDown)
    /\ wireDown' = Tail(wireDown)
    /\ downPc' = "write"
    /\ UNCHANGED <<upPc, ends, up, nsent, readBuf, gotDown>>

\* A new message; what does not fit the buffer is kept in readBuf.
DownRead ==
    /\ downPc = "read"
    /\ readBuf = <<>> /\ ws # "closed"
    /\ wireDown # <<>>
    /\ downHeld' = Prefix(Head(wireDown), LocalBuf)
    /\ readBuf' = Left(Head(wireDown), LocalBuf)
    /\ wireDown' = Tail(wireDown)
    /\ downPc' = "write"
    /\ UNCHANGED <<upPc, ends, up, nsent, gotDown>>

DownReadFails ==
    /\ downPc = "read"
    /\ readBuf = <<>> /\ ws # "open"
    /\ downPc' = "exit"
    /\ UNCHANGED <<upPc, ends, up, down>>

DownWrite ==
    /\ downPc = "write"
    /\ conn = "open" /\ app # "gone"
    /\ gotDown' = gotDown \o downHeld
    /\ downHeld' = <<>>
    /\ downPc' = "check"
    /\ UNCHANGED <<upPc, ends, up, nsent, wireDown, readBuf>>

DownWriteFails ==
    /\ downPc = "write"
    /\ conn = "closed" \/ app = "gone"
    /\ downPc' = "exit"
    /\ UNCHANGED <<upPc, ends, up, down>>

DownExit ==
    /\ downPc = "exit"
    /\ IF tun THEN CloseWs /\ UNCHANGED closed
              ELSE closed' = TRUE /\ UNCHANGED ws
    /\ downPc' = "close"
    /\ UNCHANGED <<upPc, mtu, conn, app, up, down>>

\* Faulty variant: the application's connection is not closed.
DownKeepsConn ==
    /\ downPc = "close"
    /\ downPc' = "done"
    /\ UNCHANGED <<upPc, ends, up, down>>

\* t.conn.Close(), dst.Close()
DownClose ==
    /\ downPc = "close"
    /\ CloseConn
    /\ downPc' = "done"
    /\ UNCHANGED <<upPc, mtu, closed, ws, app, up, down>>

-----------------------------------------------------------------------------
(* The server, the application and the network *)

\* What the server's buffer holds of the units of the next message.
ServerRoom == IF header = "sent" THEN ServerBuf - HeaderLen ELSE ServerBuf

\* handleConn: Conn.Read copies what fits the buffer and forgets the rest; Decode
\* takes the header off.
ServerReceive ==
    /\ ws # "broken"
    /\ wireUp # <<>>
    /\ gotUp' = gotUp \o Prefix(Head(wireUp), ServerRoom)
    /\ wireUp' = Tail(wireUp)
    /\ header' = IF header = "sent" THEN "decoded" ELSE header
    /\ UNCHANGED <<pcs, ends, nread, upHeld, down>>

\* handleRemoteConn: what one read of the destination gives is one message.  The
\* destination is dialled once the header is there.
ServerSend(n) ==
    /\ ws = "open" /\ upPc # "off"
    /\ header \in {"none", "decoded"}
    /\ nsent + n <= DownLen
    /\ Len(wireDown) < WireCap
    /\ nsent' = nsent + n
    /\ wireDown' = Append(wireDown, Units(nsent, nsent + n))
    /\ UNCHANGED <<pcs, ends, up, readBuf, downHeld, gotDown>>

\* The server ends the session, or the network does.
WsBreaks ==
    /\ ws = "open" /\ upPc # "off"
    /\ ws' = "broken"
    /\ UNCHANGED <<pcs, mtu, closed, conn, app, up, down>>

AppFin ==
    /\ app = "open"
    /\ app' = "fin"
    /\ UNCHANGED <<pcs, mtu, closed, conn, ws, up, down>>

AppGone ==
    /\ app # "gone"
    /\ app' = "gone"
    /\ UNCHANGED <<pcs, mtu, closed, conn, ws, up, down>>

-----------------------------------------------------------------------------
Upstream ==
    \/ UpCheck \/ UpReadEnds \/ UpWrite \/ UpWriteFails \/ UpExit \/ UpClose
    \/ \E n \in 1..LocalBuf : UpRead(n)

Downstream ==
    \/ DownCheck \/ DownReadRest \/ DownRead \/ DownReadFails
    \/ DownWrite \/ DownWriteFails \/ DownExit \/ DownClose

Environment ==
    \/ ServerReceive \/ WsBreaks \/ AppFin \/ AppGone
    \/ \E n \in 1..ServerBuf : ServerSend(n)

RelayNext ==
    RelayDialOk \/ RelayDialFails \/ Upstream \/ Downstream \/ Environment

RelaySpec == RelayInit /\ [][RelayNext]_relayVars

\* Goroutines run, a handshake ends, the server and an application that is
\* there read what is sent.  Nobody need send, or end the connection.
RelayFairSpec ==
    /\ RelaySpec
    /\ WF_relayVars(RelayDialOk \/ RelayDialFails)
    /\ WF_relayVars(Upstream) /\ WF_relayVars(Downstream)
    /\ WF_relayVars(ServerReceive)

-----------------------------------------------------------------------------
(* Properties *)

\* The messages of the relay fit the server's buffer, which forgets the rest: the
\* first one too, if it carries the header.
FitsServer ==
    LocalBuf + (IF header = "none" THEN 0 ELSE HeaderLen) <= ServerBuf

\* What one end receives is what the other one sent, without a gap, whatever the
\* sizes of messages and buffers; upstream as long as the server's buffer takes a
\* full buffer of the relay, after the header if there is one
\* (argo/connection.go:38-56, proxy/argo.go:68-88, engine.go:56, tunnel/tcp.go:58,
\* allocator.go:32-43, server/cfd/connection.go:137, server/cfd/websocket.go:94).
StreamsIntact ==
    /\ IsPrefix(gotDown, Units(0, DownLen))
    /\ FitsServer => IsPrefix(gotUp, Units(0, UpLen))

\* As long as both ends stay, nothing that was read or sent stays behind in a
\* buffer or in readBuf (client/tcp.go:55-91, argo/connection.go:38-56).
Delivered ==
    /\ \A k \in 1..UpLen :
          (FitsServer /\ nread >= k)
              ~> (Len(gotUp) >= k \/ app # "open" \/ ws # "open")
    /\ \A k \in 1..DownLen :
          (nsent >= k) ~> (Len(gotDown) >= k \/ app # "open" \/ ws # "open")

\* A slice from the allocator is as long as was asked for, wastes less than half
\* of its capacity (allocator.go:16-18, "the waste(memory fragmentation) of
\* space allocation is guaranteed to be no more than 50%"), and is taken back
\* into the pool it came from, so that a pool never gives one that is too short.
AllocatorFits ==
    LET buf == Get(mtu) IN
    buf # Nil =>
        /\ buf.len = mtu /\ buf.len <= buf.cap /\ buf.cap < 2 * buf.len
        /\ PutAccepts(buf) /\ Pooled(PutClass(buf)).cap = buf.cap

\* When the application or the websocket is gone both goroutines end: each
\* closes what the other one may be waiting for (client/tcp.go:55-91,
\* tunnel/tcp.go:46-65).
RelayEnds ==
    (app = "gone" \/ ws = "broken") ~> (upPc = "done" /\ downPc = "done")
=============================================================================
