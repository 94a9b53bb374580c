----------------------------- MODULE UdpBuffers -----------------------------
(***************************************************************************)
(* The data of the UDP forwarder, client/udp.go: the buffers of udpBufPool *)
(* and the datagrams in them, on their way from the listener through the   *)
(* queue of a connector to its websocket, and from the websocket through   *)
(* outboundQueue and its workers to the local client.                      *)
(*                                                                         *)
(* UdpForward has the locks, the creation and the shutdown of a connector  *)
(* step by step; here a connector is closed in one step, and the panic of  *)
(* a first send that comes after the idle timeout is left out.  The        *)
(* content of a buffer is looked at when it is written, so a buffer given  *)
(* back too early, or twice, may by then hold another one's.               *)
(***************************************************************************)
EXTENDS Naturals, Sequences, SequencesExt

CONSTANTS
    Addrs,       \* source addresses of local clients
    Conns,       \* connectors, which bound the sessions
    Workers,     \* runtime.NumCPU() goroutines of processOutboundQueue
    Buffers,     \* the buffers there can be
    None,        \* no buffer, connector, address or datagram
    QueueCap,    \* InboundQueueSize
    OutCap,      \* OutboundQueueSize
    MaxIn,       \* bound on the datagrams of local clients
    MaxOut       \* bound on the messages of the remote ends

Datagram == [from : Addrs \cup Conns, n : Nat]
Item     == [buf : Buffers, dst : Addrs]

ASSUME UdpBuffersAssumption ==
    /\ None \notin Addrs \cup Conns \cup Buffers \cup Datagram \cup Item
    /\ Addrs \cap Conns = {}
    /\ QueueCap \in Nat \ {0} /\ OutCap \in Nat \ {0}
    /\ MaxIn \in Nat /\ MaxOut \in Nat

VARIABLES
    pool,        \* udpBufPool: the buffers Get may return, those that its New
                 \* has still to make included
    mem,         \* what a buffer holds: a datagram, or nothing known
    lpc,         \* the listener: "get", "read" or "send"
    lbuf,        \* its buf
    lconn,       \* the connector it sends to, with the mutex held
    udpConns,    \* source address -> connector
    src,         \* srcAddr of a connector
    cpc,         \* its creator: "unused", "dial", "store", "send",
                 \* "done"
    cbuf,        \* the creator's buf
    remote,      \* remoteConn: "none", "open" or "closed", by whichever side
    closed,      \* the closed flag
    qclosed,     \* inboundQueue has been closed
    inQ,         \* inboundQueue: buffers
    wbuf,        \* processInboundQueue's buf
    rpc,         \* handleRemote: "off", "check", "read", "push" or "done"
    rbuf,        \* its buf
    outQ,        \* outboundQueue: buffers with the address they are for
    job,         \* what a worker has taken off it
    nin, nout,   \* datagrams and messages that have arrived
    sentUp,      \* what was written to each websocket
    sentDown     \* what was written to each address

local    == <<lpc, lbuf, lconn, nin>>
creation == <<udpConns, src, cpc, cbuf>>
shutdown == <<remote, closed, qclosed>>
inbound  == <<inQ, wbuf, sentUp>>
reading  == <<rpc, rbuf, nout>>
outbound == <<outQ, job, sentDown>>
vars == <<pool, mem, local, creation, shutdown, inbound, reading, outbound>>

TypeOK ==
    /\ pool \subseteq Buffers
    /\ mem \in [Buffers -> Datagram \cup {None}]
    /\ lpc \in {"get", "read", "send"}
    /\ lbuf \in Buffers \cup {None}
    /\ (lbuf = None) <=> (lpc = "get")
    /\ lconn \in Conns \cup {None}
    /\ udpConns \in [Addrs -> Conns \cup {None}]
    /\ src \in [Conns -> Addrs \cup {None}]
    /\ cpc \in [Conns -> {"unused", "dial", "store", "send", "done"}]
    /\ cbuf \in [Conns -> Buffers \cup {None}]
    /\ remote \in [Conns -> {"none", "open", "closed"}]
    /\ closed \in [Conns -> BOOLEAN] /\ qclosed \in [Conns -> BOOLEAN]
    /\ inQ \in [Conns -> Seq(Buffers)] /\ \A c \in Conns : Len(inQ[c]) <= QueueCap
    /\ wbuf \in [Conns -> Buffers \cup {None}]
    /\ rpc \in [Conns -> {"off", "check", "read", "push", "done"}]
    /\ rbuf \in [Conns -> Buffers \cup {None}]
    /\ outQ \in Seq(Item) /\ Len(outQ) <= OutCap
    /\ job \in [Workers -> Item \cup {None}]
    /\ nin \in 0..MaxIn /\ nout \in 0..MaxOut
    /\ sentUp \in [Conns -> Seq(Datagram \cup {None})]
    /\ sentDown \in [Addrs -> Seq(Datagram \cup {None})]

Init ==
    /\ pool = Buffers /\ mem = [b \in Buffers |-> None]
    /\ lpc = "get" /\ lbuf = None /\ lconn = None
    /\ udpConns = [a \in Addrs |-> None]
    /\ src = [c \in Conns |-> None]
    /\ cpc = [c \in Conns |-> "unused"] /\ cbuf = [c \in Conns |-> None]
    /\ remote = [c \in Conns |-> "none"]
    /\ closed = [c \in Conns |-> FALSE] /\ qclosed = [c \in Conns |-> FALSE]
    /\ inQ = [c \in Conns |-> <<>>] /\ wbuf = [c \in Conns |-> None]
    /\ rpc = [c \in Conns |-> "off"] /\ rbuf = [c \in Conns |-> None]
    /\ outQ = <<>> /\ job = [w \in Workers |-> None]
    /\ nin = 0 /\ nout = 0
    /\ sentUp = [c \in Conns |-> <<>>] /\ sentDown = [a \in Addrs |-> <<>>]

-----------------------------------------------------------------------------
(* udpBufPool *)

\* Buffers differ in nothing but their identity, so it does not matter which
\* one Get returns.
NextBuffer == CHOOSE b \in pool : TRUE

Get == pool # {} /\ pool' = pool \ {NextBuffer}

\* Once it has been given back, a buffer may be filled by anybody.
Put(b) == pool' = pool \cup {b} /\ mem' = [mem EXCEPT ![b] = None]

-----------------------------------------------------------------------------
(* UdpListen *)

ListenerGet ==
    /\ lpc = "get"
    /\ Get /\ lbuf' = NextBuffer
    /\ lpc' = "read"
    /\ UNCHANGED <<mem, lconn, nin, creation, shutdown, inbound, reading, outbound>>

ListenerReadFails ==
    /\ lpc = "read"
    /\ Put(lbuf) /\ lbuf' = None
    /\ lpc' = "get"
    /\ UNCHANGED <<lconn, nin, creation, shutdown, inbound, reading, outbound>>

\* A datagram of a local client arrives; the n-th one holds the number n.
Arrives == lpc = "read" /\ nin < MaxIn /\ nin' = nin + 1
Fill(a) == mem' = [mem EXCEPT ![lbuf] = [from |-> a, n |-> nin + 1]]

\* The connector of its source is closed.  The buffer is not given back but left
\* to the garbage collector, and New makes another one in its place.
ReadDrop(a) ==
    /\ Arrives
    /\ udpConns[a] # None /\ closed[udpConns[a]]
    /\ Put(lbuf) /\ lbuf' = None
    /\ lpc' = "get"
    /\ UNCHANGED <<lconn, creation, shutdown, inbound, reading, outbound>>

\* The flag reads false, which it may after handleRemote has set it without the
\* mutex, but not after healthCheck has.
ReadKnown(a) ==
    /\ Arrives /\ Fill(a)
    /\ udpConns[a] # None /\ ~qclosed[udpConns[a]]
    /\ lconn' = udpConns[a]
    /\ lpc' = "send"
    /\ UNCHANGED <<pool, lbuf, creation, shutdown, inbound, reading, outbound>>

\* A source without a connector: the buffer goes to a creator.
ReadUnknown(a) ==
    LET c == CHOOSE c \in Conns : cpc[c] = "unused" IN
    /\ Arrives /\ Fill(a)
    /\ udpConns[a] = None /\ \E d \in Conns : cpc[d] = "unused"
    /\ cpc' = [cpc EXCEPT ![c] = "dial"]
    /\ src' = [src EXCEPT ![c] = a]
    /\ cbuf' = [cbuf EXCEPT ![c] = lbuf]
    /\ lbuf' = None
    /\ lpc' = "get"
    /\ UNCHANGED <<pool, lconn, udpConns, shutdown, inbound, reading, outbound>>

ListenerSend ==
    /\ lpc = "send"
    /\ Len(inQ[lconn]) < QueueCap
    /\ inQ' = [inQ EXCEPT ![lconn] = Append(@, lbuf)]
    /\ lbuf' = None /\ lconn' = None
    /\ lpc' = "get"
    /\ UNCHANGED <<pool, mem, nin, creation, shutdown, wbuf, sentUp, reading, outbound>>

-----------------------------------------------------------------------------
(* The creator and NewConn *)

DialFails(c) ==
    /\ cpc[c] = "dial"
    /\ Put(cbuf[c]) /\ cbuf' = [cbuf EXCEPT ![c] = None]
    /\ cpc' = [cpc EXCEPT ![c] = "done"]
    /\ UNCHANGED <<local, udpConns, src, shutdown, inbound, reading, outbound>>

\* NewConn starts the reader, which may fail before the connector is stored.
NewConn(c) ==
    /\ cpc[c] = "dial"
    /\ remote' = [remote EXCEPT ![c] = "open"]
    /\ rpc' = [rpc EXCEPT ![c] = "check"]
    /\ cpc' = [cpc EXCEPT ![c] = "store"]
    /\ UNCHANGED <<pool, mem, local, udpConns, src, cbuf, closed, qclosed, inbound,
                   rbuf, nout, outbound>>

\* It replaces any other one stored for the source meanwhile.
Store(c) ==
    /\ cpc[c] = "store"
    /\ udpConns' = [udpConns EXCEPT ![src[c]] = c]
    /\ cpc' = [cpc EXCEPT ![c] = "send"]
    /\ UNCHANGED <<pool, mem, local, src, cbuf, shutdown, inbound, reading, outbound>>

\* Faulty variant: the creator gives the buffer back when it ends.
FirstSendPuts(c) ==
    /\ cpc[c] = "send"
    /\ Len(inQ[c]) < QueueCap
    /\ inQ' = [inQ EXCEPT ![c] = Append(@, cbuf[c])]
    /\ Put(cbuf[c]) /\ cbuf' = [cbuf EXCEPT ![c] = None]
    /\ cpc' = [cpc EXCEPT ![c] = "done"]
    /\ UNCHANGED <<local, udpConns, src, shutdown, wbuf, sentUp, reading, outbound>>

\* Faulty variant: the send does not wait for room.
FirstSendUnbounded(c) ==
    /\ cpc[c] = "send"
    /\ inQ' = [inQ EXCEPT ![c] = Append(@, cbuf[c])]
    /\ cbuf' = [cbuf EXCEPT ![c] = None]
    /\ cpc' = [cpc EXCEPT ![c] = "done"]
    /\ UNCHANGED <<pool, mem, local, udpConns, src, shutdown, wbuf, sentUp, reading, outbound>>

\* The first datagram.
FirstSend(c) ==
    /\ cpc[c] = "send"
    /\ Len(inQ[c]) < QueueCap
    /\ inQ' = [inQ EXCEPT ![c] = Append(@, cbuf[c])]
    /\ cbuf' = [cbuf EXCEPT ![c] = None]
    /\ cpc' = [cpc EXCEPT ![c] = "done"]
    /\ UNCHANGED <<pool, mem, local, udpConns, src, shutdown, wbuf, sentUp, reading, outbound>>

-----------------------------------------------------------------------------
(* processInboundQueue and healthCheck *)

\* Faulty variant: the buffer is given back before it is written.
WriterRecvPuts(c) ==
    /\ wbuf[c] = None /\ inQ[c] # <<>>
    /\ wbuf' = [wbuf EXCEPT ![c] = Head(inQ[c])]
    /\ inQ' = [inQ EXCEPT ![c] = Tail(@)]
    /\ Put(Head(inQ[c]))
    /\ UNCHANGED <<local, creation, shutdown, sentUp, reading, outbound>>

\* The loop goes on after the queue has been closed, until it is empty.
WriterRecv(c) ==
    /\ wbuf[c] = None /\ inQ[c] # <<>>
    /\ wbuf' = [wbuf EXCEPT ![c] = Head(inQ[c])]
    /\ inQ' = [inQ EXCEPT ![c] = Tail(@)]
    /\ UNCHANGED <<pool, mem, local, creation, shutdown, sentUp, reading, outbound>>

WriterWrite(c) ==
    /\ wbuf[c] # None /\ remote[c] = "open"
    /\ sentUp' = [sentUp EXCEPT ![c] = Append(@, mem[wbuf[c]])]
    /\ Put(wbuf[c]) /\ wbuf' = [wbuf EXCEPT ![c] = None]
    /\ UNCHANGED <<local, creation, shutdown, inQ, reading, outbound>>

\* The error is ignored.
WriterWriteFails(c) ==
    /\ wbuf[c] # None /\ remote[c] # "open"
    /\ Put(wbuf[c]) /\ wbuf' = [wbuf EXCEPT ![c] = None]
    /\ UNCHANGED <<local, creation, shutdown, inQ, sentUp, reading, outbound>>

\* The idle timeout, which waits for a listener that has the mutex.
HealthCloses(c) ==
    /\ cpc[c] = "done" /\ remote[c] # "none" /\ ~qclosed[c]
    /\ lconn # c
    /\ closed' = [closed EXCEPT ![c] = TRUE]
    /\ qclosed' = [qclosed EXCEPT ![c] = TRUE]
    /\ remote' = [remote EXCEPT ![c] = "closed"]
    /\ udpConns' = [udpConns EXCEPT ![src[c]] = None]
    /\ UNCHANGED <<pool, mem, local, src, cpc, cbuf, inbound, reading, outbound>>

\* The peer closes the websocket or the network breaks.
RemoteFails(c) ==
    /\ remote[c] = "open"
    /\ remote' = [remote EXCEPT ![c] = "closed"]
    /\ UNCHANGED <<pool, mem, local, creation, closed, qclosed, inbound, reading, outbound>>

-----------------------------------------------------------------------------
(* handleRemote *)

ReaderStop(c) ==
    /\ rpc[c] = "check" /\ closed[c]
    /\ rpc' = [rpc EXCEPT ![c] = "done"]
    /\ UNCHANGED <<pool, mem, local, creation, shutdown, inbound, rbuf, nout, outbound>>

\* The flag is read without the mutex, so it may read false even when it is set.
ReaderGet(c) ==
    /\ rpc[c] = "check"
    /\ Get /\ rbuf' = [rbuf EXCEPT ![c] = NextBuffer]
    /\ rpc' = [rpc EXCEPT ![c] = "read"]
    /\ UNCHANGED <<mem, local, creation, shutdown, inbound, nout, outbound>>

ReaderGot(c) ==
    /\ rpc[c] = "read" /\ remote[c] = "open"
    /\ nout < MaxOut /\ nout' = nout + 1
    /\ mem' = [mem EXCEPT ![rbuf[c]] = [from |-> c, n |-> nout + 1]]
    /\ rpc' = [rpc EXCEPT ![c] = "push"]
    /\ UNCHANGED <<pool, local, creation, shutdown, inbound, rbuf, outbound>>

ReaderPush(c) ==
    /\ rpc[c] = "push"
    /\ Len(outQ) < OutCap
    /\ outQ' = Append(outQ, [buf |-> rbuf[c], dst |-> src[c]])
    /\ rbuf' = [rbuf EXCEPT ![c] = None]
    /\ rpc' = [rpc EXCEPT ![c] = "check"]
    /\ UNCHANGED <<pool, mem, local, creation, shutdown, inbound, nout, job, sentDown>>

\* The read fails: the connector is closed, but not its queue.
ReaderFails(c) ==
    /\ rpc[c] = "read" /\ remote[c] # "open"
    /\ closed' = [closed EXCEPT ![c] = TRUE]
    /\ udpConns' = [udpConns EXCEPT ![src[c]] = None]
    /\ remote' = [remote EXCEPT ![c] = "closed"]
    /\ Put(rbuf[c]) /\ rbuf' = [rbuf EXCEPT ![c] = None]
    /\ rpc' = [rpc EXCEPT ![c] = "done"]
    /\ UNCHANGED <<local, src, cpc, cbuf, qclosed, inbound, nout, outbound>>

-----------------------------------------------------------------------------
(* processOutboundQueue *)

WorkerTake(w) ==
    /\ job[w] = None /\ outQ # <<>>
    /\ job' = [job EXCEPT ![w] = Head(outQ)]
    /\ outQ' = Tail(outQ)
    /\ UNCHANGED <<pool, mem, local, creation, shutdown, inbound, reading, sentDown>>

WorkerWrite(w) ==
    /\ job[w] # None
    /\ sentDown' = [sentDown EXCEPT ![job[w].dst] = Append(@, mem[job[w].buf])]
    /\ Put(job[w].buf) /\ job' = [job EXCEPT ![w] = None]
    /\ UNCHANGED <<local, creation, shutdown, inbound, reading, outQ>>

\* Faulty variant: the buffer of a write that fails is forgotten.
WorkerWriteFailsKeeps(w) ==
    /\ job[w] # None
    /\ job' = [job EXCEPT ![w] = None]
    /\ UNCHANGED <<pool, mem, local, creation, shutdown, inbound, reading, outQ, sentDown>>

\* The error is logged.
WorkerWriteFails(w) ==
    /\ job[w] # None
    /\ Put(job[w].buf) /\ job' = [job EXCEPT ![w] = None]
    /\ UNCHANGED <<local, creation, shutdown, inbound, reading, outQ, sentDown>>

-----------------------------------------------------------------------------
Listener ==
    \/ ListenerGet \/ ListenerReadFails \/ ListenerSend
    \/ \E a \in Addrs : ReadDrop(a) \/ ReadKnown(a) \/ ReadUnknown(a)

Creator(c) == DialFails(c) \/ NewConn(c) \/ Store(c) \/ FirstSend(c)
Writer(c)  == WriterRecv(c) \/ WriterWrite(c) \/ WriterWriteFails(c)
Reader(c)  == ReaderStop(c) \/ ReaderGet(c) \/ ReaderGot(c) \/ ReaderPush(c) \/ ReaderFails(c)
Worker(w)  == WorkerTake(w) \/ WorkerWrite(w) \/ WorkerWriteFails(w)

Next ==
    \/ Listener
    \/ \E c \in Conns : Creator(c) \/ Writer(c) \/ Reader(c) \/ HealthCloses(c) \/ RemoteFails(c)
    \/ \E w \in Workers : Worker(w)

Spec == Init /\ [][Next]_vars

\* Goroutines run, and a write to a UDP socket returns.  A write to a websocket
\* that is open may block for ever.
FairSpec ==
    /\ Spec
    /\ \A w \in Workers : WF_vars(Worker(w))
    /\ \A c \in Conns : WF_vars(WriterRecv(c) \/ WriterWriteFails(c))

-----------------------------------------------------------------------------
(* Properties *)

\* The goroutines and places in queues that refer to a buffer.
Refs(b) ==
    {<<"listener", l>> : l \in {l \in {"listener"} : lbuf = b}}
        \cup {<<"creator", c>> : c \in {c \in Conns : cbuf[c] = b}}
        \cup {<<"writer", c>> : c \in {c \in Conns : wbuf[c] = b}}
        \cup {<<"reader", c>> : c \in {c \in Conns : rbuf[c] = b}}
        \cup {<<"worker", w>> : w \in {w \in Workers : job[w] # None /\ job[w].buf = b}}
        \cup {<<"inQ", p>> : p \in {p \in Conns \X (1..QueueCap) :
                 p[2] <= Len(inQ[p[1]]) /\ inQ[p[1]][p[2]] = b}}
        \cup {<<"outQ", i>> : i \in {i \in DOMAIN outQ : outQ[i].buf = b}}

\* No two goroutines or queues share a buffer, and none that is in use is in
\* the pool, on any path by which a datagram is handed on, dropped or fails
\* (udp.go:75-109, 115-142, 190-209).
Exclusive ==
    \A b \in Buffers :
        /\ \A x, y \in Refs(b) : x = y
        /\ b \in pool => Refs(b) = {}

\* A websocket gets only datagrams of its connector's source, a local client
\* only messages that came for it, and nothing is delivered twice, whatever the
\* buffers are used for meanwhile (udp.go:120, 137).
OwnDatagramsOnce ==
    /\ \A c \in Conns :
          /\ \A d \in Range(sentUp[c]) : d # None /\ d.from = src[c]
          /\ IsInjective(sentUp[c])
    /\ \A a \in Addrs :
          /\ \A d \in Range(sentDown[a]) : d # None /\ d.from \in Conns /\ src[d.from] = a
          /\ IsInjective(sentDown[a])

\* A buffer that waits for a worker comes back to the pool, and so does one that
\* waits for a websocket that has ended, its queue closed or not (udp.go:115-142).
BuffersReturn ==
    \A b \in Buffers :
        (\/ \E i \in DOMAIN outQ : outQ[i].buf = b
         \/ \E c \in Conns : remote[c] = "closed" /\ b \in Range(inQ[c]))
            ~> (b \in pool)
=============================================================================
