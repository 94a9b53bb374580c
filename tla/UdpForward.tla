----------------------------- MODULE UdpForward -----------------------------
(***************************************************************************)
(* The UDP forwarder of the client, client/udp.go: one listener loop, one  *)
(* creator goroutine per datagram of an unknown source, and per connector  *)
(* the goroutines handleRemote (reader), healthCheck and                   *)
(* processInboundQueue (writer), plus the global outbound workers.         *)
(*                                                                         *)
(* A datagram has no identity here: the channels are modelled by their     *)
(* length, and the buffer pool is left out.  The clock is abstracted to    *)
(* one bit per connector, "idleTimeout has passed since lastRecvTime".     *)
(* A panic (a send on a closed channel) ends the process: nothing moves.   *)
(***************************************************************************)
EXTENDS Naturals

CONSTANTS
    Addrs,        \* source addresses of local UDP clients
    Conns,        \* creator goroutines and the Connector each one makes;
                  \* bounds the number of sessions of a behaviour
    None,         \* no connector / no address
    QueueCap      \* InboundQueueSize

ASSUME NoneAssumption == None \notin Addrs /\ None \notin Conns
ASSUME CapAssumption  == QueueCap \in Nat \ {0}

VARIABLES
    \* the listener goroutine of UdpListen
    lpc,          \* "read", "lock", "check" or "send"
    lconn,        \* the connector c it loaded from udpConns
    \* shared by every goroutine of the tunnel
    udpConns,     \* sync.Map: source address -> connector
    panicked,     \* a send on a closed channel has killed the process
    \* fields of a Connector
    src,          \* srcAddr
    remote,       \* remoteConn: "none", "open", "failed" or "closed"
    closed,       \* the closed flag
    qlen,         \* length of inboundQueue
    qclosed,      \* inboundQueue has been closed
    mu,           \* holder of c.mu: "free", "listener" or "health"
    idle,         \* healthCheck would read now > lastRecvTime + idleTimeout
    \* the goroutines of a connector
    cpc,          \* creator: "unused", "dial", "store", "send" or "done"
    rpc,          \* handleRemote: "off", "check", "read", "delete",
                  \*               "close" or "done"
    hpc,          \* healthCheck: "off", "check", "lock", "close",
                  \*              "closeRemote", "delete" or "done"
    wpc           \* processInboundQueue: "off", "recv", "write" or "done"

lvars == <<lpc, lconn>>
cvars == <<src, remote, closed, qlen, qclosed, mu, idle>>
pcs   == <<cpc, rpc, hpc, wpc>>
vars  == <<lvars, udpConns, panicked, cvars, pcs>>

TypeOK ==
    /\ lpc \in {"read", "lock", "check", "send"}
    /\ lconn \in Conns \cup {None}
    /\ udpConns \in [Addrs -> Conns \cup {None}]
    /\ panicked \in BOOLEAN
    /\ src \in [Conns -> Addrs \cup {None}]
    /\ remote \in [Conns -> {"none", "open", "failed", "closed"}]
    /\ closed \in [Conns -> BOOLEAN]
    /\ qlen \in [Conns -> 0..QueueCap]
    /\ qclosed \in [Conns -> BOOLEAN]
    /\ mu \in [Conns -> {"free", "listener", "health"}]
    /\ idle \in [Conns -> BOOLEAN]
    /\ cpc \in [Conns -> {"unused", "dial", "store", "send", "done"}]
    /\ rpc \in [Conns -> {"off", "check", "read", "delete", "close", "done"}]
    /\ hpc \in [Conns -> {"off", "check", "lock", "close", "closeRemote", "delete", "done"}]
    /\ wpc \in [Conns -> {"off", "recv", "write", "done"}]

Init ==
    /\ lpc = "read"
    /\ lconn = None
    /\ udpConns = [a \in Addrs |-> None]
    /\ panicked = FALSE
    /\ src = [c \in Conns |-> None]
    /\ remote = [c \in Conns |-> "none"]
    /\ closed = [c \in Conns |-> FALSE]
    /\ qlen = [c \in Conns |-> 0]
    /\ qclosed = [c \in Conns |-> FALSE]
    /\ mu = [c \in Conns |-> "free"]
    /\ idle = [c \in Conns |-> FALSE]
    /\ cpc = [c \in Conns |-> "unused"]
    /\ rpc = [c \in Conns |-> "off"]
    /\ hpc = [c \in Conns |-> "off"]
    /\ wpc = [c \in Conns |-> "off"]

-----------------------------------------------------------------------------
(* The channel inboundQueue and the map udpConns *)

\* c.inboundQueue <- data: blocks while the queue is full, panics once closed.
CanEnqueue(c) == qclosed[c] \/ qlen[c] < QueueCap

\* Faulty variant: the send does not wait for room.
EnqueueUnbounded(c) ==
    /\ panicked' = qclosed[c]
    /\ qlen' = IF qclosed[c] THEN qlen ELSE [qlen EXCEPT ![c] = @ + 1]

Enqueue(c) ==
    /\ CanEnqueue(c)
    /\ panicked' = qclosed[c]
    /\ qlen' = IF qclosed[c] THEN qlen ELSE [qlen EXCEPT ![c] = @ + 1]

\* udpConns.Delete(c.srcAddr.String()): by key, whichever connector is there.
DeleteEntry(c) == udpConns' = [udpConns EXCEPT ![src[c]] = None]

-----------------------------------------------------------------------------
(* UdpListen: the listener loop *)

\* A datagram of a source with an entry in udpConns: load the connector.
ReadKnown(a) ==
    /\ lpc = "read"
    /\ udpConns[a] # None
    /\ lpc' = "lock"
    /\ lconn' = udpConns[a]
    /\ UNCHANGED <<udpConns, panicked, cvars, pcs>>

\* A datagram of an unknown source: start a creator goroutine and read on.
ReadUnknown(a, c) ==
    /\ lpc = "read"
    /\ udpConns[a] = None
    /\ cpc[c] = "unused"
    /\ cpc' = [cpc EXCEPT ![c] = "dial"]
    /\ src' = [src EXCEPT ![c] = a]
    /\ UNCHANGED <<lvars, udpConns, panicked, remote, closed, qlen,
                   qclosed, mu, idle, rpc, hpc, wpc>>

ListenerLock ==
    /\ lpc = "lock"
    /\ mu[lconn] = "free"
    /\ mu' = [mu EXCEPT ![lconn] = "listener"]
    /\ lpc' = "check"
    /\ UNCHANGED <<lconn, udpConns, panicked, src, remote, closed, qlen,
                   qclosed, idle, pcs>>

\* Faulty variant: the early continue forgets c.mu.Unlock().
ListenerDropLocked ==
    /\ lpc = "check"
    /\ closed[lconn]
    /\ lpc' = "read"
    /\ lconn' = None
    /\ UNCHANGED <<udpConns, panicked, cvars, pcs>>

\* if c.closed { c.mu.Unlock(); continue }: the datagram is dropped.
ListenerDrop ==
    /\ lpc = "check"
    /\ closed[lconn]
    /\ mu' = [mu EXCEPT ![lconn] = "free"]
    /\ lpc' = "read"
    /\ lconn' = None
    /\ UNCHANGED <<udpConns, panicked, src, remote, closed, qlen,
                   qclosed, idle, pcs>>

\* Faulty variant: no check of c.closed.
ListenerPassUnchecked ==
    /\ lpc = "check"
    /\ lpc' = "send"
    /\ UNCHANGED <<lconn, udpConns, panicked, cvars, pcs>>

\* The flag reads false.  handleRemote sets it without c.mu, a data race in
\* which the old value may still be read; healthCheck's write is under c.mu,
\* and is seen once the queue is closed.
ListenerPass ==
    /\ lpc = "check"
    /\ closed[lconn] => ~qclosed[lconn]
    /\ lpc' = "send"
    /\ UNCHANGED <<lconn, udpConns, panicked, cvars, pcs>>

\* The send, with c.mu held while it blocks, and the unlock.
ListenerSend ==
    /\ lpc = "send"
    /\ Enqueue(lconn)
    /\ mu' = IF panicked' THEN mu ELSE [mu EXCEPT ![lconn] = "free"]
    /\ lpc' = IF panicked' THEN lpc ELSE "read"
    /\ lconn' = IF panicked' THEN lconn ELSE None
    /\ UNCHANGED <<udpConns, src, remote, closed, qclosed, idle, pcs>>

-----------------------------------------------------------------------------
(* The creator goroutine and NewConn *)

\* NewConn fails: the datagram is dropped.
DialFails(c) ==
    /\ cpc[c] = "dial"
    /\ cpc' = [cpc EXCEPT ![c] = "done"]
    /\ UNCHANGED <<lvars, udpConns, panicked, cvars, rpc, hpc, wpc>>

\* NewConn succeeds and starts the connector's three goroutines.
NewConn(c) ==
    /\ cpc[c] = "dial"
    /\ remote' = [remote EXCEPT ![c] = "open"]
    /\ cpc' = [cpc EXCEPT ![c] = "store"]
    /\ rpc' = [rpc EXCEPT ![c] = "check"]
    /\ hpc' = [hpc EXCEPT ![c] = "check"]
    /\ wpc' = [wpc EXCEPT ![c] = "recv"]
    /\ UNCHANGED <<lvars, udpConns, panicked, src, closed, qlen, qclosed,
                   mu, idle>>

\* udpConns.Store: replaces any connector stored for the source meanwhile.
Store(c) ==
    /\ cpc[c] = "store"
    /\ udpConns' = [udpConns EXCEPT ![src[c]] = c]
    /\ cpc' = [cpc EXCEPT ![c] = "send"]
    /\ UNCHANGED <<lvars, panicked, cvars, rpc, hpc, wpc>>

\* The first datagram, sent without c.mu.
FirstSend(c) ==
    /\ cpc[c] = "send"
    /\ Enqueue(c)
    /\ cpc' = IF panicked' THEN cpc ELSE [cpc EXCEPT ![c] = "done"]
    /\ UNCHANGED <<lvars, udpConns, src, remote, closed, qclosed, mu,
                   idle, rpc, hpc, wpc>>

-----------------------------------------------------------------------------
(* handleRemote *)

\* The loop condition reads true.
ReaderStop(c) ==
    /\ rpc[c] = "check"
    /\ closed[c]
    /\ rpc' = [rpc EXCEPT ![c] = "done"]
    /\ UNCHANGED <<lvars, udpConns, panicked, cvars, cpc, hpc, wpc>>

\* The loop condition reads false, which as a racy read it may even when
\* healthCheck has set it; ReadFromRemote stores lastRecvTime, a racy write
\* that healthCheck may or may not see, and starts to read.
ReaderRead(c) ==
    /\ rpc[c] = "check"
    /\ rpc' = [rpc EXCEPT ![c] = "read"]
    /\ \E seen \in {idle[c], FALSE} : idle' = [idle EXCEPT ![c] = seen]
    /\ UNCHANGED <<lvars, udpConns, panicked, src, remote, closed, qlen,
                   qclosed, mu, cpc, hpc, wpc>>

\* A message of the remote end arrives and goes through outboundQueue, whose
\* workers do nothing but write it to the local client.
ReaderGot(c) ==
    /\ rpc[c] = "read"
    /\ remote[c] = "open"
    /\ rpc' = [rpc EXCEPT ![c] = "check"]
    /\ UNCHANGED <<lvars, udpConns, panicked, cvars, cpc, hpc, wpc>>

\* The read fails: c.closed = true without c.mu ...
ReaderFail(c) ==
    /\ rpc[c] = "read"
    /\ remote[c] # "open"
    /\ closed' = [closed EXCEPT ![c] = TRUE]
    /\ rpc' = [rpc EXCEPT ![c] = "delete"]
    /\ UNCHANGED <<lvars, udpConns, panicked, src, remote, qlen, qclosed,
                   mu, idle, cpc, hpc, wpc>>

\* ... then the map entry of the source is deleted ...
ReaderDelete(c) ==
    /\ rpc[c] = "delete"
    /\ DeleteEntry(c)
    /\ rpc' = [rpc EXCEPT ![c] = "close"]
    /\ UNCHANGED <<lvars, panicked, cvars, cpc, hpc, wpc>>

\* ... then the remote connection is closed.
ReaderClose(c) ==
    /\ rpc[c] = "close"
    /\ remote' = [remote EXCEPT ![c] = "closed"]
    /\ rpc' = [rpc EXCEPT ![c] = "done"]
    /\ UNCHANGED <<lvars, udpConns, panicked, src, closed, qlen, qclosed,
                   mu, idle, cpc, hpc, wpc>>

-----------------------------------------------------------------------------
(* healthCheck *)

\* The clock passes lastRecvTime + idleTimeout.
IdlePeriodPasses(c) ==
    /\ hpc[c] = "check"
    /\ ~idle[c]
    /\ idle' = [idle EXCEPT ![c] = TRUE]
    /\ UNCHANGED <<lvars, udpConns, panicked, src, remote, closed, qlen,
                   qclosed, mu, pcs>>

\* The check finds the connector idle; otherwise it sleeps and checks again.
HealthExpire(c) ==
    /\ hpc[c] = "check"
    /\ idle[c]
    /\ hpc' = [hpc EXCEPT ![c] = "lock"]
    /\ UNCHANGED <<lvars, udpConns, panicked, cvars, cpc, rpc, wpc>>

HealthLock(c) ==
    /\ hpc[c] = "lock"
    /\ mu[c] = "free"
    /\ mu' = [mu EXCEPT ![c] = "health"]
    /\ hpc' = [hpc EXCEPT ![c] = "close"]
    /\ UNCHANGED <<lvars, udpConns, panicked, src, remote, closed, qlen,
                   qclosed, idle, cpc, rpc, wpc>>

\* c.closed = true; close(c.inboundQueue); c.mu.Unlock()
HealthClose(c) ==
    /\ hpc[c] = "close"
    /\ closed' = [closed EXCEPT ![c] = TRUE]
    /\ qclosed' = [qclosed EXCEPT ![c] = TRUE]
    /\ mu' = [mu EXCEPT ![c] = "free"]
    /\ hpc' = [hpc EXCEPT ![c] = "closeRemote"]
    /\ UNCHANGED <<lvars, udpConns, panicked, src, remote, qlen, idle,
                   cpc, rpc, wpc>>

\* Faulty variant: the remote connection is left open.
HealthKeepRemote(c) ==
    /\ hpc[c] = "closeRemote"
    /\ hpc' = [hpc EXCEPT ![c] = "delete"]
    /\ UNCHANGED <<lvars, udpConns, panicked, cvars, cpc, rpc, wpc>>

HealthCloseRemote(c) ==
    /\ hpc[c] = "closeRemote"
    /\ remote' = [remote EXCEPT ![c] = "closed"]
    /\ hpc' = [hpc EXCEPT ![c] = "delete"]
    /\ UNCHANGED <<lvars, udpConns, panicked, src, closed, qlen, qclosed,
                   mu, idle, cpc, rpc, wpc>>

\* Faulty variant: the map entry stays.
HealthKeepEntry(c) ==
    /\ hpc[c] = "delete"
    /\ hpc' = [hpc EXCEPT ![c] = "done"]
    /\ UNCHANGED <<lvars, udpConns, panicked, cvars, cpc, rpc, wpc>>

HealthDelete(c) ==
    /\ hpc[c] = "delete"
    /\ DeleteEntry(c)
    /\ hpc' = [hpc EXCEPT ![c] = "done"]
    /\ UNCHANGED <<lvars, panicked, cvars, cpc, rpc, wpc>>

-----------------------------------------------------------------------------
(* processInboundQueue and the network *)

WriterRecv(c) ==
    /\ wpc[c] = "recv"
    /\ qlen[c] > 0
    /\ qlen' = [qlen EXCEPT ![c] = @ - 1]
    /\ wpc' = [wpc EXCEPT ![c] = "write"]
    /\ UNCHANGED <<lvars, udpConns, panicked, src, remote, closed,
                   qclosed, mu, idle, cpc, rpc, hpc>>

\* The range loop ends once the closed queue is drained.
WriterEnd(c) ==
    /\ wpc[c] = "recv"
    /\ qlen[c] = 0 /\ qclosed[c]
    /\ wpc' = [wpc EXCEPT ![c] = "done"]
    /\ UNCHANGED <<lvars, udpConns, panicked, cvars, cpc, rpc, hpc>>

\* remoteConn.Write returns; its error is ignored.
WriterWrite(c) ==
    /\ wpc[c] = "write"
    /\ wpc' = [wpc EXCEPT ![c] = "recv"]
    /\ UNCHANGED <<lvars, udpConns, panicked, cvars, cpc, rpc, hpc>>

\* The peer closes the websocket or the network breaks.
RemoteFails(c) ==
    /\ remote[c] = "open"
    /\ remote' = [remote EXCEPT ![c] = "failed"]
    /\ UNCHANGED <<lvars, udpConns, panicked, src, closed, qlen, qclosed,
                   mu, idle, pcs>>

-----------------------------------------------------------------------------
Listener ==
    \/ \E a \in Addrs : ReadKnown(a) \/ \E c \in Conns : ReadUnknown(a, c)
    \/ ListenerLock \/ ListenerDrop \/ ListenerPass \/ ListenerSend

Creator(c) == DialFails(c) \/ NewConn(c) \/ Store(c) \/ FirstSend(c)

Reader(c) ==
    \/ ReaderStop(c) \/ ReaderRead(c) \/ ReaderGot(c) \/ ReaderFail(c) \/ ReaderDelete(c) \/ ReaderClose(c)

Health(c) ==
    \/ HealthExpire(c) \/ HealthLock(c) \/ HealthClose(c)
    \/ HealthCloseRemote(c) \/ HealthDelete(c)

Writer(c) == WriterRecv(c) \/ WriterEnd(c) \/ WriterWrite(c)

Next ==
    /\ ~panicked
    /\ \/ Listener
       \/ \E c \in Conns : \/ Creator(c) \/ Reader(c) \/ Health(c) \/ Writer(c)
                           \/ IdlePeriodPasses(c) \/ RemoteFails(c)

Spec == Init /\ [][Next]_vars

(***************************************************************************)
(* Fairness.  A goroutine that can run runs.  sync.Mutex hands the lock to *)
(* a waiter after a millisecond and channels serve blocked senders in      *)
(* order, hence SF for the lock and the sends.  Nothing is assumed of the  *)
(* network: a dial (no handshake timeout is set) may hang, messages need   *)
(* not arrive, and a Write to an open connection may block for ever.       *)
(***************************************************************************)
Run(A) == ~panicked /\ A

Fairness ==
    /\ WF_vars(Run(ListenerLock \/ ListenerDrop \/ ListenerPass))
    /\ SF_vars(Run(ListenerSend))
    /\ \A c \in Conns :
        /\ WF_vars(Run(Store(c)))
        /\ SF_vars(Run(FirstSend(c)))
        /\ WF_vars(Run(ReaderStop(c) \/ ReaderRead(c)))
        /\ WF_vars(Run(ReaderFail(c) \/ ReaderDelete(c) \/ ReaderClose(c)))
        /\ WF_vars(Run(IdlePeriodPasses(c)))
        /\ SF_vars(Run(HealthLock(c)))
        /\ WF_vars(Run(HealthExpire(c) \/ HealthClose(c)
                       \/ HealthCloseRemote(c) \/ HealthDelete(c)))
        /\ WF_vars(Run(WriterRecv(c) \/ WriterEnd(c)))
        /\ WF_vars(Run(WriterWrite(c) /\ remote[c] # "open"))

FairSpec == Spec /\ Fairness

-----------------------------------------------------------------------------
(* Properties *)

\* The check of c.closed under c.mu protects the listener (udp.go:85-94): when
\* it sends, healthCheck has not closed the queue of the connector it loaded,
\* however long ago it loaded it and whoever set the flag without the lock.
ListenerSendSafe == lpc = "send" => ~qclosed[lconn]

\* A connector that healthCheck has finished with (udp.go:178-184) is not in
\* udpConns, where it would swallow the datagrams of its source for ever; the
\* one exception is a creator so late that its own first send will panic.
NoTombstone ==
    \A a \in Addrs, c \in Conns :
        udpConns[a] = c /\ hpc[c] = "done" => cpc[c] = "send"

AllDone(c) == rpc[c] = "done" /\ hpc[c] = "done" /\ wpc[c] = "done"

\* Nothing of a session leaks: once the reader has ended, which closes neither
\* the queue nor the writer that waits on it, or healthCheck has closed the queue,
\* all three goroutines end (udp.go:115-126, 174-199).
Reclaims ==
    \A c \in Conns :
        (rpc[c] = "done" \/ qclosed[c]) ~> (AllDone(c) \/ panicked)

\* A listener that waits for a connector whose remote end has failed, for its
\* mutex or for room in its queue, gets back to reading (udp.go:85-94, 116-125).
ListenerFreed ==
    \A c \in Conns :
        (lconn = c /\ remote[c] # "open") ~> (lconn # c \/ panicked)
=============================================================================
