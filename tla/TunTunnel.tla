----------------------------- MODULE TunTunnel ------------------------------
(***************************************************************************)
(* The TUN side of the client: a device with its two loops                 *)
(* (core/device/iobased/endpoint.go), the stack's handlers for new         *)
(* connections (core/tcp.go, core/udp.go), the dispatcher and the          *)
(* connection handlers (tunnel/), start and stop (engine/engine.go).       *)
(*                                                                         *)
(* gVisor's stack is external.  It runs the handler of a TCP request in a  *)
(* goroutine of its own and the handler of a UDP request in the goroutine  *)
(* that injects the packet.  Packets that do not start a connection are    *)
(* one packet, Other.  The data a connection carries are in Relay.         *)
(***************************************************************************)
EXTENDS Naturals, FiniteSets

CONSTANTS
    TcpFlows, UdpFlows,  \* the connections applications may start
    Other,               \* a packet that starts none
    OutQueueLen          \* defaultOutQueueLen, 1024

ASSUME FlowsAssumption ==
    /\ IsFiniteSet(TcpFlows) /\ IsFiniteSet(UdpFlows)
    /\ TcpFlows \cap UdpFlows = {} /\ Other \notin TcpFlows \cup UdpFlows
    /\ OutQueueLen \in Nat \ {0}

Flows == TcpFlows \cup UdpFlows

VARIABLES
    mpc,        \* main: Run, then stop
    dev,        \* the device: "none", "open" or "closed"
    attached,   \* the endpoint has a dispatcher
    once,       \* once.Do of the endpoint has run
    wg,         \* its WaitGroup
    dpc, pkt,   \* dispatchLoop, and the packet it has read
    cancelled,  \* the context of the loops is done
    opc, outq,  \* outboundLoop, and the packets waiting for it
    completed,  \* calls of r.Complete for a TCP request
    fpc,        \* the handler of a request: "off", "create", "send" (on
                \* tcpQueue or udpQueue), "complete" or "done"
    hpc,        \* handleTCPConn, handleUDPConn: "off", "dial", "pipe", "over"
    orig, rem,  \* the application's connection and the one to the server:
                \* "none", "open", "ended" by its peer, "closed" by us
    copies      \* the goroutines of pipe that still copy

start == <<attached, once>>
loops == <<start, wg, dpc, pkt, cancelled, opc, outq>>
reqs  == <<completed, fpc>>
conns == <<hpc, orig, rem, copies>>
vars  == <<mpc, dev, loops, reqs, conns>>

ConnState == {"none", "open", "ended", "closed"}
Dirs      == {"up", "down"}

TypeOK ==
    /\ mpc \in {"open", "create", "run", "close", "stack", "detach", "wait", "exit"}
    /\ dev \in {"none", "open", "closed"}
    /\ attached \in BOOLEAN /\ once \in BOOLEAN /\ cancelled \in BOOLEAN
    /\ wg \in 0..2
    /\ dpc \in {"off", "read", "inject", "send", "cancel", "count", "done"}
    /\ pkt \in Flows \cup {Other}
    /\ opc \in {"off", "read", "write", "count", "done"} /\ outq \in 0..OutQueueLen
    /\ completed \in [TcpFlows -> Nat]
    /\ fpc \in [Flows -> {"off", "create", "send", "complete", "done"}]
    /\ hpc \in [Flows -> {"off", "dial", "pipe", "over"}]
    /\ orig \in [Flows -> ConnState] /\ rem \in [Flows -> ConnState]
    /\ copies \in [Flows -> SUBSET Dirs]

Init ==
    /\ mpc = "open" /\ dev = "none"
    /\ attached = FALSE /\ once = FALSE /\ wg = 0 /\ cancelled = FALSE
    /\ dpc = "off" /\ pkt = Other /\ opc = "off" /\ outq = 0
    /\ completed = [f \in TcpFlows |-> 0]
    /\ fpc = [f \in Flows |-> "off"]
    /\ hpc = [f \in Flows |-> "off"]
    /\ orig = [f \in Flows |-> "none"] /\ rem = [f \in Flows |-> "none"]
    /\ copies = [f \in Flows |-> {}]

-----------------------------------------------------------------------------
(* Start: HandleNetStack.  A failure ends the process. *)

OpenDevice ==
    /\ mpc = "open"
    /\ dev' = "open" /\ mpc' = "create"
    /\ UNCHANGED <<loops, reqs, conns>>

\* log.Fatalf
StartFails ==
    /\ mpc \in {"open", "create"}
    /\ mpc' = "exit"
    /\ UNCHANGED <<dev, loops, reqs, conns>>

\* Faulty variant: every Attach starts the loops.
AttachEachTime(dispatcher) ==
    /\ attached' = dispatcher
    /\ once' = TRUE /\ wg' = wg + 2
    /\ dpc' = "read" /\ opc' = "read"

\* Faulty variant: one goroutine is counted.
AttachCountsOne(dispatcher) ==
    /\ attached' = dispatcher
    /\ IF once THEN UNCHANGED <<once, wg, dpc, opc>>
               ELSE once' = TRUE /\ wg' = wg + 1 /\ dpc' = "read" /\ opc' = "read"

\* Endpoint.Attach, with a dispatcher or with nil: the loops are started and
\* counted by the first call.
Attach(dispatcher) ==
    /\ attached' = dispatcher
    /\ IF once THEN UNCHANGED <<once, wg, dpc, opc>>
               ELSE once' = TRUE /\ wg' = wg + 2 /\ dpc' = "read" /\ opc' = "read"

\* core.CreateStack: creating the NIC attaches the endpoint; the options before
\* it set the handlers, those after it only the NIC's modes and routes.
CreateStack ==
    /\ mpc = "create"
    /\ mpc' = "run"
    /\ Attach(TRUE)
    /\ UNCHANGED <<dev, pkt, cancelled, outq, reqs, conns>>

-----------------------------------------------------------------------------
(* dispatchLoop *)

\* rw.Read; a packet of no bytes or of more than the MTU is one of Other.
DispatchRead(p) ==
    /\ dpc = "read" /\ dev = "open"
    /\ p \in Flows => fpc[p] = "off"
    /\ pkt' = p /\ dpc' = "inject"
    /\ UNCHANGED <<mpc, dev, start, wg, cancelled, opc, outq, reqs, conns>>

DispatchReadFails ==
    /\ dpc = "read" /\ dev = "closed"
    /\ dpc' = "cancel"
    /\ UNCHANGED <<mpc, dev, start, wg, pkt, cancelled, opc, outq, reqs, conns>>

\* Not attached, or nothing to start.
DispatchDrop ==
    /\ dpc = "inject"
    /\ ~attached \/ pkt = Other
    /\ dpc' = "read" /\ pkt' = Other
    /\ UNCHANGED <<mpc, dev, start, wg, cancelled, opc, outq, reqs, conns>>

\* The forwarder starts the handler of a SYN in a goroutine.
InjectTCP ==
    /\ dpc = "inject" /\ attached
    /\ pkt \in TcpFlows
    /\ fpc' = [fpc EXCEPT ![pkt] = "create"]
    /\ dpc' = "read" /\ pkt' = Other
    /\ UNCHANGED <<mpc, dev, start, wg, cancelled, opc, outq, completed, conns>>

\* withUDPHandler: dispatchLoop itself waits to send on udpQueue.
InjectUDP ==
    /\ dpc = "inject" /\ attached
    /\ pkt \in UdpFlows
    /\ fpc' = [fpc EXCEPT ![pkt] = "send"]
    /\ orig' = [orig EXCEPT ![pkt] = "open"]
    /\ dpc' = "send"
    /\ UNCHANGED <<mpc, dev, start, wg, pkt, cancelled, opc, outq, completed,
                   hpc, rem, copies>>

\* CreateEndpoint fails
InjectUDPFails ==
    /\ dpc = "inject" /\ attached
    /\ pkt \in UdpFlows
    /\ fpc' = [fpc EXCEPT ![pkt] = "done"]
    /\ dpc' = "read" /\ pkt' = Other
    /\ UNCHANGED <<mpc, dev, start, wg, cancelled, opc, outq, completed,
                   conns>>

\* Faulty variant: the loop returns without a call of cancel.
DispatchReturnsSilently ==
    /\ dpc = "cancel"
    /\ dpc' = "count"
    /\ UNCHANGED <<mpc, dev, start, wg, pkt, cancelled, opc, outq, reqs, conns>>

\* defer cancel()
DispatchReturns ==
    /\ dpc = "cancel"
    /\ cancelled' = TRUE
    /\ dpc' = "count"
    /\ UNCHANGED <<mpc, dev, start, wg, pkt, opc, outq, reqs, conns>>

\* e.wg.Done()
DispatchDone ==
    /\ dpc = "count"
    /\ wg' = wg - 1
    /\ dpc' = "done"
    /\ UNCHANGED <<mpc, dev, start, pkt, cancelled, opc, outq, reqs, conns>>

-----------------------------------------------------------------------------
(* outboundLoop, writePacket *)

\* A connection sends a packet; the queue drops what it has no room for.
Emit(f) ==
    /\ orig[f] = "open" /\ hpc[f] = "pipe"
    /\ attached /\ outq < OutQueueLen
    /\ outq' = outq + 1
    /\ UNCHANGED <<mpc, dev, start, wg, dpc, pkt, cancelled, opc, reqs, conns>>

OutRead ==
    /\ opc = "read" /\ outq > 0
    /\ outq' = outq - 1 /\ opc' = "write"
    /\ UNCHANGED <<mpc, dev, start, wg, dpc, pkt, cancelled, reqs, conns>>

\* The error of a write is dropped.
OutWrite ==
    /\ opc = "write"
    /\ opc' = "read"
    /\ UNCHANGED <<mpc, dev, start, wg, dpc, pkt, cancelled, outq, reqs, conns>>

\* ReadContext gives nil.
OutReturns ==
    /\ opc = "read" /\ cancelled
    /\ opc' = "count"
    /\ UNCHANGED <<mpc, dev, start, wg, dpc, pkt, cancelled, outq, reqs, conns>>

\* e.wg.Done()
OutDone ==
    /\ opc = "count"
    /\ wg' = wg - 1
    /\ opc' = "done"
    /\ UNCHANGED <<mpc, dev, start, dpc, pkt, cancelled, outq, reqs, conns>>

-----------------------------------------------------------------------------
(* withTCPHandler *)

CreateOk(f) ==
    /\ fpc[f] = "create"
    /\ fpc' = [fpc EXCEPT ![f] = "send"]
    /\ orig' = [orig EXCEPT ![f] = "open"]
    /\ UNCHANGED <<mpc, dev, loops, completed, hpc, rem, copies>>

Complete(f) == completed' = [completed EXCEPT ![f] = @ + 1]

\* Faulty variant: the handler goes on to its deferred call.
CreateFailsTwice(f) ==
    /\ fpc[f] = "create"
    /\ Complete(f)
    /\ fpc' = [fpc EXCEPT ![f] = "complete"]
    /\ UNCHANGED <<mpc, dev, loops, conns>>

\* r.Complete(true), before the deferred call is there.
CreateFails(f) ==
    /\ fpc[f] = "create"
    /\ Complete(f)
    /\ fpc' = [fpc EXCEPT ![f] = "done"]
    /\ UNCHANGED <<mpc, dev, loops, conns>>

\* defer r.Complete(false), when HandleTCP has returned.
HandlerCompletes(f) ==
    /\ fpc[f] = "complete"
    /\ Complete(f)
    /\ fpc' = [fpc EXCEPT ![f] = "done"]
    /\ UNCHANGED <<mpc, dev, loops, conns>>

-----------------------------------------------------------------------------
(* Tunnel.process: a send on an unbuffered queue meets the select.  Nobody   *)
(* calls Tunnel.Close, so its context is never done.                         *)

TakeTCP(f) ==
    /\ f \in TcpFlows
    /\ fpc' = [fpc EXCEPT ![f] = "complete"]
    /\ UNCHANGED <<dpc, pkt>>

TakeUDP(f) ==
    /\ f \in UdpFlows
    /\ fpc' = [fpc EXCEPT ![f] = "done"]
    /\ dpc' = "read" /\ pkt' = Other

\* Faulty variant: the handler runs in the dispatcher's own goroutine.
ProcessInline(f) ==
    /\ fpc[f] = "send"
    /\ \A g \in Flows : hpc[g] \in {"off", "over"}
    /\ TakeTCP(f) \/ TakeUDP(f)
    /\ hpc' = [hpc EXCEPT ![f] = "dial"]
    /\ UNCHANGED <<mpc, dev, start, wg, cancelled, opc, outq, completed,
                   orig, rem, copies>>

\* go t.handleTCPConn(conn), go t.handleUDPConn(conn)
Process(f) ==
    /\ fpc[f] = "send"
    /\ TakeTCP(f) \/ TakeUDP(f)
    /\ hpc' = [hpc EXCEPT ![f] = "dial"]
    /\ UNCHANGED <<mpc, dev, start, wg, cancelled, opc, outq, completed,
                   orig, rem, copies>>

-----------------------------------------------------------------------------
(* handleTCPConn, handleUDPConn, pipe *)

DialOk(f) ==
    /\ hpc[f] = "dial"
    /\ rem' = [rem EXCEPT ![f] = "open"]
    /\ copies' = [copies EXCEPT ![f] = Dirs]
    /\ hpc' = [hpc EXCEPT ![f] = "pipe"]
    /\ UNCHANGED <<mpc, dev, loops, reqs, orig>>

\* Faulty variant: the application's connection stays open in either case.
DialFailsOpen(f) ==
    /\ hpc[f] = "dial"
    /\ hpc' = [hpc EXCEPT ![f] = "over"]
    /\ UNCHANGED <<mpc, dev, loops, reqs, orig, rem, copies>>

\* The UDP handler closes the application's connection, the TCP handler does not.
DialFails(f) ==
    /\ hpc[f] = "dial"
    /\ orig' = IF f \in UdpFlows THEN [orig EXCEPT ![f] = "closed"] ELSE orig
    /\ hpc' = [hpc EXCEPT ![f] = "over"]
    /\ UNCHANGED <<mpc, dev, loops, reqs, rem, copies>>

\* A direction ends when its source has ended, or when a write to its
\* destination fails; then it closes both connections.
CopyEnds(f, d) ==
    /\ d \in copies[f]
    /\ orig[f] # "open" \/ rem[f] # "open"
    /\ copies' = [copies EXCEPT ![f] = @ \ {d}]
    /\ orig' = [orig EXCEPT ![f] = "closed"]
    /\ rem' = [rem EXCEPT ![f] = "closed"]
    /\ UNCHANGED <<mpc, dev, loops, reqs, hpc>>

PipeEnds(f) ==
    /\ hpc[f] = "pipe" /\ copies[f] = {}
    /\ hpc' = [hpc EXCEPT ![f] = "over"]
    /\ UNCHANGED <<mpc, dev, loops, reqs, orig, rem, copies>>

-----------------------------------------------------------------------------
(* The application and the server *)

\* FIN, RST, or the error of an ICMP message
OrigEnds(f) ==
    /\ orig[f] = "open"
    /\ orig' = [orig EXCEPT ![f] = "ended"]
    /\ UNCHANGED <<mpc, dev, loops, reqs, hpc, rem, copies>>

RemoteEnds(f) ==
    /\ rem[f] = "open"
    /\ rem' = [rem EXCEPT ![f] = "ended"]
    /\ UNCHANGED <<mpc, dev, loops, reqs, hpc, orig, copies>>

-----------------------------------------------------------------------------
(* stop *)

\* The signal; then Device.Close closes the file.
StopDevice ==
    /\ mpc = "run"
    /\ dev' = "closed" /\ mpc' = "close"
    /\ UNCHANGED <<loops, reqs, conns>>

\* t.Endpoint.Close() drains the queue; ArgoProxy.Close is in ArgoPool.
StopEndpoint ==
    /\ mpc = "close"
    /\ outq' = 0 /\ mpc' = "stack"
    /\ UNCHANGED <<dev, start, wg, dpc, pkt, cancelled, opc, reqs, conns>>

\* Stack.Close aborts the connections that are there.
StopStack ==
    /\ mpc = "stack"
    /\ orig' = [f \in Flows |-> IF orig[f] = "open" THEN "ended" ELSE orig[f]]
    /\ mpc' = "detach"
    /\ UNCHANGED <<dev, loops, reqs, hpc, rem, copies>>

\* Stack.Wait removes the NIC, which calls Attach(nil),
StopDetach ==
    /\ mpc = "detach"
    /\ mpc' = "wait"
    /\ Attach(FALSE)
    /\ UNCHANGED <<dev, pkt, cancelled, outq, reqs, conns>>

\* and calls Endpoint.Wait.
StopWait ==
    /\ mpc = "wait"
    /\ wg = 0
    /\ mpc' = "exit"
    /\ UNCHANGED <<dev, loops, reqs, conns>>

-----------------------------------------------------------------------------
Dispatch ==
    \/ \E p \in Flows \cup {Other} : DispatchRead(p)
    \/ DispatchReadFails \/ DispatchDrop \/ InjectTCP \/ InjectUDP
    \/ InjectUDPFails \/ DispatchReturns \/ DispatchDone

Outbound == OutRead \/ OutWrite \/ OutReturns \/ OutDone

Request(f) == CreateOk(f) \/ CreateFails(f) \/ HandlerCompletes(f)

Handle(f) ==
    \/ DialOk(f) \/ DialFails(f) \/ PipeEnds(f)
    \/ \E d \in Dirs : CopyEnds(f, d)

Stop == StopEndpoint \/ StopStack \/ StopDetach \/ StopWait

Next ==
    \/ OpenDevice \/ StartFails \/ CreateStack \/ StopDevice \/ Stop
    \/ Dispatch \/ Outbound
    \/ \E f \in TcpFlows : Request(f)
    \/ \E f \in Flows :
          Process(f) \/ Handle(f) \/ Emit(f) \/ OrigEnds(f) \/ RemoteEnds(f)

Spec == Init /\ [][Next]_vars

\* A read waits for a packet: that none need come is why only the loop's other
\* steps are fair.
Fairness ==
    /\ WF_vars(DispatchReadFails) /\ WF_vars(DispatchDrop) /\ WF_vars(InjectTCP)
    /\ WF_vars(InjectUDP \/ InjectUDPFails)
    /\ WF_vars(DispatchReturns) /\ WF_vars(DispatchDone)
    /\ WF_vars(Outbound) /\ WF_vars(Stop)
    /\ \A f \in TcpFlows : WF_vars(Request(f))
    /\ \A f \in Flows : WF_vars(Process(f)) /\ WF_vars(Handle(f))

FairSpec == Spec /\ Fairness

-----------------------------------------------------------------------------
(* Properties *)

\* The forwarder's request is completed exactly once: a second call of
\* Complete panics, none leaks one of maxConnAttempts (core/tcp.go:61-68).
CompletedOnce ==
    \A f \in TcpFlows :
        /\ completed[f] <= 1
        /\ fpc[f] = "done" => completed[f] = 1

\* A handler that has returned holds no connection to the server, and has
\* closed the application's, whether the application, the server or the stack
\* ended the session; only a TCP handler whose dial failed leaves the
\* application's connection to the application (tunnel/tcp.go:31-43, 63-64,
\* tunnel/udp.go:11-20).
HandlerReleases ==
    \A f \in Flows :
        hpc[f] = "over" =>
            /\ rem[f] # "open" /\ copies[f] = {}
            /\ orig[f] = "closed" \/ (f \in TcpFlows /\ rem[f] = "none")

\* Once stop has returned no loop of the device runs any more: the WaitGroup has
\* counted the two that the attachment started and not yet ended, and the nil
\* attachment of the stop itself has started none (endpoint.go:68-86,
\* engine.go:38-52).
QuietAfterStop == (mpc = "exit" /\ dev = "closed") => dpc = "done" /\ opc = "done"

\* A connection that waits for the dispatcher is handled, however long others
\* live: the UDP handler's wait holds up every packet of the device, the TCP
\* handler's one of maxConnAttempts (tunnel.go:62-80).
FlowServed == \A f \in Flows : fpc[f] = "send" ~> hpc[f] # "off"

\* stop returns, whatever the loops and the connections are doing
\* (endpoint.go:89-92, "to ensure outboundLoop exits gracefully").
StopEnds == (mpc = "close") ~> (mpc = "exit")
=============================================================================
