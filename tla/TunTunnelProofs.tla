-------------------------- MODULE TunTunnelProofs ---------------------------
(***************************************************************************)
(* Proofs about the TUN side of the client and about the relay that copies *)
(* a TCP connection.                                                       *)
(*                                                                         *)
(* TunTunnel, for every set of connections: requests are completed once, a *)
(* handler leaves nothing open, and stop returns only after both loops of  *)
(* the device.                                                             *)
(*                                                                         *)
(* Relay, for all sizes of buffers and messages and streams of any length: *)
(* what arrives is what was sent, and the slices of the allocator fit.     *)
(***************************************************************************)
EXTENDS TunTunnel, Relay, SequenceTheorems, WellFoundedInduction, TLAPS

-----------------------------------------------------------------------------
(* The TUN client *)

Labels ==
    /\ mpc \in {"open", "create", "run", "close", "stack", "detach", "wait", "exit"}
    /\ dev \in {"none", "open", "closed"}
    /\ dpc \in {"off", "read", "inject", "send", "cancel", "count", "done"}
    /\ pkt \in Flows \cup {Other}
    /\ opc \in {"off", "read", "write", "count", "done"}
    /\ fpc \in [Flows -> {"off", "create", "send", "complete", "done"}]
    /\ hpc \in [Flows -> {"off", "dial", "pipe", "over"}]
    /\ orig \in [Flows -> ConnState] /\ rem \in [Flows -> ConnState]

Flags  == attached \in BOOLEAN /\ once \in BOOLEAN /\ cancelled \in BOOLEAN
Counts == outq \in 0..OutQueueLen
Copies == copies \in [Flows -> SUBSET Dirs]

\* A packet that starts a connection is in one place: with the loop that has
\* read it, or with its handler; a UDP handler has the loop itself.
PacketInv ==
    /\ (dpc = "inject" /\ pkt \in Flows) => fpc[pkt] = "off"
    /\ \A f \in UdpFlows : fpc[f] = "send" => dpc = "send" /\ pkt = f

\* A request is completed by the step that ends its handler.
CompleteInv ==
    completed = [f \in TcpFlows |-> IF fpc[f] = "done" THEN 1 ELSE 0]

\* What is open at each point of a connection's handler.
HandlerInv ==
    \A f \in Flows :
        /\ fpc[f] \in {"off", "create", "send"} => hpc[f] = "off"
        /\ hpc[f] \in {"off", "dial"} => rem[f] = "none" /\ copies[f] = {}
        /\ hpc[f] = "pipe" => (copies[f] = Dirs \/ (orig[f] = "closed" /\ rem[f] = "closed"))
        /\ hpc[f] = "over" =>
              /\ rem[f] # "open" /\ copies[f] = {}
              /\ orig[f] = "closed" \/ (f \in TcpFlows /\ rem[f] = "none")

\* The loops begin with the first attachment, and from then on the WaitGroup
\* counts those that have not ended.
Ended(label) == IF label = "done" THEN 0 ELSE 1
LoopsInv ==
    /\ ~once => wg = 0 /\ dpc = "off" /\ opc = "off"
    /\ once => dpc # "off" /\ opc # "off" /\ wg = Ended(dpc) + Ended(opc)

\* Only stop closes the device, and it ends after the loops.
StopInv ==
    /\ mpc \in {"open", "create"} => ~once
    /\ mpc \in {"run", "close", "stack", "detach", "wait"} => once
    /\ mpc \in {"open", "create", "run"} => dev # "closed"
    /\ (mpc = "exit" /\ dev = "closed") => dpc = "done" /\ opc = "done"

IInv == /\ Labels /\ Flags /\ Counts /\ Copies
        /\ PacketInv /\ CompleteInv /\ HandlerInv /\ LoopsInv /\ StopInv
-----------------------------------------------------------------------------
LEMMA InitInv == Init => IInv
<1> SUFFICES ASSUME Init PROVE IInv
  OBVIOUS
<1> USE DEF Init
<1>1. Labels
  BY DEF Labels, ConnState
<1>2. Flags
  BY Zenon DEF Flags
<1>3. Counts
  BY FlowsAssumption DEF Counts
<1>4. Copies
  BY DEF Copies
<1>5. PacketInv
  BY FlowsAssumption DEF PacketInv, Flows
<1>6. CompleteInv
  BY DEF CompleteInv, Flows
<1>7. HandlerInv /\ LoopsInv /\ StopInv
  BY DEF HandlerInv, LoopsInv, StopInv
<1> QED BY <1>1, <1>2, <1>3, <1>4, <1>5, <1>6, <1>7 DEF IInv

\* An attachment begins the loops, or there is no change but of the dispatcher.
LEMMA Attached ==
    ASSUME NEW d, Attach(d)
    PROVE  /\ attached' = d
           /\ \/ once /\ UNCHANGED <<once, wg, dpc, opc>>
              \/ ~once /\ once' /\ wg' = wg + 2 /\ dpc' = "read" /\ opc' = "read"
BY Zenon DEF Attach

LEMMA LabelsStep == ASSUME IInv, [Next]_vars PROVE Labels'
<1> USE DEF IInv, Labels, loops, start, reqs, conns
<1>1. CASE OpenDevice \/ StartFails \/ CreateStack \/ StopDevice
  BY <1>1, Attached DEF OpenDevice, StartFails, CreateStack, StopDevice
<1>2. CASE Stop
  <2>1. CASE StopStack
    BY <2>1 DEF StopStack, ConnState
  <2> QED BY <1>2, <2>1, Attached DEF Stop, StopEndpoint, StopDetach, StopWait
<1>3. CASE Dispatch
  BY <1>3 DEF Dispatch, DispatchRead, DispatchReadFails, DispatchDrop, InjectTCP,
              InjectUDP, InjectUDPFails, DispatchReturns, DispatchDone, Flows, ConnState
<1>4. CASE Outbound
  BY <1>4 DEF Outbound, OutRead, OutWrite, OutReturns, OutDone
<1>5. ASSUME NEW f \in TcpFlows, Request(f) PROVE Labels'
  BY <1>5 DEF Request, CreateOk, CreateFails, HandlerCompletes, Flows, ConnState
<1>6. ASSUME NEW f \in Flows,
             Process(f) \/ Handle(f) \/ Emit(f) \/ OrigEnds(f) \/ RemoteEnds(f)
      PROVE  Labels'
  <2>1. CASE Process(f)
    BY <2>1 DEF Process, TakeTCP, TakeUDP
  <2>2. CASE Handle(f)
    BY <2>2 DEF Handle, DialOk, DialFails, PipeEnds, CopyEnds, ConnState
  <2>3. CASE Emit(f) \/ OrigEnds(f) \/ RemoteEnds(f)
    BY <2>3 DEF Emit, OrigEnds, RemoteEnds, ConnState
  <2> QED BY <1>6, <2>1, <2>2, <2>3
<1>7. CASE UNCHANGED vars
  BY <1>7 DEF vars
<1> QED BY <1>1, <1>2, <1>3, <1>4, <1>5, <1>6, <1>7 DEF Next

LEMMA TypesStep == ASSUME IInv, [Next]_vars PROVE Flags' /\ Counts' /\ Copies'
<1> USE FlowsAssumption DEF IInv, Flags, Counts, Copies, loops, start, reqs, conns
<1>1. CASE OpenDevice \/ StartFails \/ CreateStack \/ StopDevice
  BY <1>1, Attached DEF OpenDevice, StartFails, CreateStack, StopDevice
<1>2. CASE Stop
  <2>1. CASE StopDetach
    BY <2>1, Attached DEF StopDetach
  <2>2. CASE StopEndpoint \/ StopStack \/ StopWait
    <3>1. Flags'
      BY <2>2, Zenon DEF StopEndpoint, StopStack, StopWait
    <3>2. Counts' /\ Copies'
      BY <2>2 DEF StopEndpoint, StopStack, StopWait
    <3> QED BY <3>1, <3>2
  <2> QED BY <1>2, <2>1, <2>2 DEF Stop
<1>3. CASE Dispatch
  BY <1>3 DEF Dispatch, DispatchRead, DispatchReadFails, DispatchDrop, InjectTCP,
              InjectUDP, InjectUDPFails, DispatchReturns, DispatchDone
<1>4. CASE Outbound
  BY <1>4 DEF Outbound, OutRead, OutWrite, OutReturns, OutDone
<1>5. ASSUME NEW f \in TcpFlows, Request(f) PROVE Flags' /\ Counts' /\ Copies'
  BY <1>5 DEF Request, CreateOk, CreateFails, HandlerCompletes
<1>6. ASSUME NEW f \in Flows,
             Process(f) \/ Handle(f) \/ Emit(f) \/ OrigEnds(f) \/ RemoteEnds(f)
      PROVE  Flags' /\ Counts' /\ Copies'
  <2>1. CASE Process(f)
    BY <2>1 DEF Process
  <2>2. CASE Handle(f)
    BY <2>2 DEF Handle, DialOk, DialFails, PipeEnds, CopyEnds
  <2>3. CASE Emit(f) \/ OrigEnds(f) \/ RemoteEnds(f)
    BY <2>3 DEF Emit, OrigEnds, RemoteEnds
  <2> QED BY <1>6, <2>1, <2>2, <2>3
<1>7. CASE UNCHANGED vars
  BY <1>7 DEF vars
<1> QED BY <1>1, <1>2, <1>3, <1>4, <1>5, <1>6, <1>7 DEF Next

LEMMA PacketStep == ASSUME IInv, [Next]_vars PROVE PacketInv'
<1> USE FlowsAssumption DEF IInv, Labels, PacketInv, LoopsInv, StopInv, loops, start, reqs, conns, Flows
<1>1. CASE OpenDevice \/ StartFails \/ CreateStack \/ StopDevice
  BY <1>1, Attached DEF OpenDevice, StartFails, CreateStack, StopDevice
<1>2. CASE Stop
  BY <1>2, Attached DEF Stop, StopEndpoint, StopStack, StopDetach, StopWait
<1>3. CASE Dispatch
  BY <1>3 DEF Dispatch, DispatchRead, DispatchReadFails, DispatchDrop, InjectTCP,
              InjectUDP, InjectUDPFails, DispatchReturns, DispatchDone
<1>4. CASE Outbound
  BY <1>4 DEF Outbound, OutRead, OutWrite, OutReturns, OutDone
<1>5. ASSUME NEW f \in TcpFlows, Request(f) PROVE PacketInv'
  BY <1>5 DEF Request, CreateOk, CreateFails, HandlerCompletes
<1>6. ASSUME NEW f \in Flows,
             Process(f) \/ Handle(f) \/ Emit(f) \/ OrigEnds(f) \/ RemoteEnds(f)
      PROVE  PacketInv'
  <2>1. CASE Process(f)
    BY <2>1 DEF Process, TakeTCP, TakeUDP
  <2>2. CASE Handle(f)
    BY <2>2 DEF Handle, DialOk, DialFails, PipeEnds, CopyEnds
  <2>3. CASE Emit(f) \/ OrigEnds(f) \/ RemoteEnds(f)
    BY <2>3 DEF Emit, OrigEnds, RemoteEnds
  <2> QED BY <1>6, <2>1, <2>2, <2>3
<1>7. CASE UNCHANGED vars
  BY <1>7 DEF vars
<1> QED BY <1>1, <1>2, <1>3, <1>4, <1>5, <1>6, <1>7 DEF Next

LEMMA CompleteStep == ASSUME IInv, [Next]_vars PROVE CompleteInv'
<1> USE FlowsAssumption DEF IInv, Labels, PacketInv, CompleteInv, loops, start, reqs, conns, Flows
<1>1. CASE OpenDevice \/ StartFails \/ CreateStack \/ StopDevice
  BY <1>1, Attached DEF OpenDevice, StartFails, CreateStack, StopDevice
<1>2. CASE Stop
  BY <1>2, Attached DEF Stop, StopEndpoint, StopStack, StopDetach, StopWait
<1>3. CASE Dispatch
  BY <1>3 DEF Dispatch, DispatchRead, DispatchReadFails, DispatchDrop, InjectTCP,
              InjectUDP, InjectUDPFails, DispatchReturns, DispatchDone
<1>4. CASE Outbound
  BY <1>4 DEF Outbound, OutRead, OutWrite, OutReturns, OutDone
<1>5. ASSUME NEW f \in TcpFlows, Request(f) PROVE CompleteInv'
  BY <1>5 DEF Request, CreateOk, CreateFails, HandlerCompletes, Complete
<1>6. ASSUME NEW f \in Flows,
             Process(f) \/ Handle(f) \/ Emit(f) \/ OrigEnds(f) \/ RemoteEnds(f)
      PROVE  CompleteInv'
  <2>1. CASE Process(f)
    BY <2>1 DEF Process, TakeTCP, TakeUDP
  <2>2. CASE Handle(f)
    BY <2>2 DEF Handle, DialOk, DialFails, PipeEnds, CopyEnds
  <2>3. CASE Emit(f) \/ OrigEnds(f) \/ RemoteEnds(f)
    BY <2>3 DEF Emit, OrigEnds, RemoteEnds
  <2> QED BY <1>6, <2>1, <2>2, <2>3
<1>7. CASE UNCHANGED vars
  BY <1>7 DEF vars
<1> QED BY <1>1, <1>2, <1>3, <1>4, <1>5, <1>6, <1>7 DEF Next

LEMMA HandlerStep == ASSUME IInv, [Next]_vars PROVE HandlerInv'
<1> USE FlowsAssumption
    DEF IInv, Labels, Copies, PacketInv, HandlerInv, loops, start, reqs, conns, Flows
<1>0. ASSUME UNCHANGED <<reqs, conns>> PROVE HandlerInv'
  BY <1>0
<1>1. CASE OpenDevice \/ StartFails \/ CreateStack \/ StopDevice
  BY <1>0, <1>1 DEF OpenDevice, StartFails, CreateStack, StopDevice
<1>2. CASE Stop
  <2>1. CASE StopStack
    BY <2>1 DEF StopStack
  <2> QED BY <1>0, <1>2, <2>1 DEF Stop, StopEndpoint, StopDetach, StopWait
<1>3. CASE Dispatch
  BY <1>3 DEF Dispatch, DispatchRead, DispatchReadFails, DispatchDrop, InjectTCP,
              InjectUDP, InjectUDPFails, DispatchReturns, DispatchDone
<1>4. CASE Outbound
  BY <1>4 DEF Outbound, OutRead, OutWrite, OutReturns, OutDone
<1>5. ASSUME NEW f \in TcpFlows, Request(f) PROVE HandlerInv'
  BY <1>5 DEF Request, CreateOk, CreateFails, HandlerCompletes
<1>6. ASSUME NEW f \in Flows,
             Process(f) \/ Handle(f) \/ Emit(f) \/ OrigEnds(f) \/ RemoteEnds(f)
      PROVE  HandlerInv'
  <2>1. CASE Process(f)
    BY <2>1 DEF Process, TakeTCP, TakeUDP
  <2>2. CASE DialOk(f) \/ DialFails(f)
    BY <2>2 DEF DialOk, DialFails
  <2>3. CASE PipeEnds(f)
    BY <2>3 DEF PipeEnds, Dirs
  <2>4. CASE \E d \in Dirs : CopyEnds(f, d)
    BY <2>4 DEF CopyEnds
  <2>5. CASE Emit(f) \/ OrigEnds(f) \/ RemoteEnds(f)
    BY <2>5 DEF Emit, OrigEnds, RemoteEnds
  <2> QED BY <1>6, <2>1, <2>2, <2>3, <2>4, <2>5 DEF Handle
<1>7. CASE UNCHANGED vars
  BY <1>7 DEF vars
<1> QED BY <1>1, <1>2, <1>3, <1>4, <1>5, <1>6, <1>7 DEF Next

\* The WaitGroup counts the loops through their start and their ends.
LEMMA LoopsStep == ASSUME IInv, [Next]_vars PROVE LoopsInv'
<1> USE DEF IInv, Labels, LoopsInv, Ended, loops, start
<1>1. ASSUME NEW d, Attach(d) PROVE LoopsInv'
  BY <1>1, Attached
<1>2. ASSUME UNCHANGED <<once, wg, dpc, opc>> PROVE LoopsInv'
  BY <1>2
<1>3. CASE OpenDevice \/ StartFails \/ CreateStack \/ StopDevice
  BY <1>1, <1>2, <1>3 DEF OpenDevice, StartFails, CreateStack, StopDevice
<1>4. CASE Stop
  BY <1>1, <1>2, <1>4 DEF Stop, StopEndpoint, StopStack, StopDetach, StopWait
<1>5. CASE Dispatch
  BY <1>5 DEF Dispatch, DispatchRead, DispatchReadFails, DispatchDrop, InjectTCP,
              InjectUDP, InjectUDPFails, DispatchReturns, DispatchDone
<1>6. CASE Outbound
  BY <1>6 DEF Outbound, OutRead, OutWrite, OutReturns, OutDone
<1>7. ASSUME NEW f \in TcpFlows, Request(f) PROVE LoopsInv'
  BY <1>2, <1>7 DEF Request, CreateOk, CreateFails, HandlerCompletes
<1>8. ASSUME NEW f \in Flows,
             Handle(f) \/ Emit(f) \/ OrigEnds(f) \/ RemoteEnds(f)
      PROVE  LoopsInv'
  BY <1>2, <1>8 DEF Handle, DialOk, DialFails, PipeEnds, CopyEnds, Emit, OrigEnds, RemoteEnds
<1>9. ASSUME NEW f \in Flows, Process(f) PROVE LoopsInv'
  <2>1. CASE TakeTCP(f)
    BY <1>2, <1>9, <2>1 DEF Process, TakeTCP
  <2>2. CASE TakeUDP(f)
    <3>1. dpc = "send" /\ dpc' = "read" /\ UNCHANGED <<once, wg, opc>>
      BY <1>9, <2>2 DEF Process, TakeUDP, PacketInv
    <3> QED BY <3>1
  <2> QED BY <1>9, <2>1, <2>2 DEF Process
<1>10. CASE UNCHANGED vars
  BY <1>2, <1>10 DEF vars
<1> QED BY <1>3, <1>4, <1>5, <1>6, <1>7, <1>8, <1>9, <1>10 DEF Next

\* What stop waits for: the count is nil only when both loops have ended.
LEMMA StopStep == ASSUME IInv, [Next]_vars PROVE StopInv'
<1> USE DEF IInv, StopInv, loops, start
<1>1. CASE OpenDevice \/ StartFails \/ CreateStack \/ StopDevice
  <2>1. CASE CreateStack
    <3>1. once'
      BY <2>1, Attached DEF CreateStack
    <3>2. mpc' = "run" /\ mpc = "create" /\ dev' = dev
      BY <2>1 DEF CreateStack
    <3> QED BY <3>1, <3>2
  <2>2. CASE OpenDevice \/ StartFails \/ StopDevice
    BY <2>2 DEF OpenDevice, StartFails, StopDevice
  <2> QED BY <1>1, <2>1, <2>2
<1>2. CASE StopWait
  <2>1. once /\ wg = 0 /\ UNCHANGED <<once, dpc, opc>> /\ mpc' = "exit"
    BY <1>2 DEF StopWait
  <2>2. dpc = "done" /\ opc = "done"
    BY <2>1 DEF LoopsInv, Ended
  <2> QED BY <2>1, <2>2
<1>3. CASE StopEndpoint \/ StopStack \/ StopDetach
  BY <1>3, Attached DEF StopEndpoint, StopStack, StopDetach
<1>4. CASE Dispatch
  BY <1>4 DEF Dispatch, DispatchRead, DispatchReadFails, DispatchDrop, InjectTCP,
              InjectUDP, InjectUDPFails, DispatchReturns, DispatchDone
<1>5. CASE Outbound
  BY <1>5 DEF Outbound, OutRead, OutWrite, OutReturns, OutDone
<1>6. ASSUME NEW f \in TcpFlows, Request(f) PROVE StopInv'
  BY <1>6 DEF Request, CreateOk, CreateFails, HandlerCompletes
<1>7. ASSUME NEW f \in Flows,
             Handle(f) \/ Emit(f) \/ OrigEnds(f) \/ RemoteEnds(f)
      PROVE  StopInv'
  BY <1>7 DEF Handle, DialOk, DialFails, PipeEnds, CopyEnds, Emit, OrigEnds, RemoteEnds
<1>8. ASSUME NEW f \in Flows, Process(f) PROVE StopInv'
  BY <1>8 DEF Process, TakeTCP, TakeUDP, PacketInv
<1>9. CASE UNCHANGED vars
  BY <1>9 DEF vars
<1> QED BY <1>1, <1>2, <1>3, <1>4, <1>5, <1>6, <1>7, <1>8, <1>9 DEF Next, Stop

\* Every step of the device's loops, the handlers and stop preserves the
\* strengthened invariant.
THEOREM Inductive == Spec => []IInv
<1>1. IInv /\ [Next]_vars => IInv'
  BY LabelsStep, TypesStep, PacketStep, CompleteStep, HandlerStep, LoopsStep, StopStep DEF IInv
<1> QED BY InitInv, <1>1, PTL DEF Spec

\* The variables of the TUN client keep their types.
THEOREM TypeCorrect == Spec => []TypeOK
<1>1. IInv => TypeOK
  <2> SUFFICES ASSUME IInv PROVE TypeOK
    OBVIOUS
  <2>1. completed \in [TcpFlows -> Nat]
    BY DEF IInv, CompleteInv
  <2>2. attached \in BOOLEAN /\ once \in BOOLEAN /\ cancelled \in BOOLEAN
    BY Zenon DEF IInv, Flags
  <2>3. wg \in 0..2
    BY DEF IInv, LoopsInv, Ended
  <2> QED BY <2>1, <2>2, <2>3 DEF IInv, Labels, Counts, Copies, TypeOK
<1> QED BY Inductive, <1>1, PTL

\* For every set of connections, no request is completed twice, and one whose
\* handler has ended is completed (core/tcp.go:61-68).
THEOREM RequestsCompletedOnce == Spec => []CompletedOnce
<1>1. IInv => CompletedOnce
  BY DEF IInv, CompleteInv, CompletedOnce
<1> QED BY Inductive, <1>1, PTL

\* For every set of connections, a handler that has returned has let go of both
\* connections, but for the application's after a failed TCP dial
\* (tunnel/tcp.go:31-64, tunnel/udp.go:11-20).
THEOREM HandlersRelease == Spec => []HandlerReleases
<1>1. IInv => HandlerReleases
  BY DEF IInv, HandlerInv, HandlerReleases
<1> QED BY Inductive, <1>1, PTL

\* When stop has returned, both loops of the device have: the WaitGroup that it
\* waits for counts them through attachment, detachment and ends
\* (endpoint.go:68-92).
THEOREM LoopsEndBeforeStop == Spec => []QuietAfterStop
<1>1. IInv => QuietAfterStop
  BY DEF IInv, StopInv, QuietAfterStop
<1> QED BY Inductive, <1>1, PTL

-----------------------------------------------------------------------------
(* The relay: messages that carry a stream *)

\* The messages w carry the units after b up to e, each of them at least one.
Carries(w, b, e) ==
    /\ w = <<>> => b = e
    /\ w # <<>> => w[1][1] = b + 1 /\ w[Len(w)][1] + Len(w[Len(w)]) = e + 1
    /\ \A i \in 1..Len(w) :
          /\ Len(w[i]) >= 1
          /\ \A k \in 1..Len(w[i]) : w[i][k] = w[i][1] + (k - 1)
    /\ \A i \in 1..(Len(w) - 1) : w[i + 1][1] = w[i][1] + Len(w[i])

\* The units of s are those after b.
Follows(s, b) == \A k \in 1..Len(s) : s[k] = b + k

\* p and q are the two parts of s, and p is at most L long.
Parts(s, L, p, q) ==
    /\ Len(p) + Len(q) = Len(s) /\ Len(p) <= L
    /\ \A k \in 1..Len(p) : p[k] = s[k]
    /\ \A k \in 1..Len(q) : q[k] = s[Len(p) + k]

\* What ServerSend and UpRead put into a message.
LEMMA UnitsOf ==
  ASSUME NEW m \in Nat, NEW n \in Nat, m <= n, NEW N \in Nat, n <= N
  PROVE  /\ Units(m, n) \in Seq(1..N) /\ Len(Units(m, n)) = n - m
         /\ \A k \in 1..(n - m) : Units(m, n)[k] = m + k
BY DEF Units

\* A read takes the first part of a message and leaves the second; when the
\* buffer is large enough it takes all of it.
LEMMA Split ==
  ASSUME NEW N \in Nat, NEW s \in Seq(1..N), NEW L \in Nat \ {0}
  PROVE  /\ Prefix(s, L) \in Seq(1..N) /\ Left(s, L) \in Seq(1..N)
         /\ Parts(s, L, Prefix(s, L), Left(s, L))
         /\ Len(s) <= L => Prefix(s, L) = s
<1>1. Len(s) \in Nat /\ \A i \in 1..Len(s) : s[i] \in 1..N
  OBVIOUS
<1>2. /\ Left(s, L) \in Seq(1..N)
      /\ Len(Left(s, L)) = IF L + 1 <= Len(s) THEN Len(s) - L ELSE 0
      /\ \A k \in 1..(Len(s) - L) : Left(s, L)[k] = s[L + k]
  <2>1. \A i \in (L + 1)..Len(s) : s[i] \in 1..N
    BY <1>1
  <2>2. PICK q : q = SubSeq(s, L + 1, Len(s))
    OBVIOUS
  <2>3. PICK l : l = Len(s)
    OBVIOUS
  <2>4. /\ q \in Seq(1..N)
        /\ Len(q) = IF L + 1 <= l THEN l - (L + 1) + 1 ELSE 0
        /\ \A i \in 1..(l - (L + 1) + 1) : q[i] = s[(L + 1) + i - 1]
    BY <1>1, <2>1, <2>2, <2>3, SubSeqProperties
  <2>5. l - (L + 1) + 1 = l - L /\ \A i \in Int : (L + 1) + i - 1 = L + i
    BY <1>1, <2>3
  <2>6. Len(q) = IF L + 1 <= l THEN l - L ELSE 0
    BY <2>4, <2>5, Zenon
  <2>7. \A i \in 1..(l - L) : i \in Int /\ q[i] = s[L + i]
    <3>1. \A i \in 1..(l - L) : i \in Int /\ q[i] = s[(L + 1) + i - 1]
      BY <1>1, <2>3, <2>4, <2>5
    <3> QED BY <2>5, <3>1, Zenon
  <2> QED BY <2>2, <2>3, <2>4, <2>6, <2>7, Zenon DEF Left
<1>3. CASE Len(s) <= L
  BY <1>1, <1>2, <1>3 DEF Prefix, Parts
<1>4. CASE L < Len(s)
  <2>1. \A i \in 1..L : s[i] \in 1..N
    BY <1>1, <1>4
  <2>2. /\ SubSeq(s, 1, L) \in Seq(1..N) /\ Len(SubSeq(s, 1, L)) = L
        /\ \A i \in 1..L : SubSeq(s, 1, L)[i] = s[i]
    BY <2>1, SubSeqProperties
  <2>3. Prefix(s, L) = SubSeq(s, 1, L)
    BY <1>1, <1>4 DEF Prefix
  <2>4. PICK p : p = Prefix(s, L)
    OBVIOUS
  <2>5. PICK q : q = Left(s, L)
    OBVIOUS
  <2>6. Len(p) = L /\ Len(q) = Len(s) - L /\ Len(s) \in Nat
    BY <1>1, <1>2, <1>4, <2>2, <2>3, <2>4, <2>5
  <2>7. Len(p) + Len(q) = Len(s) /\ Len(p) <= L /\ ~(Len(s) <= L)
    BY <1>4, <2>6
  <2>8. \A k \in 1..Len(p) : p[k] = s[k]
    BY <2>2, <2>3, <2>4, <2>6
  <2>9. \A k \in 1..Len(q) : q[k] = s[Len(p) + k]
    BY <1>2, <2>5, <2>6
  <2> QED BY <1>2, <2>2, <2>3, <2>4, <2>5, <2>7, <2>8, <2>9, Zenon DEF Parts
<1> QED BY <1>1, <1>3, <1>4

\* A message with the next units continues the stream.
LEMMA CarriesMore ==
  ASSUME NEW N \in Nat, NEW w \in Seq(Seq(1..N)), NEW b \in Nat, NEW e \in Nat, NEW n \in Nat,
         n >= 1, NEW m \in Seq(1..N), Len(m) = n,
         \A k \in 1..n : m[k] = e + k, Carries(w, b, e)
  PROVE  Carries(Append(w, m), b, e + n)
<1>1. PICK v : v = Append(w, m)
  OBVIOUS
<1>2. v \in Seq(Seq(1..N))
  BY <1>1
<1>3. Len(w) \in Nat /\ Len(v) = Len(w) + 1 /\ v[Len(w) + 1] = m
      /\ \A i \in 1..Len(w) : v[i] = w[i]
  BY <1>1
<1>4. v # <<>>
  BY <1>3
<1>5. v[1][1] = b + 1
  <2>1. CASE w = <<>>
    BY <1>3, <2>1 DEF Carries
  <2>2. CASE w # <<>>
    <3>1. 1 \in 1..Len(w)
      BY <2>2
    <3> QED BY <1>3, <2>2, <3>1 DEF Carries
  <2> QED BY <2>1, <2>2
<1>6. v[Len(v)][1] + Len(v[Len(v)]) = (e + n) + 1
  BY <1>3
<1>7. ASSUME NEW i \in 1..Len(v)
      PROVE  Len(v[i]) >= 1 /\ \A k \in 1..Len(v[i]) : v[i][k] = v[i][1] + (k - 1)
  <2>1. CASE i \in 1..Len(w)
    <3>1. v[i] = w[i]
      BY <1>3, <2>1
    <3>2. Len(w[i]) >= 1 /\ \A k \in 1..Len(w[i]) : w[i][k] = w[i][1] + (k - 1)
      BY <2>1, Zenon DEF Carries
    <3> QED BY <3>1, <3>2, Zenon
  <2>2. CASE i = Len(w) + 1
    BY <1>3, <2>2
  <2> QED BY <1>3, <2>1, <2>2
<1>8. ASSUME NEW i \in 1..(Len(v) - 1) PROVE v[i + 1][1] = v[i][1] + Len(v[i])
  <2>1. CASE i \in 1..(Len(w) - 1)
    <3>1. i \in 1..Len(w) /\ i + 1 \in 1..Len(w)
      BY <1>3, <2>1
    <3>2. v[i] = w[i] /\ v[i + 1] = w[i + 1]
      BY <1>3, <3>1, Zenon
    <3>3. w[i + 1][1] = w[i][1] + Len(w[i])
      BY <2>1, Zenon DEF Carries
    <3> QED BY <3>2, <3>3, Zenon
  <2>2. CASE i = Len(w)
    <3>1. w # <<>> /\ Len(w) \in 1..Len(w)
      BY <1>3, <2>2
    <3>2. m[1] = e + 1
      OBVIOUS
    <3> QED BY <1>3, <2>2, <3>1, <3>2 DEF Carries
  <2> QED BY <1>3, <2>1, <2>2
<1> QED BY <1>1, <1>4, <1>5, <1>6, <1>7, <1>8 DEF Carries

\* The first message begins where the stream does, the others go on after it.
LEMMA CarriesLess ==
  ASSUME NEW N \in Nat, NEW w \in Seq(Seq(1..N)), w # <<>>, NEW b \in Nat, NEW e \in Nat,
         Carries(w, b, e)
  PROVE  /\ Head(w) \in Seq(1..N) /\ Len(Head(w)) >= 1 /\ Tail(w) \in Seq(Seq(1..N))
         /\ Follows(Head(w), b)
         /\ Carries(Tail(w), b + Len(Head(w)), e)
<1>1. PICK v : v = Tail(w)
  OBVIOUS
<1>2. PICK h : h = Head(w)
  OBVIOUS
<1>3. v \in Seq(Seq(1..N)) /\ h \in Seq(1..N)
  BY <1>1, <1>2
<1>4. /\ Len(w) \in Nat /\ Len(w) >= 1 /\ Len(v) = Len(w) - 1 /\ h = w[1]
      /\ \A i \in 1..Len(v) : v[i] = w[i + 1]
  BY <1>1, <1>2
<1>5. Len(h) \in Nat
  BY <1>3
<1>6. /\ Len(h) >= 1 /\ h[1] = b + 1
      /\ \A k \in 1..Len(h) : h[k] = h[1] + (k - 1)
  BY <1>4 DEF Carries
<1>7. \A k \in 1..Len(h) : h[k] = b + k
  BY <1>5, <1>6
<1>8. ASSUME v = <<>> PROVE b + Len(h) = e
  <2>1. Len(w) = 1
    BY <1>4, <1>8
  <2>2. w[1][1] + Len(w[1]) = e + 1
    BY <2>1 DEF Carries
  <2>3. h[1] + Len(h) = e + 1
    BY <1>4, <2>2
  <2>4. PICK l \in Nat : l = Len(h)
    BY <1>5
  <2>5. (b + 1) + l = e + 1
    BY <1>6, <2>3, <2>4
  <2>6. b + l = e
    BY <2>5
  <2> QED BY <2>4, <2>6
<1>9. v # <<>> => v[1][1] = (b + Len(h)) + 1 /\ v[Len(v)][1] + Len(v[Len(v)]) = e + 1
  <2> SUFFICES ASSUME v # <<>>
               PROVE v[1][1] = (b + Len(h)) + 1 /\ v[Len(v)][1] + Len(v[Len(v)]) = e + 1
    OBVIOUS
  <2>1. Len(v) >= 1 /\ Len(v) \in Nat
    BY <1>3
  <2>2. 1 \in 1..(Len(w) - 1) /\ v[1] = w[2] /\ v[Len(v)] = w[Len(w)]
    BY <1>4, <2>1
  <2>3. w[2][1] = w[1][1] + Len(w[1])
    BY <2>2 DEF Carries
  <2>4. w[Len(w)][1] + Len(w[Len(w)]) = e + 1
    BY DEF Carries
  <2>5. v[1][1] = h[1] + Len(h)
    BY <1>4, <2>2, <2>3
  <2>6. v[1][1] = (b + Len(h)) + 1
    BY <1>5, <1>6, <2>5
  <2> QED BY <2>2, <2>4, <2>6
<1>10. ASSUME NEW i \in 1..Len(v)
       PROVE  Len(v[i]) >= 1 /\ \A k \in 1..Len(v[i]) : v[i][k] = v[i][1] + (k - 1)
  <2>1. i + 1 \in 1..Len(w) /\ v[i] = w[i + 1]
    BY <1>4
  <2> QED BY <2>1 DEF Carries
<1>11. ASSUME NEW i \in 1..(Len(v) - 1) PROVE v[i + 1][1] = v[i][1] + Len(v[i])
  <2>1. i + 1 \in 1..(Len(w) - 1) /\ i \in 1..Len(v) /\ i + 1 \in 1..Len(v)
    BY <1>4
  <2>2. v[i] = w[i + 1] /\ v[i + 1] = w[(i + 1) + 1]
    BY <1>4, <2>1
  <2> QED BY <2>1, <2>2 DEF Carries
<1>12. Follows(h, b) /\ Carries(v, b + Len(h), e)
  BY <1>7, <1>8, <1>9, <1>10, <1>11 DEF Carries, Follows
<1> QED BY <1>1, <1>2, <1>3, <1>6, <1>12

-----------------------------------------------------------------------------
(* The relay: the inductive invariant *)

\* Downstream: what the application has received, what is held, what is left in
\* readBuf and what is under way follow each other without a gap, as long as
\* nothing has been thrown away.
DownLive == downPc \in {"off", "check", "read", "write"}
DownInv ==
    /\ \A k \in 1..Len(gotDown) : gotDown[k] = k
    /\ DownLive =>
          /\ downPc # "write" => downHeld = <<>>
          /\ \A k \in 1..Len(downHeld) : downHeld[k] = Len(gotDown) + k
          /\ \A k \in 1..Len(readBuf) : readBuf[k] = Len(gotDown) + Len(downHeld) + k
          /\ Carries(wireDown, Len(gotDown) + Len(downHeld) + Len(readBuf), nsent)

\* Upstream: the same as long as the server's buffer takes every message; what is
\* under way ends where the held data begin.  Whether there is a header at all does
\* not change, so the buffer takes every message or never did.
UpLive == upPc \in {"off", "check", "read", "write"}
UpInv ==
    /\ \A i \in 1..Len(wireUp) : Len(wireUp[i]) <= LocalBuf
    /\ upPc \in {"off", "check", "read"} => upHeld = <<>>
    /\ upPc = "write" => Len(upHeld) >= 1
    /\ FitsServer =>
          /\ \A k \in 1..Len(gotUp) : gotUp[k] = k
          /\ \E e \in Nat :
                /\ Carries(wireUp, Len(gotUp), e)
                /\ UpLive => e + Len(upHeld) = nread
                             /\ \A k \in 1..Len(upHeld) : upHeld[k] = e + k

\* Both goroutines start at once.
StartInv == upPc = "off" => downPc = "off"

RelayInv == RelayTypeOK /\ StartInv /\ DownInv /\ UpInv

-----------------------------------------------------------------------------
(* The relay: types *)

\* A buffer has room.
LEMMA LocalBufType == ASSUME mtu \in MTUs \cup {0} PROVE LocalBuf \in Nat \ {0}
<1>1. CASE mtu = 0
  BY <1>1, LengthsAssumption DEF LocalBuf, tun
<1>2. CASE mtu # 0
  <2>1. mtu \in Nat \ {0}
    BY <1>2, LengthsAssumption
  <2>2. Get(mtu) = Nil \/ Get(mtu).len = mtu
    BY DEF Get, Pooled
  <2> QED BY <1>2, <2>1, <2>2, LengthsAssumption DEF LocalBuf, RelayBuf, tun
<1> QED BY <1>1, <1>2

\* The buffers of a relay are chosen once, and so is whether it sends a header.
LEMMA SameBuf ==
  ASSUME [RelayNext]_relayVars
  PROVE  mtu' = mtu /\ (header' = "none" <=> header = "none")
BY DEF RelayNext, Upstream, Downstream, Environment, RelayDialOk, RelayDialFails,
       UpCheck, UpRead, UpReadEnds, UpWrite, UpWriteFails, UpExit, UpClose, DownCheck,
       DownReadRest, DownRead, DownReadFails, DownWrite, DownWriteFails, DownExit, DownClose,
       ServerReceive, ServerSend, WsBreaks, AppFin, AppGone, relayVars, ends, up

\* Nor do the sizes derived from them change.
LEMMA SameSize ==
  ASSUME mtu' = mtu, header' = "none" <=> header = "none"
  PROVE  LocalBuf' = LocalBuf /\ (FitsServer' <=> FitsServer)
BY DEF LocalBuf, RelayBuf, tun, FitsServer

\* The parts of RelayTypeOK.
ConnTypes ==
    /\ mtu \in MTUs \cup {0}
    /\ upPc \in Label /\ downPc \in Label
    /\ conn \in {"open", "closed"}
    /\ ws \in {"open", "closed", "broken"}
    /\ app \in {"open", "fin", "gone"}
    /\ nread \in 0..UpLen /\ nsent \in 0..DownLen
UpTypes ==
    /\ header \in {"none", "due", "sent", "decoded"}
    /\ upHeld \in Seq(1..UpLen) /\ Len(upHeld) <= LocalBuf
    /\ wireUp \in Seq(Seq(1..UpLen)) /\ Len(wireUp) <= WireCap
    /\ gotUp \in Seq(1..UpLen)
DownTypes ==
    /\ downHeld \in Seq(1..DownLen) /\ Len(downHeld) <= LocalBuf
    /\ wireDown \in Seq(Seq(1..DownLen)) /\ Len(wireDown) <= WireCap
    /\ gotDown \in Seq(1..DownLen) /\ readBuf \in Seq(1..DownLen)

LEMMA TypeParts == RelayTypeOK <=> ConnTypes /\ closed \in BOOLEAN /\ UpTypes /\ DownTypes
BY Zenon DEF RelayTypeOK, ConnTypes, UpTypes, DownTypes

LEMMA RelayInitInv == RelayInit => RelayInv
<1> SUFFICES ASSUME RelayInit PROVE RelayInv
  OBVIOUS
<1> USE LengthsAssumption DEF RelayInit
<1>1. ConnTypes
  BY DEF ConnTypes, Label
<1>2. closed \in BOOLEAN
  BY Zenon
<1>3. LocalBuf \in Nat \ {0}
  BY LocalBufType
<1>4. UpTypes /\ DownTypes
  BY <1>3 DEF UpTypes, DownTypes
<1>5. DownInv
  BY DEF DownInv, DownLive, Carries
<1>6. UpInv
  <2>1. Carries(wireUp, Len(gotUp), 0)
    BY DEF Carries
  <2>2. 0 + Len(upHeld) = nread
    OBVIOUS
  <2> QED BY <2>1, <2>2 DEF UpInv, UpLive
<1> QED BY <1>1, <1>2, <1>4, <1>5, <1>6, TypeParts DEF RelayInv, StartInv

\* The connections and the counters keep their types.
LEMMA ConnStep == ASSUME RelayInv, [RelayNext]_relayVars PROVE ConnTypes' /\ closed' \in BOOLEAN
<1> USE LengthsAssumption DEF ends, up, down, pcs
<1>0. ConnTypes /\ closed \in BOOLEAN /\ LocalBuf \in Nat
  BY TypeParts, LocalBufType DEF RelayInv, ConnTypes
<1>1. closed' = closed \/ closed' = TRUE
  BY DEF RelayNext, Upstream, Downstream, Environment, RelayDialOk, RelayDialFails,
         UpCheck, UpRead, UpReadEnds, UpWrite, UpWriteFails, UpExit, UpClose, DownCheck,
         DownReadRest, DownRead, DownReadFails, DownWrite, DownWriteFails, DownExit, DownClose,
         ServerReceive, ServerSend, WsBreaks, AppFin, AppGone, relayVars
<1>2. closed' \in BOOLEAN
  BY <1>0, <1>1, Zenon
<1> SUFFICES ConnTypes'
  BY <1>2
<1>3. ASSUME NEW n \in 1..LocalBuf, UpRead(n) PROVE ConnTypes'
  BY <1>0, <1>3 DEF UpRead, ConnTypes, Label
<1>4. ASSUME NEW n \in 1..ServerBuf, ServerSend(n) PROVE ConnTypes'
  BY <1>0, <1>4 DEF ServerSend, ConnTypes
<1>5. CASE RelayDialOk \/ RelayDialFails
  BY <1>0, <1>5 DEF RelayDialOk, RelayDialFails, ConnTypes, Label
<1>6. CASE UpCheck \/ UpReadEnds \/ UpWrite \/ UpWriteFails
  BY <1>0, <1>6 DEF UpCheck, UpReadEnds, UpWrite, UpWriteFails, ConnTypes, Label
<1>7. CASE UpExit
  <2>1. /\ upPc' = "close" /\ conn' \in {"open", "closed"}
        /\ UNCHANGED <<mtu, downPc, ws, app, nread, nsent>>
    BY <1>0, <1>7 DEF UpExit, CloseConn, ConnTypes
  <2> QED BY <1>0, <2>1 DEF ConnTypes, Label
<1>8. CASE UpClose
  BY <1>0, <1>8 DEF UpClose, CloseWs, ConnTypes, Label
<1>9. CASE DownCheck \/ DownReadRest \/ DownRead \/ DownReadFails \/ DownWrite \/ DownWriteFails
  BY <1>0, <1>9 DEF DownCheck, DownReadRest, DownRead, DownReadFails, DownWrite,
                    DownWriteFails, ConnTypes, Label
<1>10. CASE DownExit
  <2>1. /\ downPc' = "close" /\ ws' \in {"open", "closed", "broken"}
        /\ UNCHANGED <<mtu, upPc, conn, app, nread, nsent>>
    BY <1>0, <1>10 DEF DownExit, CloseWs, ConnTypes
  <2> QED BY <1>0, <2>1 DEF ConnTypes, Label
<1>11. CASE DownClose
  BY <1>0, <1>11 DEF DownClose, CloseConn, ConnTypes, Label
<1>12. CASE ServerReceive \/ WsBreaks \/ AppFin \/ AppGone \/ UNCHANGED relayVars
  BY <1>0, <1>12 DEF ServerReceive, WsBreaks, AppFin, AppGone, relayVars, ConnTypes
<1> QED BY <1>3, <1>4, <1>5, <1>6, <1>7, <1>8, <1>9, <1>10, <1>11, <1>12
        DEF RelayNext, Upstream, Downstream, Environment

\* Only the dial starts a goroutine, and it starts both.
LEMMA StartStep == ASSUME RelayInv, [RelayNext]_relayVars PROVE StartInv'
BY DEF RelayInv, StartInv, RelayNext, Upstream, Downstream, Environment,
       RelayDialOk, RelayDialFails,
       UpCheck, UpRead, UpReadEnds, UpWrite, UpWriteFails, UpExit, UpClose, DownCheck,
       DownReadRest, DownRead, DownReadFails, DownWrite, DownWriteFails, DownExit, DownClose,
       ServerReceive, ServerSend, WsBreaks, AppFin, AppGone, relayVars, pcs

-----------------------------------------------------------------------------
(* The relay: downstream *)

\* Each step of the websocket and of handleDownstream keeps the stream whole.
LEMMA DownStep == ASSUME RelayInv, [RelayNext]_relayVars PROVE DownTypes' /\ DownInv'
<1> USE LengthsAssumption
<1>0. /\ ConnTypes /\ DownTypes /\ DownInv /\ LocalBuf \in Nat \ {0}
      /\ LocalBuf' = LocalBuf /\ nsent \in Nat /\ nsent <= DownLen
  BY TypeParts, LocalBufType, SameBuf, SameSize DEF RelayInv, ConnTypes
<1>1. ASSUME UNCHANGED down, DownLive' => DownLive,
             DownLive' /\ downPc' # "write" => downPc # "write"
      PROVE  DownTypes' /\ DownInv'
  BY <1>0, <1>1 DEF down, DownTypes, DownInv
<1>2. CASE RelayDialOk \/ RelayDialFails
  BY <1>1, <1>2 DEF RelayDialOk, RelayDialFails, DownLive, RelayInv, StartInv
<1>3. CASE Upstream
  BY <1>1, <1>3 DEF Upstream, UpCheck, UpRead, UpReadEnds, UpWrite, UpWriteFails, UpExit,
                    UpClose, DownLive
<1>4. CASE DownCheck \/ DownReadFails \/ DownWriteFails \/ DownExit \/ DownClose
  BY <1>1, <1>4 DEF DownCheck, DownReadFails, DownWriteFails, DownExit, DownClose, DownLive
<1>5. CASE ServerReceive \/ WsBreaks \/ AppFin \/ AppGone \/ UNCHANGED relayVars
  BY <1>1, <1>5 DEF ServerReceive, WsBreaks, AppFin, AppGone, relayVars, pcs, DownLive
<1>6. PICK L \in Nat \ {0} : L = LocalBuf
  BY <1>0
<1>7. ASSUME NEW s \in Seq(1..DownLen), downPc = "read", downPc' = "write",
             downHeld' = Prefix(s, L), readBuf' = Left(s, L),
             \A k \in 1..Len(s) : s[k] = Len(gotDown) + k,
             NEW w \in Seq(Seq(1..DownLen)), wireDown' = w, Len(w) <= WireCap,
             Carries(w, Len(gotDown) + Len(s), nsent),
             UNCHANGED <<nsent, gotDown>>
      PROVE  DownTypes' /\ DownInv'
  <2>1. PICK p : p = Prefix(s, L)
    OBVIOUS
  <2>2. PICK q : q = Left(s, L)
    OBVIOUS
  <2>3. /\ p \in Seq(1..DownLen) /\ q \in Seq(1..DownLen)
        /\ Len(p) + Len(q) = Len(s) /\ Len(p) <= L
        /\ \A k \in 1..Len(p) : p[k] = s[k]
        /\ \A k \in 1..Len(q) : q[k] = s[Len(p) + k]
    <3>1. DownLen \in Nat
      OBVIOUS
    <3>2. p \in Seq(1..DownLen) /\ q \in Seq(1..DownLen) /\ Parts(s, L, p, q)
      BY <2>1, <2>2, <3>1, Split
    <3> QED BY <3>2 DEF Parts
  <2>4. Len(p) \in Nat /\ Len(q) \in Nat /\ Len(s) \in Nat /\ Len(gotDown) \in Nat
    BY <1>0, <2>3 DEF DownTypes
  <2>5. DownTypes'
    BY <1>0, <1>6, <1>7, <2>1, <2>2, <2>3 DEF DownTypes
  <2>6. ASSUME NEW k \in 1..Len(p) PROVE p[k] = Len(gotDown) + k
    <3>1. k \in 1..Len(s)
      BY <2>3, <2>4
    <3> QED BY <1>7, <2>3, <3>1
  <2>7. \A k \in 1..Len(q) : q[k] = Len(gotDown) + Len(p) + k
    <3> SUFFICES ASSUME NEW k \in 1..Len(q) PROVE q[k] = Len(gotDown) + Len(p) + k
      OBVIOUS
    <3>1. Len(p) + k \in 1..Len(s)
      <4>1. PICK x \in Nat, y \in Nat, z \in Nat : x = Len(p) /\ y = Len(q) /\ z = Len(s)
        BY <2>4
      <4>2. x + y = z /\ k \in 1..y
        BY <2>3, <4>1
      <4>3. x + k \in 1..z
        BY <4>2
      <4> QED BY <4>1, <4>3
    <3>2. q[k] = Len(gotDown) + (Len(p) + k)
      BY <1>7, <2>3, <3>1
    <3> QED BY <2>4, <3>2
  <2>8. Len(gotDown) + Len(p) + Len(q) = Len(gotDown) + Len(s)
    <3>1. PICK g \in Nat, x \in Nat, y \in Nat, z \in Nat :
             g = Len(gotDown) /\ x = Len(p) /\ y = Len(q) /\ z = Len(s)
      BY <2>4
    <3>2. x + y = z
      BY <2>3, <3>1
    <3>3. g + x + y = g + z
      BY <3>2
    <3> QED BY <3>1, <3>3
  <2>9. Carries(w, Len(gotDown) + Len(p) + Len(q), nsent)
    BY <1>7, <2>8
  <2>10. DownInv'
    BY <1>0, <1>7, <2>1, <2>2, <2>6, <2>7, <2>9 DEF DownInv
  <2> QED BY <2>5, <2>10
<1>8. CASE DownReadRest
  <2>1. /\ downPc = "read" /\ downPc' = "write" /\ downHeld' = Prefix(readBuf, L)
        /\ readBuf' = Left(readBuf, L) /\ UNCHANGED <<nsent, wireDown, gotDown>>
    BY <1>6, <1>8 DEF DownReadRest
  <2>2. downHeld = <<>> /\ Len(downHeld) = 0
    BY <1>0, <2>1 DEF DownInv, DownLive
  <2>3. /\ readBuf \in Seq(1..DownLen) /\ wireDown \in Seq(Seq(1..DownLen))
        /\ Len(wireDown) <= WireCap /\ Len(gotDown) \in Nat /\ Len(readBuf) \in Nat
    BY <1>0 DEF DownTypes
  <2>4. Len(gotDown) + Len(downHeld) = Len(gotDown)
    BY <2>2, <2>3
  <2>5. /\ \A k \in 1..Len(readBuf) : readBuf[k] = Len(gotDown) + k
        /\ Carries(wireDown, Len(gotDown) + Len(readBuf), nsent)
    BY <1>0, <2>1, <2>4 DEF DownInv, DownLive
  <2> QED BY <1>7, <2>1, <2>3, <2>5
<1>9. CASE DownRead
  <2>1. PICK s : s = Head(wireDown)
    OBVIOUS
  <2>2. PICK w : w = Tail(wireDown)
    OBVIOUS
  <2>3. /\ downPc = "read" /\ downPc' = "write" /\ readBuf = <<>> /\ wireDown # <<>>
        /\ downHeld' = Prefix(s, L) /\ readBuf' = Left(s, L) /\ wireDown' = w
        /\ UNCHANGED <<nsent, gotDown>>
    BY <1>6, <1>9, <2>1, <2>2 DEF DownRead
  <2>4. downHeld = <<>> /\ Len(downHeld) = 0 /\ Len(readBuf) = 0
    BY <1>0, <2>3 DEF DownInv, DownLive
  <2>5. Len(gotDown) \in Nat /\ wireDown \in Seq(Seq(1..DownLen)) /\ Len(wireDown) <= WireCap
    BY <1>0 DEF DownTypes
  <2>6. Len(gotDown) + Len(downHeld) + Len(readBuf) = Len(gotDown)
    BY <2>4, <2>5
  <2>7. Carries(wireDown, Len(gotDown), nsent)
    BY <1>0, <2>3, <2>6 DEF DownInv, DownLive
  <2>8. /\ s \in Seq(1..DownLen) /\ w \in Seq(Seq(1..DownLen))
        /\ \A k \in 1..Len(s) : s[k] = Len(gotDown) + k
        /\ Carries(w, Len(gotDown) + Len(s), nsent)
    <3>1. Follows(s, Len(gotDown)) /\ s \in Seq(1..DownLen) /\ w \in Seq(Seq(1..DownLen))
          /\ Carries(w, Len(gotDown) + Len(s), nsent)
      BY <1>0, <2>1, <2>2, <2>3, <2>5, <2>7, CarriesLess
    <3> QED BY <3>1 DEF Follows
  <2>9. Len(w) <= WireCap
    BY <2>2, <2>3, <2>5
  <2> QED BY <1>7, <2>3, <2>8, <2>9
<1>10. CASE DownWrite
  <2>1. PICK d : d = downHeld
    OBVIOUS
  <2>2. PICK g : g = gotDown
    OBVIOUS
  <2>3. PICK h : h = g \o d
    OBVIOUS
  <2>4. /\ downPc = "write" /\ downPc' = "check" /\ gotDown' = h /\ downHeld' = <<>>
        /\ UNCHANGED <<nsent, wireDown, readBuf>>
    BY <1>10, <2>1, <2>2, <2>3 DEF DownWrite
  <2>5. d \in Seq(1..DownLen) /\ g \in Seq(1..DownLen)
    BY <1>0, <2>1, <2>2 DEF DownTypes
  <2>6. h \in Seq(1..DownLen)
    BY <2>3, <2>5
  <2>7. /\ Len(h) = Len(g) + Len(d) /\ Len(g) \in Nat /\ Len(d) \in Nat
        /\ \A k \in 1..Len(h) : h[k] = IF k <= Len(g) THEN g[k] ELSE d[k - Len(g)]
    BY <2>3, <2>5, ConcatProperties
  <2>8. \A k \in 1..Len(g) : g[k] = k
    BY <1>0, <2>2 DEF DownInv
  <2>9. /\ \A k \in 1..Len(d) : d[k] = Len(g) + k
        /\ \A k \in 1..Len(readBuf) : readBuf[k] = Len(g) + Len(d) + k
        /\ Carries(wireDown, Len(g) + Len(d) + Len(readBuf), nsent)
    BY <1>0, <2>1, <2>2, <2>4 DEF DownInv, DownLive
  <2>10. ASSUME NEW k \in 1..Len(h) PROVE h[k] = k
    <3>1. CASE k <= Len(g)
      BY <2>7, <2>8, <3>1
    <3>2. CASE ~(k <= Len(g))
      <4>1. k - Len(g) \in 1..Len(d) /\ Len(g) + (k - Len(g)) = k
        BY <2>7, <3>2
      <4> QED BY <2>7, <2>9, <3>2, <4>1
    <3> QED BY <3>1, <3>2
  <2>11. DownTypes'
    BY <1>0, <2>4, <2>6 DEF DownTypes
  <2>12. DownInv'
    <3>1. Len(downHeld') = 0 /\ Len(h) + 0 = Len(h) /\ Len(h) = Len(g) + Len(d)
      BY <2>4, <2>7
    <3>2. \A k \in 1..Len(readBuf) : readBuf[k] = Len(h) + Len(downHeld') + k
      BY <2>9, <3>1
    <3>3. Carries(wireDown, Len(h) + Len(downHeld') + Len(readBuf), nsent)
      BY <2>9, <3>1
    <3> QED BY <2>4, <2>10, <3>1, <3>2, <3>3 DEF DownInv
  <2> QED BY <2>11, <2>12
<1>11. ASSUME NEW n \in 1..ServerBuf, ServerSend(n) PROVE DownTypes' /\ DownInv'
  <2>1. PICK m : m = Units(nsent, nsent + n)
    OBVIOUS
  <2>2. /\ nsent' = nsent + n /\ nsent + n <= DownLen /\ wireDown' = Append(wireDown, m)
        /\ Len(wireDown) < WireCap
        /\ UNCHANGED <<downPc, readBuf, downHeld, gotDown>>
    BY <1>11, <2>1 DEF ServerSend, pcs
  <2>3. n \in Nat /\ n >= 1 /\ nsent + n \in Nat /\ nsent <= nsent + n /\ (nsent + n) - nsent = n
    BY <1>0
  <2>4. m \in Seq(1..DownLen) /\ Len(m) = n /\ \A k \in 1..n : m[k] = nsent + k
    BY <1>0, <2>1, <2>2, <2>3, UnitsOf
  <2>5. wireDown \in Seq(Seq(1..DownLen))
    BY <1>0 DEF DownTypes
  <2>6. wireDown' \in Seq(Seq(1..DownLen)) /\ Len(wireDown') <= WireCap
    BY <2>2, <2>4, <2>5
  <2>7. PICK b : b = Len(gotDown) + Len(downHeld) + Len(readBuf)
    OBVIOUS
  <2>8. b \in Nat
    BY <1>0, <2>7 DEF DownTypes
  <2>9. DownLive => Carries(wireDown', b, nsent')
    BY <1>0, <2>2, <2>3, <2>4, <2>5, <2>7, <2>8, CarriesMore DEF DownInv
  <2>10. DownTypes'
    BY <1>0, <2>2, <2>6 DEF DownTypes
  <2>11. DownInv'
    BY <1>0, <2>2, <2>7, <2>9 DEF DownInv, DownLive
  <2> QED BY <2>10, <2>11
<1> QED BY <1>2, <1>3, <1>4, <1>5, <1>8, <1>9, <1>10, <1>11 DEF RelayNext, Downstream, Environment
-----------------------------------------------------------------------------
(* The relay: upstream *)

\* Each step of handleUpstream and of the server does, if messages fit.
LEMMA UpStep == ASSUME RelayInv, [RelayNext]_relayVars PROVE UpTypes' /\ UpInv'
<1> USE LengthsAssumption
<1>0. /\ ConnTypes /\ UpTypes /\ UpInv /\ LocalBuf \in Nat \ {0}
      /\ LocalBuf' = LocalBuf /\ (FitsServer' <=> FitsServer)
      /\ nread \in Nat /\ nread <= UpLen
  BY TypeParts, LocalBufType, SameBuf, SameSize DEF RelayInv, ConnTypes
<1>1. /\ upHeld \in Seq(1..UpLen) /\ Len(upHeld) <= LocalBuf /\ Len(upHeld) \in Nat
      /\ wireUp \in Seq(Seq(1..UpLen)) /\ Len(wireUp) <= WireCap
      /\ gotUp \in Seq(1..UpLen) /\ Len(gotUp) \in Nat
  BY <1>0 DEF UpTypes
<1>2. ASSUME UNCHANGED up, UpLive' => UpLive, upPc' = "write" => upPc = "write",
             upPc' \in {"off", "check", "read"} => upPc \in {"off", "check", "read"}
      PROVE  UpTypes' /\ UpInv'
  BY <1>0, <1>2 DEF up, UpTypes, UpInv
<1>3. CASE RelayDialOk \/ RelayDialFails
  BY <1>2, <1>3 DEF RelayDialOk, RelayDialFails, UpLive
<1>4. CASE UpCheck \/ UpReadEnds \/ UpWriteFails \/ UpExit \/ UpClose
  BY <1>2, <1>4 DEF UpCheck, UpReadEnds, UpWriteFails, UpExit, UpClose, UpLive
<1>5. CASE Downstream
  BY <1>2, <1>5 DEF Downstream, DownCheck, DownReadRest, DownRead, DownReadFails, DownWrite,
                    DownWriteFails, DownExit, DownClose, UpLive
<1>6. CASE \/ WsBreaks \/ AppFin \/ AppGone
           \/ \E n \in 1..ServerBuf : ServerSend(n)
           \/ UNCHANGED relayVars
  BY <1>2, <1>6 DEF WsBreaks, AppFin, AppGone, ServerSend, relayVars, pcs, UpLive
<1>7. ASSUME NEW n \in 1..LocalBuf, UpRead(n) PROVE UpTypes' /\ UpInv'
  <2>1. PICK m : m = Units(nread, nread + n)
    OBVIOUS
  <2>2. /\ upPc = "read" /\ upPc' = "write" /\ nread' = nread + n /\ nread + n <= UpLen
        /\ upHeld' = m /\ UNCHANGED <<header, wireUp, gotUp>>
    BY <1>7, <2>1 DEF UpRead
  <2>3. n \in Nat /\ n >= 1 /\ n <= LocalBuf /\ nread + n \in Nat
        /\ nread <= nread + n /\ (nread + n) - nread = n
    BY <1>0
  <2>4. m \in Seq(1..UpLen) /\ Len(m) = n /\ \A k \in 1..n : m[k] = nread + k
    BY <1>0, <2>1, <2>2, <2>3, UnitsOf
  <2>5. UpTypes'
    BY <1>0, <1>1, <2>2, <2>3, <2>4 DEF UpTypes
  <2>6. upHeld = <<>> /\ Len(upHeld) = 0
    BY <1>0, <2>2 DEF UpInv
  <2>7. ASSUME FitsServer PROVE Carries(wireUp, Len(gotUp), nread)
    <3>1. PICK e \in Nat : Carries(wireUp, Len(gotUp), e) /\ (UpLive => e + Len(upHeld) = nread)
      BY <1>0, <2>7 DEF UpInv
    <3>2. UpLive
      BY <2>2 DEF UpLive
    <3>3. e = nread
      BY <2>6, <3>1, <3>2
    <3> QED BY <3>1, <3>3
  <2>8. ASSUME FitsServer
        PROVE \E e \in Nat :
                /\ Carries(wireUp', Len(gotUp)', e)
                /\ UpLive' => e + Len(upHeld)' = nread'
                              /\ \A k \in 1..Len(upHeld') : upHeld'[k] = e + k
    BY <1>0, <2>2, <2>4, <2>7, <2>8
  <2> QED BY <1>0, <2>2, <2>3, <2>4, <2>5, <2>8 DEF UpInv
<1>8. CASE UpWrite
  <2>1. PICK m : m = upHeld
    OBVIOUS
  <2>2. PICK n \in Nat : n = Len(m)
    BY <1>1, <2>1
  <2>3. /\ upPc = "write" /\ upPc' = "check" /\ Len(wireUp) < WireCap
        /\ wireUp' = Append(wireUp, m) /\ upHeld' = <<>> /\ UNCHANGED <<nread, gotUp>>
        /\ header' \in {header, "sent"}
    BY <1>8, <2>1 DEF UpWrite
  <2>4. m \in Seq(1..UpLen) /\ n <= LocalBuf /\ n >= 1
    BY <1>0, <1>1, <2>1, <2>2, <2>3 DEF UpInv
  <2>5. PICK v : v = Append(wireUp, m)
    OBVIOUS
  <2>6. /\ v \in Seq(Seq(1..UpLen)) /\ Len(v) = Len(wireUp) + 1 /\ v[Len(wireUp) + 1] = m
        /\ \A i \in 1..Len(wireUp) : v[i] = wireUp[i]
    BY <1>1, <2>4, <2>5
  <2>7. Len(wireUp) \in Nat /\ Len(v) <= WireCap
    BY <1>1, <2>3, <2>6
  <2>8. ASSUME NEW i \in 1..Len(v) PROVE Len(v[i]) <= LocalBuf
    <3>1. CASE i \in 1..Len(wireUp)
      BY <1>0, <2>6, <3>1 DEF UpInv
    <3>2. CASE i = Len(wireUp) + 1
      BY <2>2, <2>4, <2>6, <3>2
    <3> QED BY <2>6, <2>7, <3>1, <3>2
  <2>9. UpTypes'
    BY <1>0, <1>1, <2>3, <2>5, <2>6, <2>7 DEF UpTypes
  <2>10. ASSUME FitsServer PROVE Carries(v, Len(gotUp), nread)
    <3>1. PICK e \in Nat :
             /\ Carries(wireUp, Len(gotUp), e)
             /\ UpLive => e + Len(upHeld) = nread /\ \A k \in 1..Len(upHeld) : upHeld[k] = e + k
      BY <1>0, <2>10 DEF UpInv
    <3>2. e + n = nread /\ \A k \in 1..n : m[k] = e + k
      BY <2>1, <2>2, <2>3, <3>1 DEF UpLive
    <3>3. Carries(v, Len(gotUp), e + n)
      BY <1>1, <2>2, <2>4, <2>5, <3>1, <3>2, CarriesMore
    <3> QED BY <3>2, <3>3
  <2>11. Len(upHeld') = 0 /\ upHeld' = <<>> /\ nread + 0 = nread
    BY <1>0, <2>3
  <2>12. ASSUME FitsServer
         PROVE \E e \in Nat :
                 /\ Carries(wireUp', Len(gotUp)', e)
                 /\ UpLive' => e + Len(upHeld)' = nread'
                               /\ \A k \in 1..Len(upHeld') : upHeld'[k] = e + k
    BY <1>0, <2>3, <2>5, <2>10, <2>11, <2>12
  <2> QED BY <1>0, <2>3, <2>5, <2>8, <2>9, <2>12 DEF UpInv
<1>9. CASE ServerReceive
  <2>1. PICK h : h = Head(wireUp)
    OBVIOUS
  <2>2. PICK w : w = Tail(wireUp)
    OBVIOUS
  <2>3. PICK p : p = Prefix(h, ServerRoom)
    OBVIOUS
  <2>4. PICK g : g = gotUp
    OBVIOUS
  <2>5. PICK s : s = g \o p
    OBVIOUS
  <2>6. /\ wireUp # <<>> /\ gotUp' = s /\ wireUp' = w
        /\ header' \in {header, "decoded"} /\ UNCHANGED <<upPc, nread, upHeld>>
    BY <1>9, <2>1, <2>2, <2>3, <2>4, <2>5 DEF ServerReceive, pcs
  <2>7. /\ h \in Seq(1..UpLen) /\ w \in Seq(Seq(1..UpLen)) /\ g \in Seq(1..UpLen)
        /\ Len(wireUp) \in Nat /\ Len(wireUp) >= 1 /\ Len(w) = Len(wireUp) - 1 /\ h = wireUp[1]
        /\ \A i \in 1..Len(w) : w[i] = wireUp[i + 1]
    BY <1>1, <2>1, <2>2, <2>4, <2>6
  <2>8. p \in Seq(1..UpLen) /\ (Len(h) <= ServerRoom => p = h)
    <3>1. ServerRoom \in Nat \ {0}
      BY DEF ServerRoom
    <3> QED BY <2>3, <2>7, <3>1, Split
  <2>9. s \in Seq(1..UpLen)
    BY <2>5, <2>7, <2>8
  <2>10. Len(w) <= WireCap
    BY <1>1, <2>7
  <2>11. UpTypes'
    BY <1>0, <1>1, <2>6, <2>7, <2>9, <2>10 DEF UpTypes
  <2>12. Len(h) <= LocalBuf /\ \A i \in 1..Len(w) : Len(w[i]) <= LocalBuf
    <3>1. \A i \in 1..Len(wireUp) : Len(wireUp[i]) <= LocalBuf
      BY <1>0 DEF UpInv
    <3>2. 1 \in 1..Len(wireUp) /\ \A i \in 1..Len(w) : i + 1 \in 1..Len(wireUp)
      BY <2>7
    <3> QED BY <2>7, <3>1, <3>2
  <2>13. ASSUME FitsServer
         PROVE  /\ \A k \in 1..Len(s) : s[k] = k
                /\ \E e \in Nat :
                      /\ Carries(w, Len(s), e)
                      /\ UpLive => e + Len(upHeld) = nread
                                   /\ \A k \in 1..Len(upHeld) : upHeld[k] = e + k
    <3>1. p = h
      <4>1. Len(h) \in Nat /\ LocalBuf <= ServerRoom /\ ServerRoom \in Nat
        BY <1>0, <2>7, <2>13 DEF FitsServer, ServerRoom
      <4>2. Len(h) <= ServerRoom
        BY <1>0, <2>12, <4>1
      <4> QED BY <2>8, <4>2
    <3>2. PICK e \in Nat :
             /\ Carries(wireUp, Len(gotUp), e)
             /\ UpLive => e + Len(upHeld) = nread /\ \A k \in 1..Len(upHeld) : upHeld[k] = e + k
      BY <1>0, <2>13 DEF UpInv
    <3>3. Follows(h, Len(gotUp)) /\ Carries(w, Len(gotUp) + Len(h), e)
      BY <1>1, <2>1, <2>2, <2>6, <3>2, CarriesLess
    <3>4. \A k \in 1..Len(h) : h[k] = Len(g) + k
      BY <2>4, <3>3 DEF Follows
    <3>5. \A k \in 1..Len(g) : g[k] = k
      BY <1>0, <2>4, <2>13 DEF UpInv
    <3>6. /\ Len(s) = Len(g) + Len(h) /\ Len(g) \in Nat /\ Len(h) \in Nat
          /\ \A k \in 1..Len(s) : s[k] = IF k <= Len(g) THEN g[k] ELSE h[k - Len(g)]
      BY <2>5, <2>7, <3>1, ConcatProperties
    <3>7. \A k \in 1..Len(s) : s[k] = k
      BY <3>4, <3>5, <3>6
    <3>8. Carries(w, Len(s), e)
      BY <2>4, <3>3, <3>6
    <3> QED BY <3>2, <3>7, <3>8
  <2>14. UpInv'
    BY <1>0, <2>6, <2>12, <2>13 DEF UpInv, UpLive
  <2> QED BY <2>11, <2>14
<1> QED BY <1>3, <1>4, <1>5, <1>6, <1>7, <1>8, <1>9 DEF RelayNext, Upstream, Environment

-----------------------------------------------------------------------------
(* The relay: theorems *)

\* Every step of the two goroutines and of what surrounds them preserves the
\* strengthened invariant.
THEOREM RelayInductive == RelaySpec => []RelayInv
<1>1. RelayInv /\ [RelayNext]_relayVars => RelayInv'
  <2> SUFFICES ASSUME RelayInv, [RelayNext]_relayVars PROVE RelayInv'
    OBVIOUS
  <2>1. /\ ConnTypes' /\ closed' \in BOOLEAN /\ UpTypes' /\ DownTypes'
        /\ StartInv' /\ DownInv' /\ UpInv'
    BY ConnStep, StartStep, DownStep, UpStep
  <2>2. RelayTypeOK'
    BY <2>1, Zenon DEF RelayTypeOK, ConnTypes, UpTypes, DownTypes
  <2> QED BY <2>1, <2>2 DEF RelayInv
<1> QED BY RelayInitInv, <1>1, PTL DEF RelaySpec

\* The variables of a relay keep their types: a read never gives more than the
\* buffer takes, whether the forwarder's, the allocator's or io.Copy's
\* (client/tcp.go:55-91, tunnel/tcp.go:56-62, argo/connection.go:38-56).
THEOREM RelayTypeCorrect == RelaySpec => []RelayTypeOK
<1>1. RelayInv => RelayTypeOK
  BY DEF RelayInv
<1> QED BY RelayInductive, <1>1, PTL

\* Units in their order, from the first on, are a prefix of the stream.
LEMMA UnitsInOrder ==
  ASSUME NEW N \in Nat, NEW s \in Seq(1..N), \A k \in 1..Len(s) : s[k] = k
  PROVE  IsPrefix(s, Units(0, N))
<1>1. PICK u : u = Units(0, N)
  OBVIOUS
<1>2. u \in Seq(1..N) /\ Len(u) = N /\ \A k \in 1..N : u[k] = k
  <2>1. u \in Seq(1..N) /\ Len(u) = N - 0 /\ \A k \in 1..(N - 0) : u[k] = 0 + k
    <3>1. 0 \in Nat /\ 0 <= N /\ N <= N
      OBVIOUS
    <3> QED BY <1>1, <3>1, UnitsOf
  <2>2. N - 0 = N /\ \A k \in 1..N : 0 + k = k
    OBVIOUS
  <2> QED BY <2>1, <2>2
<1>3. Len(s) \in Nat /\ Len(s) <= N
  <2>1. CASE Len(s) = 0
    BY <2>1
  <2>2. CASE Len(s) # 0
    <3>1. Len(s) \in 1..Len(s)
      BY <2>2
    <3>2. s[Len(s)] \in 1..N
      BY <3>1
    <3> QED BY <3>1, <3>2
  <2> QED BY <2>1, <2>2
<1>4. \A k \in 1..Len(s) : s[k] = u[k]
  BY <1>2, <1>3
<1>5. IsPrefix(s, u)
  BY <1>2, <1>3, <1>4 DEF IsPrefix
<1> QED BY <1>1, <1>5

\* For all sizes of buffers and of messages, what the application receives is a
\* prefix of what the destination sent; what the destination receives is a prefix
\* of what the application wrote if the relay's buffer is no larger than the
\* server's (argo/connection.go:38-56, client/tcp.go:55-91,
\* server/cfd/websocket.go:88-95).
THEOREM StreamsArriveIntact == RelaySpec => []StreamsIntact
<1>1. RelayInv => StreamsIntact
  <2> SUFFICES ASSUME RelayInv PROVE StreamsIntact
    OBVIOUS
  <2>1. /\ DownLen \in Nat /\ UpLen \in Nat
        /\ gotDown \in Seq(1..DownLen) /\ gotUp \in Seq(1..UpLen)
    BY LengthsAssumption, TypeParts DEF RelayInv, DownTypes, UpTypes
  <2>2. IsPrefix(gotDown, Units(0, DownLen))
    BY <2>1, UnitsInOrder DEF RelayInv, DownInv
  <2>3. FitsServer => IsPrefix(gotUp, Units(0, UpLen))
    BY <2>1, UnitsInOrder DEF RelayInv, UpInv
  <2> QED BY <2>2, <2>3 DEF StreamsIntact
<1> QED BY RelayInductive, <1>1, PTL

-----------------------------------------------------------------------------
(* The allocator *)

\* The naturals have a relation for which every set of them has a minimum.
LEMMA Ordered ==
  \E R : IsWellFoundedOn(R, Nat) /\ \A y \in Nat, z \in Nat : y < z => <<y, z>> \in R
<1>1. \A y \in Nat, z \in Nat : y < z => <<y, z>> \in OpToRel(<, Nat)
  BY DEF OpToRel
<1> QED BY <1>1, NatLessThanWellFounded, Zenon

\* A set of naturals that is not empty has a least element.
LEMMA Least ==
  ASSUME NEW S, S \subseteq Nat, S # {} PROVE \E x \in S : \A y \in S : x <= y
<1>1. PICK R : IsWellFoundedOn(R, Nat) /\ \A y \in Nat, z \in Nat : y < z => <<y, z>> \in R
  BY Ordered
<1>2. PICK x \in S : \A y \in S : ~(<<y, x>> \in R)
  <2>1. IsWellFoundedOn(R, Nat)
    BY <1>1
  <2> QED BY <2>1, WFMin
<1>3. \A y \in S : ~(y < x) /\ y \in Nat /\ x \in Nat
  BY <1>1, <1>2
<1> QED BY <1>2, <1>3

\* The powers of two that the 17 pools have to do with, as a function.
Pow == [b \in 0..18 |-> 2^b]

\* Pow is exponentiation.
LEMMA PowIs == \A b \in 0..18 : Pow[b] = 2^b
BY Zenon DEF Pow

\* Each is twice the one before.
LEMMA PowSteps ==
  /\ Pow[0] = 1
  /\ \A b \in 0..17 :
        Pow[b] \in Nat \ {0} /\ Pow[b + 1] \in Nat /\ Pow[b + 1] = 2 * Pow[b]
<1>1.
    /\ 2^0 = 1 /\ 2^1 = 2 /\ 2^2 = 4 /\ 2^3 = 8 /\ 2^4 = 16
    /\ 2^5 = 32 /\ 2^6 = 64 /\ 2^7 = 128 /\ 2^8 = 256 /\ 2^9 = 512
    /\ 2^10 = 1024 /\ 2^11 = 2048 /\ 2^12 = 4096 /\ 2^13 = 8192 /\ 2^14 = 16384
    /\ 2^15 = 32768 /\ 2^16 = 65536 /\ 2^17 = 131072 /\ 2^18 = 262144
  OBVIOUS
<1>2.
    /\ Pow[0] = 1 /\ Pow[1] = 2 /\ Pow[2] = 4 /\ Pow[3] = 8 /\ Pow[4] = 16
    /\ Pow[5] = 32 /\ Pow[6] = 64 /\ Pow[7] = 128 /\ Pow[8] = 256 /\ Pow[9] = 512
    /\ Pow[10] = 1024 /\ Pow[11] = 2048 /\ Pow[12] = 4096 /\ Pow[13] = 8192 /\ Pow[14] = 16384
    /\ Pow[15] = 32768 /\ Pow[16] = 65536 /\ Pow[17] = 131072 /\ Pow[18] = 262144
  BY <1>1 DEF Pow
<1> QED BY <1>2

\* A larger exponent gives at least twice the power: the least one that does not
\* would have a predecessor that does.
LEMMA PowGrows ==
  ASSUME NEW b \in 0..17, NEW c \in 0..17, b < c PROVE Pow[b + 1] <= Pow[c]
<1> DEFINE Late == {n \in 0..17 : b < n /\ ~(Pow[b + 1] <= Pow[n])}
<1> SUFFICES ASSUME c \in Late PROVE FALSE
  OBVIOUS
<1>1. PICK n \in Late : \A k \in Late : n <= k
  <2>1. Late \subseteq Nat /\ Late # {}
    OBVIOUS
  <2> HIDE DEF Late
  <2> QED BY <2>1, Least
<1>2. n \in 0..17 /\ b < n /\ ~(Pow[b + 1] <= Pow[n]) /\ n - 1 \in 0..17 /\ n - 1 \notin Late
  BY <1>1
<1>3. n # b + 1
  BY <1>2, PowSteps
<1>4. Pow[b + 1] <= Pow[n - 1]
  BY <1>2, <1>3
<1>5. Pow[n - 1] \in Nat /\ Pow[n] = 2 * Pow[n - 1]
  <2>1. (n - 1) + 1 = n
    BY <1>2
  <2> QED BY <1>2, <2>1, PowSteps
<1>6. Pow[b + 1] \in Nat
  BY PowSteps
<1> QED BY <1>2, <1>4, <1>5, <1>6

\* Every size up to that of the last pool has a most significant bit ...
LEMMA MsbExists ==
  ASSUME NEW size \in Nat \ {0}, size <= Pow[16]
  PROVE  \E b \in 0..16 : Pow[b] <= size /\ size < Pow[b + 1]
<1> DEFINE Above == {n \in 0..17 : size < Pow[n]}
<1>1. PICK n \in Above : \A k \in Above : n <= k
  <2>1. Above \subseteq Nat
    OBVIOUS
  <2>2. 17 \in Above
    <3>1. Pow[16] \in Nat /\ Pow[16] # 0 /\ Pow[16 + 1] = 2 * Pow[16]
      BY PowSteps
    <3>2. Pow[17] = 2 * Pow[16]
      BY <3>1
    <3> QED BY <3>1, <3>2
  <2> HIDE DEF Above
  <2> QED BY <2>1, <2>2, Least
<1>2. n \in 0..17 /\ size < Pow[n] /\ n # 0
  BY <1>1, PowSteps
<1>3. PICK b \in 0..16 : n = b + 1
  <2>1. n - 1 \in 0..16 /\ n = (n - 1) + 1
    BY <1>2
  <2> QED BY <2>1
<1>4. b \notin Above
  BY <1>1, <1>3
<1>5. Pow[b] \in Nat
  BY PowSteps
<1> QED BY <1>2, <1>3, <1>4, <1>5

\* ... and only one.
LEMMA MsbIs ==
  ASSUME Classes = 17, NEW size \in Nat, NEW b \in 0..17, Pow[b] <= size, size < Pow[b + 1]
  PROVE  msb(size) = b
<1>1. PICK c : c = msb(size)
  OBVIOUS
<1>2. 2^b <= size /\ size < 2^(b + 1) /\ b \in 0..Classes
  <2>1. b \in 0..18 /\ b + 1 \in 0..18
    OBVIOUS
  <2> QED BY <2>1, PowIs
<1>3. c \in 0..Classes /\ 2^c <= size /\ size < 2^(c + 1)
  BY <1>1, <1>2, Zenon DEF msb
<1>4. c \in 0..17 /\ Pow[c] <= size /\ size < Pow[c + 1]
  <2>1. c \in 0..17 /\ c \in 0..18 /\ c + 1 \in 0..18
    BY <1>3
  <2> QED BY <1>3, <2>1, PowIs
<1>5. Pow[b] \in Nat /\ Pow[c] \in Nat /\ Pow[b + 1] \in Nat /\ Pow[c + 1] \in Nat
  BY <1>4, PowSteps
<1>6. ~(b < c)
  BY <1>4, <1>5, PowGrows
<1>7. ~(c < b)
  BY <1>4, <1>5, PowGrows
<1> QED BY <1>1, <1>4, <1>6, <1>7

\* Get rounds up to the next power of two, which is less than twice the size, and
\* the most significant bit of that power is its pool.
LEMMA SliceFits ==
  ASSUME Classes = 17, mtu \in Nat PROVE AllocatorFits
<1>1. PICK buf : buf = Get(mtu)
  OBVIOUS
<1>2. MaxSize = Pow[16]
  <2>1. Classes - 1 = 16
    OBVIOUS
  <2> QED BY <2>1, PowIs DEF MaxSize
<1>3. CASE mtu = 0 \/ mtu > MaxSize
  BY <1>3 DEF AllocatorFits, Get
<1>4. CASE ~(mtu = 0 \/ mtu > MaxSize)
  <2>1. Pow[16] \in Nat
    BY PowSteps
  <2>2. mtu \in Nat \ {0} /\ mtu <= Pow[16]
    BY <1>2, <1>4, <2>1
  <2>3. PICK b \in 0..16 : Pow[b] <= mtu /\ mtu < Pow[b + 1]
    BY <2>2, MsbExists
  <2>4. msb(mtu) = b
    BY <2>3, MsbIs
  <2>5. PICK k : k = IF mtu = 2^b THEN b ELSE b + 1
    OBVIOUS
  <2>6. buf = [len |-> mtu, cap |-> 2^k]
    <3>1. buf = [[len |-> 2^k, cap |-> 2^k] EXCEPT !.len = mtu]
      BY <1>1, <1>4, <2>4, <2>5, Zenon DEF Get, Pooled
    <3> QED BY <3>1
  <2>7. /\ Pow[b] \in Nat \ {0} /\ Pow[b + 1] \in Nat /\ Pow[b + 1] = 2 * Pow[b]
        /\ 2^b = Pow[b]
    <3>1. b \in 0..17 /\ b \in 0..18
      OBVIOUS
    <3>2. 2^b = Pow[b]
      BY <3>1, PowIs
    <3> QED BY <3>1, <3>2, PowSteps
  <2>8. /\ k \in 0..16 /\ mtu <= Pow[k] /\ Pow[k] < 2 * mtu /\ Pow[k] <= Pow[16]
    <3>1. CASE mtu = Pow[b]
      BY <2>2, <2>5, <2>7, <3>1
    <3>2. CASE mtu # Pow[b]
      <4>1. k = b + 1
        BY <2>5, <2>7, <3>2
      <4>2. b # 16
        BY <2>2, <2>3, <3>2, <2>1
      <4>3. Pow[b + 1] <= Pow[16]
        BY <4>2, PowGrows
      <4> QED BY <2>2, <2>3, <2>7, <3>2, <4>1, <4>2, <4>3
    <3> QED BY <3>1, <3>2
  <2>9. /\ Pow[k] \in Nat \ {0} /\ Pow[k + 1] = 2 * Pow[k] /\ Pow[k] = 2^k
    <3>1. k \in 0..17 /\ k \in 0..18
      BY <2>8
    <3>2. Pow[k] = 2^k
      BY <3>1, PowIs
    <3> QED BY <3>1, <3>2, PowSteps
  <2>10. msb(2^k) = k
    <3>1. k \in 0..17 /\ Pow[k] < Pow[k + 1]
      BY <2>8, <2>9
    <3> QED BY <2>9, <3>1, MsbIs
  <2>11. /\ buf.len = mtu /\ buf.cap = Pow[k] /\ buf.len <= buf.cap /\ buf.cap < 2 * buf.len
    BY <2>6, <2>8, <2>9
  <2>12. PutAccepts(buf)
    BY <1>2, <2>8, <2>9, <2>10, <2>11 DEF PutAccepts
  <2>13. Pooled(PutClass(buf)).cap = buf.cap
    BY <2>9, <2>10, <2>11 DEF Pooled, PutClass
  <2> QED BY <1>1, <2>11, <2>12, <2>13 DEF AllocatorFits
<1> QED BY <1>3, <1>4

\* With the 17 pools that New makes (allocator.go:21), for every MTU: a slice is as
\* long as was asked for, wastes less than half of its capacity, and Put files it
\* in the pool it came from (allocator.go:32-54).
THEOREM SlicesFit == Classes = 17 => (RelaySpec => []AllocatorFits)
<1> SUFFICES ASSUME Classes = 17 PROVE RelaySpec => []AllocatorFits
  OBVIOUS
<1>1. RelayTypeOK => AllocatorFits
  <2> SUFFICES ASSUME RelayTypeOK PROVE AllocatorFits
    OBVIOUS
  <2>1. mtu \in Nat
    BY LengthsAssumption DEF RelayTypeOK
  <2> QED BY <2>1, SliceFits
<1> QED BY <1>1, RelayTypeCorrect, PTL
=============================================================================
