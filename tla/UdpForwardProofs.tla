-------------------------- MODULE UdpForwardProofs --------------------------
(***************************************************************************)
(* Proofs about the UDP forwarder, for any sets of sources and connectors  *)
(* and any queue capacity: type correctness, the safety of the listener's  *)
(* send, and the absence of tombstones in udpConns.                        *)
(***************************************************************************)
EXTENDS UdpForward, TLAPS

\* c.mu is held by the goroutine that is inside its critical section.
LockInv ==
    /\ lpc # "read" => lconn \in Conns
    /\ lpc \in {"check", "send"} => mu[lconn] = "listener"
    /\ \A c \in Conns : hpc[c] = "close" => mu[c] = "health"

\* healthCheck sets the flag and closes the queue in one critical section.
QueueInv ==
    /\ \A c \in Conns : qclosed[c] => closed[c]
    /\ \A c \in Conns :
        hpc[c] \in {"closeRemote", "delete", "done"} => qclosed[c]

\* An entry of udpConns points to a stored connector of its own source.
MapInv ==
    \A a \in Addrs, c \in Conns :
        udpConns[a] = c => src[c] = a /\ cpc[c] \in {"send", "done"}

IInv == TypeOK /\ LockInv /\ QueueInv /\ MapInv /\ ListenerSendSafe /\ NoTombstone

-----------------------------------------------------------------------------
LEMMA TypeInit == Init => TypeOK
<1>1. 0 \in 0..QueueCap
  BY CapAssumption
<1> SUFFICES ASSUME Init PROVE TypeOK
  OBVIOUS
<1>2. closed \in [Conns -> BOOLEAN]
  BY Zenon DEF Init
<1>3. qclosed \in [Conns -> BOOLEAN]
  BY Zenon DEF Init
<1>4. idle \in [Conns -> BOOLEAN]
  BY Zenon DEF Init
<1> QED BY <1>1, <1>2, <1>3, <1>4 DEF Init, TypeOK

\* A send on inboundQueue never exceeds its capacity.
LEMMA EnqueueType ==
    ASSUME NEW c \in Conns, TypeOK, Enqueue(c)
    PROVE  /\ qlen' \in [Conns -> 0..QueueCap]
           /\ panicked' \in BOOLEAN
<1>1. panicked' \in BOOLEAN
  BY DEF Enqueue, TypeOK
<1>2. CASE qclosed[c]
  BY <1>1, <1>2 DEF Enqueue, TypeOK
<1>3. CASE ~qclosed[c]
  <2>1. qlen[c] + 1 \in 0..QueueCap
    BY <1>3, CapAssumption DEF Enqueue, CanEnqueue, TypeOK
  <2> QED BY <1>1, <1>3, <2>1 DEF Enqueue, TypeOK
<1> QED BY <1>2, <1>3

\* Every step of the forwarder keeps the variables in their types.
LEMMA TypeStep == TypeOK /\ LockInv /\ [Next]_vars => TypeOK'
<1> SUFFICES ASSUME TypeOK, LockInv, [Next]_vars PROVE TypeOK'
  OBVIOUS
<1>1. CASE UNCHANGED vars
  BY <1>1 DEF TypeOK, vars, lvars, cvars, pcs
<1>2. CASE Listener
  <2>1. ASSUME NEW a \in Addrs, ReadKnown(a) PROVE TypeOK'
    BY <2>1 DEF ReadKnown, TypeOK, cvars, pcs
  <2>2. ASSUME NEW a \in Addrs, NEW c \in Conns, ReadUnknown(a, c) PROVE TypeOK'
    BY <2>2 DEF ReadUnknown, TypeOK, lvars
  <2>3. CASE ListenerLock
    BY <2>3 DEF ListenerLock, TypeOK, pcs
  <2>4. CASE ListenerDrop
    BY <2>4 DEF ListenerDrop, TypeOK, pcs
  <2>5. CASE ListenerPass
    BY <2>5 DEF ListenerPass, TypeOK, cvars, pcs
  <2>6. CASE ListenerSend
    <3>1. lconn \in Conns
      BY <2>6 DEF ListenerSend, LockInv
    <3>2. qlen' \in [Conns -> 0..QueueCap] /\ panicked' \in BOOLEAN
      BY <2>6, <3>1, EnqueueType DEF ListenerSend
    <3> QED BY <2>6, <3>2 DEF ListenerSend, TypeOK, pcs
  <2> QED BY <1>2, <2>1, <2>2, <2>3, <2>4, <2>5, <2>6 DEF Listener
<1>3. ASSUME NEW c \in Conns, Creator(c) PROVE TypeOK'
  <2>1. CASE DialFails(c)
    BY <2>1 DEF DialFails, TypeOK, lvars, cvars
  <2>2. CASE NewConn(c)
    BY <2>2 DEF NewConn, TypeOK, lvars
  <2>3. CASE Store(c)
    BY <2>3 DEF Store, TypeOK, lvars, cvars
  <2>4. CASE FirstSend(c)
    <3>1. qlen' \in [Conns -> 0..QueueCap] /\ panicked' \in BOOLEAN
      BY <2>4, EnqueueType DEF FirstSend
    <3> QED BY <2>4, <3>1 DEF FirstSend, TypeOK, lvars
  <2> QED BY <1>3, <2>1, <2>2, <2>3, <2>4 DEF Creator
<1>4. ASSUME NEW c \in Conns, Reader(c) PROVE TypeOK'
  <2>1. CASE ReaderStop(c)
    BY <2>1 DEF ReaderStop, TypeOK, lvars, cvars
  <2>2. CASE ReaderRead(c)
    <3>1. PICK seen \in {idle[c], FALSE} : idle' = [idle EXCEPT ![c] = seen]
      BY <2>2 DEF ReaderRead
    <3>2. seen \in BOOLEAN
      BY <3>1 DEF TypeOK
    <3>3. idle' \in [Conns -> BOOLEAN]
      BY <3>1, <3>2 DEF TypeOK
    <3> QED BY <2>2, <3>3 DEF ReaderRead, TypeOK, lvars
  <2>3. CASE ReaderGot(c)
    BY <2>3 DEF ReaderGot, TypeOK, lvars, cvars
  <2>4. CASE ReaderFail(c)
    BY <2>4 DEF ReaderFail, TypeOK, lvars
  <2>5. CASE ReaderDelete(c)
    BY <2>5 DEF ReaderDelete, DeleteEntry, TypeOK, lvars, cvars
  <2>6. CASE ReaderClose(c)
    BY <2>6 DEF ReaderClose, TypeOK, lvars
  <2> QED BY <1>4, <2>1, <2>2, <2>3, <2>4, <2>5, <2>6 DEF Reader
<1>5. ASSUME NEW c \in Conns, Health(c) PROVE TypeOK'
  <2>1. CASE HealthExpire(c)
    BY <2>1 DEF HealthExpire, TypeOK, lvars, cvars
  <2>2. CASE HealthLock(c)
    BY <2>2 DEF HealthLock, TypeOK, lvars
  <2>3. CASE HealthClose(c)
    BY <2>3 DEF HealthClose, TypeOK, lvars
  <2>4. CASE HealthCloseRemote(c)
    BY <2>4 DEF HealthCloseRemote, TypeOK, lvars
  <2>5. CASE HealthDelete(c)
    BY <2>5 DEF HealthDelete, DeleteEntry, TypeOK, lvars, cvars
  <2> QED BY <1>5, <2>1, <2>2, <2>3, <2>4, <2>5 DEF Health
<1>6. ASSUME NEW c \in Conns, Writer(c) PROVE TypeOK'
  <2>1. CASE WriterRecv(c)
    <3>1. qlen[c] - 1 \in 0..QueueCap
      BY <2>1, CapAssumption DEF WriterRecv, TypeOK
    <3> QED BY <2>1, <3>1 DEF WriterRecv, TypeOK, lvars
  <2>2. CASE WriterEnd(c)
    BY <2>2 DEF WriterEnd, TypeOK, lvars, cvars
  <2>3. CASE WriterWrite(c)
    BY <2>3 DEF WriterWrite, TypeOK, lvars, cvars
  <2> QED BY <1>6, <2>1, <2>2, <2>3 DEF Writer
<1>7. ASSUME NEW c \in Conns, IdlePeriodPasses(c) PROVE TypeOK'
  BY <1>7 DEF IdlePeriodPasses, TypeOK, lvars, pcs
<1>8. ASSUME NEW c \in Conns, RemoteFails(c) PROVE TypeOK'
  BY <1>8 DEF RemoteFails, TypeOK, lvars, pcs
<1> QED BY <1>1, <1>2, <1>3, <1>4, <1>5, <1>6, <1>7, <1>8 DEF Next


\* Every step keeps the mutex with the goroutine in its critical section.
LEMMA LockStep == TypeOK /\ LockInv /\ MapInv /\ [Next]_vars => LockInv'
<1> SUFFICES ASSUME TypeOK, LockInv, MapInv, [Next]_vars PROVE LockInv'
  OBVIOUS
<1> USE DEF LockInv
<1>1. CASE UNCHANGED vars
  BY <1>1 DEF vars, lvars, cvars, pcs
<1>2. CASE Listener
  <2>1. ASSUME NEW a \in Addrs, ReadKnown(a) PROVE LockInv'
    BY <2>1, NoneAssumption DEF ReadKnown, cvars, pcs, TypeOK
  <2>2. ASSUME NEW a \in Addrs, NEW c \in Conns, ReadUnknown(a, c) PROVE LockInv'
    BY <2>2 DEF ReadUnknown, lvars
  <2>3. CASE ListenerLock
    BY <2>3 DEF ListenerLock, pcs, TypeOK
  <2>4. CASE ListenerDrop
    BY <2>4 DEF ListenerDrop, pcs, TypeOK
  <2>5. CASE ListenerPass
    BY <2>5 DEF ListenerPass, cvars, pcs, TypeOK
  <2>6. CASE ListenerSend
    BY <2>6 DEF ListenerSend, pcs, TypeOK
  <2> QED BY <1>2, <2>1, <2>2, <2>3, <2>4, <2>5, <2>6 DEF Listener
<1>3. ASSUME NEW c \in Conns, Creator(c) PROVE LockInv'
  BY <1>3 DEF Creator, DialFails, NewConn, Store, FirstSend, lvars, cvars, TypeOK
<1>4. ASSUME NEW c \in Conns, Reader(c) PROVE LockInv'
  BY <1>4 DEF Reader, ReaderStop, ReaderRead, ReaderGot, ReaderFail,
              ReaderDelete, ReaderClose, lvars, cvars
<1>5. ASSUME NEW c \in Conns, Health(c) PROVE LockInv'
  <2>1. CASE HealthExpire(c)
    BY <2>1 DEF HealthExpire, lvars, cvars, TypeOK
  <2>2. CASE HealthLock(c)
    BY <2>2 DEF HealthLock, lvars, TypeOK
  <2>3. CASE HealthClose(c)
    BY <2>3 DEF HealthClose, lvars, TypeOK
  <2>4. CASE HealthCloseRemote(c)
    BY <2>4 DEF HealthCloseRemote, lvars, TypeOK
  <2>5. CASE HealthDelete(c)
    BY <2>5 DEF HealthDelete, lvars, cvars, TypeOK
  <2> QED BY <1>5, <2>1, <2>2, <2>3, <2>4, <2>5 DEF Health
<1>6. ASSUME NEW c \in Conns, Writer(c) PROVE LockInv'
  BY <1>6 DEF Writer, WriterRecv, WriterEnd, WriterWrite, lvars, cvars
<1>7. ASSUME NEW c \in Conns, IdlePeriodPasses(c) PROVE LockInv'
  BY <1>7 DEF IdlePeriodPasses, lvars, pcs
<1>8. ASSUME NEW c \in Conns, RemoteFails(c) PROVE LockInv'
  BY <1>8 DEF RemoteFails, lvars, pcs
<1> QED BY <1>1, <1>2, <1>3, <1>4, <1>5, <1>6, <1>7, <1>8 DEF Next

\* Every step keeps a closed queue behind a set flag.
LEMMA QueueStep == TypeOK /\ QueueInv /\ [Next]_vars => QueueInv'
<1> SUFFICES ASSUME TypeOK, QueueInv, [Next]_vars PROVE QueueInv'
  OBVIOUS
<1> USE DEF QueueInv, TypeOK
<1>1. CASE UNCHANGED vars
  BY <1>1 DEF vars, cvars, pcs
<1>2. CASE Listener
  BY <1>2 DEF Listener, ReadKnown, ReadUnknown, ListenerLock, ListenerDrop,
              ListenerPass, ListenerSend, cvars, pcs
<1>3. ASSUME NEW c \in Conns, Creator(c) PROVE QueueInv'
  BY <1>3 DEF Creator, DialFails, NewConn, Store, FirstSend, cvars
<1>4. ASSUME NEW c \in Conns, Reader(c) PROVE QueueInv'
  BY <1>4 DEF Reader, ReaderStop, ReaderRead, ReaderGot, ReaderFail,
              ReaderDelete, ReaderClose, cvars
<1>5. ASSUME NEW c \in Conns, Health(c) PROVE QueueInv'
  BY <1>5 DEF Health, HealthExpire, HealthLock, HealthClose,
              HealthCloseRemote, HealthDelete, cvars
<1>6. ASSUME NEW c \in Conns, Writer(c) PROVE QueueInv'
  BY <1>6 DEF Writer, WriterRecv, WriterEnd, WriterWrite, cvars
<1>7. ASSUME NEW c \in Conns, IdlePeriodPasses(c) PROVE QueueInv'
  BY <1>7 DEF IdlePeriodPasses, pcs
<1>8. ASSUME NEW c \in Conns, RemoteFails(c) PROVE QueueInv'
  BY <1>8 DEF RemoteFails, pcs
<1> QED BY <1>1, <1>2, <1>3, <1>4, <1>5, <1>6, <1>7, <1>8 DEF Next

\* Every step keeps the entries of udpConns with their sources.
LEMMA MapStep == TypeOK /\ MapInv /\ [Next]_vars => MapInv'
<1> SUFFICES ASSUME TypeOK, MapInv, [Next]_vars PROVE MapInv'
  OBVIOUS
<1> USE NoneAssumption DEF MapInv, TypeOK
<1>1. CASE UNCHANGED vars
  BY <1>1 DEF vars, cvars, pcs
<1>2. CASE Listener
  BY <1>2 DEF Listener, ReadKnown, ReadUnknown, ListenerLock, ListenerDrop,
              ListenerPass, ListenerSend, cvars, pcs
<1>3. ASSUME NEW c \in Conns, Creator(c) PROVE MapInv'
  BY <1>3 DEF Creator, DialFails, NewConn, Store, FirstSend, cvars
<1>4. ASSUME NEW c \in Conns, Reader(c) PROVE MapInv'
  BY <1>4 DEF Reader, ReaderStop, ReaderRead, ReaderGot, ReaderFail,
              ReaderDelete, ReaderClose, DeleteEntry, cvars
<1>5. ASSUME NEW c \in Conns, Health(c) PROVE MapInv'
  BY <1>5 DEF Health, HealthExpire, HealthLock, HealthClose,
              HealthCloseRemote, HealthDelete, DeleteEntry, cvars
<1>6. ASSUME NEW c \in Conns, Writer(c) PROVE MapInv'
  BY <1>6 DEF Writer, WriterRecv, WriterEnd, WriterWrite, cvars
<1>7. ASSUME NEW c \in Conns, IdlePeriodPasses(c) PROVE MapInv'
  BY <1>7 DEF IdlePeriodPasses, pcs
<1>8. ASSUME NEW c \in Conns, RemoteFails(c) PROVE MapInv'
  BY <1>8 DEF RemoteFails, pcs
<1> QED BY <1>1, <1>2, <1>3, <1>4, <1>5, <1>6, <1>7, <1>8 DEF Next

\* Every step keeps the queue open under a listener that sends.
LEMMA SendStep == IInv /\ [Next]_vars => ListenerSendSafe'
<1> SUFFICES ASSUME IInv, [Next]_vars PROVE ListenerSendSafe'
  OBVIOUS
<1> USE DEF IInv, TypeOK, LockInv, ListenerSendSafe
<1>1. CASE UNCHANGED vars
  BY <1>1 DEF vars, lvars, cvars, pcs
<1>2. CASE Listener
  <2>1. CASE ListenerPass
    BY <2>1 DEF ListenerPass, QueueInv, cvars, pcs
  <2>2. CASE ListenerSend
    BY <2>2 DEF ListenerSend, Enqueue
  <2> QED BY <1>2, <2>1, <2>2 DEF Listener, ReadKnown, ReadUnknown, ListenerLock,
              ListenerDrop, lvars, cvars, pcs
<1>3. ASSUME NEW c \in Conns, Creator(c) PROVE ListenerSendSafe'
  BY <1>3 DEF Creator, DialFails, NewConn, Store, FirstSend, lvars, cvars
<1>4. ASSUME NEW c \in Conns, Reader(c) PROVE ListenerSendSafe'
  BY <1>4 DEF Reader, ReaderStop, ReaderRead, ReaderGot, ReaderFail,
              ReaderDelete, ReaderClose, lvars, cvars
<1>5. ASSUME NEW c \in Conns, Health(c) PROVE ListenerSendSafe'
  <2>1. CASE HealthClose(c)
    <3>1. lpc = "send" => lconn # c
      BY <2>1 DEF HealthClose
    <3> QED BY <2>1, <3>1 DEF HealthClose, lvars
  <2> QED BY <1>5, <2>1 DEF Health, HealthExpire, HealthLock,
              HealthCloseRemote, HealthDelete, lvars, cvars
<1>6. ASSUME NEW c \in Conns, Writer(c) PROVE ListenerSendSafe'
  BY <1>6 DEF Writer, WriterRecv, WriterEnd, WriterWrite, lvars, cvars
<1>7. ASSUME NEW c \in Conns, IdlePeriodPasses(c) PROVE ListenerSendSafe'
  BY <1>7 DEF IdlePeriodPasses, lvars
<1>8. ASSUME NEW c \in Conns, RemoteFails(c) PROVE ListenerSendSafe'
  BY <1>8 DEF RemoteFails, lvars
<1> QED BY <1>1, <1>2, <1>3, <1>4, <1>5, <1>6, <1>7, <1>8 DEF Next

\* Every step keeps finished connectors out of udpConns.
LEMMA TombstoneStep == IInv /\ [Next]_vars => NoTombstone'
<1> SUFFICES ASSUME IInv, [Next]_vars PROVE NoTombstone'
  OBVIOUS
<1> USE NoneAssumption DEF IInv, TypeOK, MapInv, NoTombstone
<1>1. CASE UNCHANGED vars
  BY <1>1 DEF vars, pcs
<1>2. CASE Listener
  BY <1>2 DEF Listener, ReadKnown, ReadUnknown, ListenerLock, ListenerDrop,
              ListenerPass, ListenerSend, pcs
<1>3. ASSUME NEW c \in Conns, Creator(c) PROVE NoTombstone'
  <2>1. CASE FirstSend(c)
    <3>1. hpc[c] = "done" => UNCHANGED cpc
      BY <2>1 DEF FirstSend, Enqueue, QueueInv
    <3> QED BY <2>1, <3>1 DEF FirstSend
  <2> QED BY <1>3, <2>1 DEF Creator, DialFails, NewConn, Store
<1>4. ASSUME NEW c \in Conns, Reader(c) PROVE NoTombstone'
  BY <1>4 DEF Reader, ReaderStop, ReaderRead, ReaderGot, ReaderFail,
              ReaderDelete, ReaderClose, DeleteEntry
<1>5. ASSUME NEW c \in Conns, Health(c) PROVE NoTombstone'
  <2>1. CASE HealthDelete(c)
    <3>1. \A a \in Addrs : udpConns'[a] # c
      BY <2>1 DEF HealthDelete, DeleteEntry
    <3> QED BY <2>1, <3>1 DEF HealthDelete, DeleteEntry
  <2> QED BY <1>5, <2>1 DEF Health, HealthExpire, HealthLock, HealthClose,
              HealthCloseRemote
<1>6. ASSUME NEW c \in Conns, Writer(c) PROVE NoTombstone'
  BY <1>6 DEF Writer, WriterRecv, WriterEnd, WriterWrite
<1>7. ASSUME NEW c \in Conns, IdlePeriodPasses(c) PROVE NoTombstone'
  BY <1>7 DEF IdlePeriodPasses, pcs
<1>8. ASSUME NEW c \in Conns, RemoteFails(c) PROVE NoTombstone'
  BY <1>8 DEF RemoteFails, pcs
<1> QED BY <1>1, <1>2, <1>3, <1>4, <1>5, <1>6, <1>7, <1>8 DEF Next

\* The strengthening is an invariant of the forwarder.
THEOREM Inductive == Spec => []IInv
<1>1. Init => IInv
  <2> SUFFICES ASSUME Init PROVE IInv
    OBVIOUS
  <2>1. TypeOK
    BY TypeInit
  <2>2. LockInv /\ MapInv /\ ListenerSendSafe /\ NoTombstone
    BY NoneAssumption DEF Init, LockInv, MapInv, ListenerSendSafe, NoTombstone
  <2>3. QueueInv
    BY DEF Init, QueueInv
  <2> QED BY <2>1, <2>2, <2>3 DEF IInv
<1>2. IInv /\ [Next]_vars => IInv'
  BY TypeStep, LockStep, QueueStep, MapStep, SendStep, TombstoneStep DEF IInv
<1> QED BY <1>1, <1>2, PTL DEF Spec

\* The variables of every behaviour stay in their types (the Connector fields,
\* udpConns and the positions of the goroutines of client/udp.go).
THEOREM TypeCorrect == Spec => []TypeOK
BY Inductive, PTL DEF IInv

\* The listener of UdpListen never sends on a queue that healthCheck closed
\* (client/udp.go:85-94), for any number of sources, connectors and slots.
THEOREM ListenerNeverPanics == Spec => []ListenerSendSafe
BY Inductive, PTL DEF IInv

\* A connector that healthCheck has finished with stays out of udpConns, unless
\* its creator is still about to send (client/udp.go:104, 183).
THEOREM TombstonesNeverStay == Spec => []NoTombstone
BY Inductive, PTL DEF IInv
=============================================================================
